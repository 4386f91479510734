-------------------------- MODULE RopeHistoryProofs --------------------------
(***************************************************************************)
(* Proofs about RopeHistory, for every set of files, every length of the   *)
(* history and every bound.                                                *)
(***************************************************************************)
EXTENDS RopeHistory, SequenceTheorems, WellFoundedInduction, TLAPS

-----------------------------------------------------------------------------
(* The inductive invariant.  A list of entries leads from one disk to      *)
(* another when it can be done there entry by entry, each entry finding    *)
(* what it holds as old.                                                   *)

Leads(s, x, y) ==
    \E d \in [0..Len(s) -> Disks] :
        /\ d[0] = x /\ d[Len(s)] = y
        /\ \A i \in 1..Len(s) :
              /\ s[i].old = [f \in DOMAIN s[i].new |-> d[i - 1][f]]
              /\ d[i] = Onto(s[i].new, d[i - 1])

\* What is recorded changes a file.
Steps == {e \in Entries : DOMAIN e.new # {}}

\* u is what the history keeps of some entries followed by s.
Recent(s, u) == \E x \in Seq(Steps) : u = Latest(x \o s)

\* s is the end of t.
Ends(s, t) ==
    /\ Len(s) <= Len(t)
    /\ \A i \in 1..Len(s) : s[i] = t[Len(t) - Len(s) + i]

\* s is a and then b.
Splits(s, a, b) == s = a \o b

Projects == [disk : Disks, undo : Seq(Steps), redo : Seq(Steps)]

Bounded(p) == p \in Projects /\ Len(p.undo) + Len(p.redo) <= MaxHistory

Closing == call.op \in {"commit", "rollback"}

CallStates ==
    {Idle}
    \cup [op : {"commit", "rollback"}, merged : Entries, saved : Parts,
          popped : BOOLEAN, was : Disks]
    \cup [op : {"transaction"}, pushed : Seq(Steps), start : Disks, alone : BOOLEAN]

\* A change stack closes while it is open, and a transaction disturbs one.
TypeInv ==
    /\ Bounded(project)
    /\ stack # None => stack \in Seq(Steps) /\ Bounded(base)
    /\ originals \in Parts
    /\ call \in CallStates
    /\ \A change \in late : change \in Parts /\ DOMAIN change # {}
    /\ fresh \in 1..(MaxChanges + 1) /\ timeouts \in 0..MaxLate
    /\ seen \in {"edits", "files", "other"} /\ loose \in BOOLEAN
    /\ Closing => stack # None
    /\ call.op = "transaction" /\ stack # None => seen = "other"

\* While a change stack is undisturbed, the history is the one it began with
\* and the stack, and the stack leads from the disk it began with to the disk.
StackInv ==
    call = Idle /\ stack # None /\ seen # "other" =>
        /\ project.undo = Latest(base.undo \o stack)
        /\ Leads(stack, base.disk, project.disk)

\* Its originals are the contents of then of all the files that it edited.
OriginalsInv ==
    call = Idle /\ stack # None /\ seen = "edits" =>
        /\ \A f \in DOMAIN originals : originals[f] = base.disk[f]
        /\ \A f \in Files \ DOMAIN originals : project.disk[f] = base.disk[f]
        /\ \A i \in 1..Len(stack) : DOMAIN stack[i].new \subseteq DOMAIN originals

\* While it is closed: once popped, the disk and the history are back, and the
\* merged change leads from there to what the disk was.
ClosingInv ==
    Closing /\ seen # "other" =>
        /\ call.popped =>
              /\ project.disk = base.disk
              /\ Ends(project.undo, base.undo)
              /\ call.merged.old = [f \in DOMAIN call.merged.new |-> base.disk[f]]
              /\ call.was = Onto(call.merged.new, base.disk)
        /\ seen = "edits" =>
              /\ \A f \in DOMAIN call.saved : call.saved[f] = base.disk[f]
              /\ \A f \in Files \ DOMAIN call.saved : project.disk[f] = base.disk[f]

\* The steps of a transaction lead from the disk at its start to the disk, and
\* are the latest of the history.
TransactionInv ==
    call.op = "transaction" /\ call.alone =>
        /\ Leads(call.pushed, call.start, project.disk)
        /\ Recent(call.pushed, project.undo)

\* The history of p leads from some disk to the disk, and what was undone leads
\* on from there.
Timeline(p) ==
    /\ \E x \in Disks : Leads(p.undo, x, p.disk)
    /\ \E y \in Disks : Leads(Reverse(p.redo), p.disk, y)

\* It does, as long as all writes went through it.
HistoryInv == ~loose => Timeline(project)

IInv ==
    TypeInv /\ StackInv /\ OriginalsInv /\ ClosingInv /\ TransactionInv /\ HistoryInv

-----------------------------------------------------------------------------
(* Numbers and sequences *)

LEMMA Least ==
    ASSUME NEW I, I \subseteq Nat, I # {}
    PROVE  Min(I) \in I /\ \A y \in I : Min(I) <= y
<1> DEFINE below == OpToRel(<, Nat)
<1>0. \A x, y \in Nat : y < x => <<y, x>> \in below
    BY DEF OpToRel
<1>1. IsWellFoundedOn(below, Nat)
    BY NatLessThanWellFounded
<1> HIDE DEF below
<1>2. PICK x \in I : \A y \in I : <<y, x>> \notin below
    BY <1>1, WFMin
<1>3. ASSUME NEW y \in I PROVE x <= y
  <2>1. x \in Nat /\ y \in Nat
      OBVIOUS
  <2>2. ~(y < x)
      BY <1>0, <1>2, <2>1
  <2>3. QED  BY <2>1, <2>2
<1>4. QED  BY <1>3 DEF Min

LEMMA Greatest ==
    ASSUME NEW n \in Nat, NEW I, I \subseteq 0..n, I # {}
    PROVE  Max(I) \in I /\ \A y \in I : y <= Max(I)
<1> DEFINE J == {n - i : i \in I}
           x == n - Min(J)
<1>1. \A i \in I : i \in Nat /\ n - i \in Nat /\ n - (n - i) = i
    OBVIOUS
<1>2. J \subseteq Nat /\ J # {}
    BY <1>1
<1>3. Min(J) \in J /\ \A y \in J : Min(J) <= y
    BY <1>2, Least
<1>4. PICK k \in I : Min(J) = n - k
    BY <1>3
<1>5. x = k
    BY <1>1, <1>4
<1>6. ASSUME NEW y \in I PROVE y <= k
  <2>1. n - k <= n - y
      BY <1>3, <1>4
  <2>2. k \in Nat /\ y \in Nat
      BY <1>1
  <2>3. QED  BY <2>1, <2>2
<1>7. QED  BY <1>6 DEF Max

\* The elements of a part of a sequence.
LEMMA Slice ==
    ASSUME NEW S, NEW s \in Seq(S), NEW m \in Nat, NEW n \in Nat,
           1 <= m, m <= n + 1, n <= Len(s)
    PROVE  /\ SubSeq(s, m, n) \in Seq(S)
           /\ Len(SubSeq(s, m, n)) = n - m + 1
           /\ \A i \in 1..(n - m + 1) : SubSeq(s, m, n)[i] = s[m + i - 1]
<1>1. Len(s) \in Nat /\ \A i \in 1..Len(s) : s[i] \in S
    BY ElementOfSeq
<1>2. m \in Int /\ n \in Int /\ \A i \in m..n : s[i] \in S
    BY <1>1
<1>3. /\ SubSeq(s, m, n) \in Seq(S)
      /\ Len(SubSeq(s, m, n)) = IF m <= n THEN n - m + 1 ELSE 0
      /\ \A i \in 1..(n - m + 1) : SubSeq(s, m, n)[i] = s[m + i - 1]
    BY <1>2, SubSeqProperties
<1>4. (IF m <= n THEN n - m + 1 ELSE 0) = n - m + 1
    OBVIOUS
<1>5. QED  BY <1>3, <1>4

LEMMA Reversed ==
    ASSUME NEW S, NEW s \in Seq(S)
    PROVE  /\ Reverse(s) \in Seq(S) /\ Len(Reverse(s)) = Len(s)
           /\ \A i \in 1..Len(s) : Reverse(s)[i] = s[Len(s) - i + 1]
<1> DEFINE n == Len(s)
           r == [i \in 1..n |-> s[(n - i) + 1]]
<1>1. n \in Nat /\ \A i \in 1..n : s[i] \in S
    BY ElementOfSeq
<1>2. \A i \in 1..n : (n - i) + 1 \in 1..n
    BY <1>1
<1>3. r \in [1..n -> S]
    BY <1>1, <1>2
<1>4. r \in Seq(S)
    BY <1>1, <1>3, SeqDef
<1>5. Len(r) = n
  <2>1. DOMAIN r = 1..Len(r) /\ Len(r) \in Nat /\ DOMAIN r = 1..n
      BY <1>4, LenProperties
  <2> DEFINE l == Len(r)
  <2>2. 1..l = 1..n /\ l \in Nat /\ n \in Nat
      BY <1>1, <2>1
  <2> HIDE DEF l, n
  <2>3. (n # 0 => n \in 1..l) /\ (l # 0 => l \in 1..n)
      BY <2>2
  <2>4. l = n
      BY <2>2, <2>3
  <2>5. QED  BY <2>4 DEF l
<1>6. QED  BY <1>4, <1>5 DEF Reverse

\* A sequence of two parts.
LEMMA Joined ==
    ASSUME NEW S, NEW s \in Seq(S), NEW t \in Seq(S)
    PROVE  /\ s \o t \in Seq(S) /\ Len(s \o t) = Len(s) + Len(t)
           /\ \A i \in 1..Len(s) : (s \o t)[i] = s[i]
           /\ \A i \in 1..Len(t) : (s \o t)[Len(s) + i] = t[i]
<1>1. Len(s) \in Nat /\ Len(t) \in Nat
    BY LenProperties
<1>2. /\ s \o t \in Seq(S) /\ Len(s \o t) = Len(s) + Len(t)
      /\ \A i \in 1..(Len(s) + Len(t)) :
            (s \o t)[i] = IF i <= Len(s) THEN s[i] ELSE t[i - Len(s)]
    BY ConcatProperties
<1>3. ASSUME NEW i \in 1..Len(t) PROVE (s \o t)[Len(s) + i] = t[i]
  <2>1. /\ Len(s) + i \in 1..(Len(s) + Len(t)) /\ ~(Len(s) + i <= Len(s))
        /\ (Len(s) + i) - Len(s) = i
      BY <1>1
  <2>2. QED  BY <1>2, <2>1
<1>4. QED  BY <1>1, <1>2, <1>3

LEMMA LatestEnds ==
    ASSUME NEW S, NEW s \in Seq(S)
    PROVE  /\ Latest(s) \in Seq(S) /\ Len(Latest(s)) \in Nat
           /\ Len(Latest(s)) <= MaxHistory
           /\ Len(s) <= MaxHistory => Latest(s) = s
           /\ Len(s) > MaxHistory => Len(Latest(s)) = MaxHistory
           /\ Ends(Latest(s), s)
<1> USE ConstantsAssumption
<1>1. Len(s) \in Nat
    BY LenProperties
<1>2. CASE Len(s) <= MaxHistory
    BY <1>1, <1>2 DEF Latest, Ends
<1>3. CASE Len(s) > MaxHistory
  <2> DEFINE m == Len(s) - MaxHistory + 1
             t == SubSeq(s, m, Len(s))
  <2>1. m \in Nat /\ 1 <= m /\ m <= Len(s) + 1 /\ Len(s) - m + 1 = MaxHistory
      BY <1>1, <1>3
  <2>2. /\ t \in Seq(S) /\ Len(t) = MaxHistory
        /\ \A i \in 1..MaxHistory : t[i] = s[m + i - 1]
      BY <1>1, <2>1, Slice
  <2>3. Latest(s) = t
      BY <1>1, <1>3 DEF Latest
  <2>4. \A i \in 1..MaxHistory : m + i - 1 = Len(s) - MaxHistory + i
      BY <1>1, <1>3
  <2> HIDE DEF m, t
  <2>5. QED  BY <1>1, <1>3, <2>2, <2>3, <2>4 DEF Ends
<1>4. QED  BY <1>1, <1>2, <1>3

-----------------------------------------------------------------------------
(* Lists of entries that lead from disk to disk *)

LEMMA OntoDisk ==
    ASSUME NEW part \in Parts, NEW x \in Disks
    PROVE  /\ Onto(part, x) \in Disks
           /\ \A f \in Files : Onto(part, x)[f] =
                 IF f \in DOMAIN part THEN part[f] ELSE x[f]
<1>1. PICK fs \in SUBSET Files : part \in [fs -> Contents]
    BY DEF Parts
<1>2. DOMAIN part \cup DOMAIN x = Files
    BY <1>1 DEF Disks
<1>3. Onto(part, x) = [f \in Files |-> IF f \in DOMAIN part THEN part[f] ELSE x[f]]
    BY <1>2 DEF Onto
<1>4. QED  BY <1>1, <1>3 DEF Disks

LEMMA EntryType ==
    ASSUME NEW e \in Entries
    PROVE  e.old \in Parts /\ e.new \in Parts /\ DOMAIN e.old = DOMAIN e.new
           /\ DOMAIN e.new \subseteq Files
BY DEF Entries, Parts

LEMMA LeadsNowhere ==
    ASSUME NEW x \in Disks
    PROVE  Leads(<<>>, x, x)
<1> DEFINE d == [i \in 0..0 |-> x]
<1>1. d \in [0..0 -> Disks] /\ d[0] = x /\ Len(<<>>) = 0
    OBVIOUS
<1> HIDE DEF d
<1>2. QED  BY <1>1 DEF Leads

\* One entry more.
LEMMA LeadsOn ==
    ASSUME NEW s \in Seq(Entries), NEW x, NEW y, Leads(s, x, y), NEW e \in Entries,
           e.old = [f \in DOMAIN e.new |-> y[f]]
    PROVE  Leads(Append(s, e), x, Onto(e.new, y)) /\ Onto(e.new, y) \in Disks
<1> DEFINE n == Len(s)
           t == Append(s, e)
           z == Onto(e.new, y)
<1>1. PICK d \in [0..n -> Disks] :
         /\ d[0] = x /\ d[n] = y
         /\ \A i \in 1..n : /\ s[i].old = [f \in DOMAIN s[i].new |-> d[i - 1][f]]
                            /\ d[i] = Onto(s[i].new, d[i - 1])
    BY DEF Leads
<1>2. n \in Nat /\ Len(t) = n + 1 /\ (\A i \in 1..n : t[i] = s[i]) /\ t[n + 1] = e
    BY AppendProperties, LenProperties
<1>3. y \in Disks
    BY <1>1, <1>2
<1>4. z \in Disks
    BY <1>3, EntryType, OntoDisk
<1> HIDE DEF z, t, n
<1> DEFINE d2 == [i \in 0..(n + 1) |-> IF i <= n THEN d[i] ELSE z]
<1>5. d2 \in [0..(n + 1) -> Disks]
    BY <1>1, <1>2, <1>4
<1>6. d2[0] = x /\ d2[n] = y /\ d2[n + 1] = z /\ \A i \in 0..n : d2[i] = d[i]
    BY <1>1, <1>2
<1> HIDE DEF d2
<1>7. ASSUME NEW i \in 1..(n + 1)
      PROVE  /\ t[i].old = [f \in DOMAIN t[i].new |-> d2[i - 1][f]]
             /\ d2[i] = Onto(t[i].new, d2[i - 1])
  <2>1. CASE i = n + 1
    <3>1. i - 1 = n
        BY <1>2, <2>1
    <3>2. t[i] = e /\ d2[i - 1] = y /\ d2[i] = z
        BY <1>2, <1>6, <2>1, <3>1
    <3>3. QED  BY <3>2 DEF z
  <2>2. CASE i # n + 1
    <3>1. i \in 1..n /\ i - 1 \in 0..n /\ i \in 0..n
        BY <1>2, <2>2
    <3>2. t[i] = s[i] /\ d2[i] = d[i] /\ d2[i - 1] = d[i - 1]
        BY <1>2, <1>6, <3>1
    <3>3. QED  BY <1>1, <3>1, <3>2
  <2>3. QED  BY <2>1, <2>2
<1>8. /\ d2 \in [0..Len(t) -> Disks] /\ d2[0] = x /\ d2[Len(t)] = z
      /\ \A i \in 1..Len(t) : /\ t[i].old = [f \in DOMAIN t[i].new |-> d2[i - 1][f]]
                              /\ d2[i] = Onto(t[i].new, d2[i - 1])
    BY <1>2, <1>5, <1>6, <1>7
<1>9. Leads(t, x, z)
    BY ONLY <1>8 DEF Leads
<1>10. QED  BY <1>4, <1>9 DEF t, z

\* Every place in a list is on the way.
LEMMA LeadsVia ==
    ASSUME NEW S, NEW s \in Seq(S), NEW x, NEW y, Leads(s, x, y), NEW k \in 0..Len(s)
    PROVE  \E z \in Disks : /\ Leads(SubSeq(s, 1, k), x, z)
                            /\ Leads(SubSeq(s, k + 1, Len(s)), z, y)
<1> DEFINE n == Len(s)
           front == SubSeq(s, 1, k)
           back == SubSeq(s, k + 1, n)
<1>1. PICK d \in [0..n -> Disks] :
         /\ d[0] = x /\ d[n] = y
         /\ \A i \in 1..n : /\ s[i].old = [f \in DOMAIN s[i].new |-> d[i - 1][f]]
                            /\ d[i] = Onto(s[i].new, d[i - 1])
    BY DEF Leads
<1>2. n \in Nat /\ k \in Nat /\ k <= n
    BY LenProperties
<1>3. Len(front) = k /\ \A i \in 1..k : front[i] = s[i]
  <2>1. 1 \in Nat /\ 1 <= 1 /\ 1 <= k + 1 /\ k - 1 + 1 = k
        /\ \A i \in 1..k : 1 + i - 1 = i
      BY <1>2
  <2>2. QED  BY <1>2, <2>1, Slice
<1>4. Len(back) = n - k /\ \A i \in 1..(n - k) : back[i] = s[k + i]
  <2> DEFINE m == k + 1
  <2>1. /\ m \in Nat /\ 1 <= m /\ m <= n + 1 /\ n <= Len(s) /\ n - m + 1 = n - k
        /\ \A i \in 1..(n - k) : m + i - 1 = k + i
      BY <1>2
  <2>2. back = SubSeq(s, m, n)
      OBVIOUS
  <2> HIDE DEF m, back, n
  <2>3. /\ Len(back) = n - m + 1
        /\ \A i \in 1..(n - m + 1) : back[i] = s[m + i - 1]
      BY <1>2, <2>1, <2>2, Slice
  <2>4. QED  BY <2>1, <2>3
<1> HIDE DEF front, back, n
<1>5. Leads(front, x, d[k])
  <2> DEFINE d1 == [i \in 0..k |-> d[i]]
  <2>1. d1 \in [0..k -> Disks] /\ d1[0] = x /\ d1[k] = d[k]
      BY <1>1, <1>2
  <2>2. ASSUME NEW i \in 1..k
        PROVE  /\ front[i].old = [f \in DOMAIN front[i].new |-> d1[i - 1][f]]
               /\ d1[i] = Onto(front[i].new, d1[i - 1])
    <3>1. i \in 1..n /\ i - 1 \in 0..k /\ i \in 0..k
        BY <1>2
    <3>2. d1[i - 1] = d[i - 1] /\ d1[i] = d[i] /\ front[i] = s[i]
        BY <1>3, <3>1
    <3>3. QED  BY <1>1, <3>1, <3>2
  <2> HIDE DEF d1
  <2>3. QED  BY <1>3, <2>1, <2>2 DEF Leads
<1>6. Leads(back, d[k], y)
  <2> DEFINE d1 == [i \in 0..(n - k) |-> d[k + i]]
  <2>0. n - k \in Nat /\ k + (n - k) = n /\ k + 0 = k
        /\ \A i \in 0..(n - k) : k + i \in 0..n
      BY <1>2
  <2>1. d1 \in [0..(n - k) -> Disks] /\ d1[0] = d[k] /\ d1[n - k] = y
      BY <1>1, <2>0
  <2>2. ASSUME NEW i \in 1..(n - k)
        PROVE  /\ back[i].old = [f \in DOMAIN back[i].new |-> d1[i - 1][f]]
               /\ d1[i] = Onto(back[i].new, d1[i - 1])
    <3>1. /\ k + i \in 1..n /\ i - 1 \in 0..(n - k) /\ i \in 0..(n - k)
          /\ k + (i - 1) = (k + i) - 1
        BY <1>2
    <3>2. d1[i - 1] = d[(k + i) - 1] /\ d1[i] = d[k + i] /\ back[i] = s[k + i]
        BY <1>4, <3>1
    <3>3. QED  BY <1>1, <3>1, <3>2
  <2> HIDE DEF d1
  <2>3. QED  BY <1>4, <2>1, <2>2 DEF Leads
<1>7. d[k] \in Disks
    BY <1>1, <1>2
<1>8. QED  BY <1>5, <1>6, <1>7 DEF front, back, n

\* Two lists one after the other.
LEMMA LeadsJoin ==
    ASSUME NEW S, NEW s \in Seq(S), NEW t \in Seq(S), NEW u, Splits(u, s, t),
           NEW x, NEW y, NEW z, Leads(s, x, y), Leads(t, y, z)
    PROVE  Leads(u, x, z)
<1> DEFINE m == Len(s)
           n == Len(t)
<1>1. PICK d \in [0..m -> Disks] :
         /\ d[0] = x /\ d[m] = y
         /\ \A i \in 1..m : /\ s[i].old = [f \in DOMAIN s[i].new |-> d[i - 1][f]]
                            /\ d[i] = Onto(s[i].new, d[i - 1])
    BY DEF Leads
<1>2. PICK g \in [0..n -> Disks] :
         /\ g[0] = y /\ g[n] = z
         /\ \A i \in 1..n : /\ t[i].old = [f \in DOMAIN t[i].new |-> g[i - 1][f]]
                            /\ g[i] = Onto(t[i].new, g[i - 1])
    BY DEF Leads
<1>3. /\ m \in Nat /\ n \in Nat /\ Len(u) = m + n
      /\ \A i \in 1..m : u[i] = s[i]
      /\ \A i \in 1..n : u[m + i] = t[i]
    BY Joined, LenProperties DEF Splits
<1> HIDE DEF m, n
<1> DEFINE h == [i \in 0..(m + n) |-> IF i <= m THEN d[i] ELSE g[i - m]]
<1>4. h \in [0..(m + n) -> Disks]
    BY <1>1, <1>2, <1>3
<1>5. \A i \in 0..m : h[i] = d[i]
    BY <1>3
<1>6. ASSUME NEW i \in 0..n PROVE h[m + i] = g[i]
  <2>1. CASE i = 0
      BY <1>1, <1>2, <1>3, <2>1
  <2>2. CASE i # 0
    <3>1. m + i \in 0..(m + n) /\ ~(m + i <= m) /\ (m + i) - m = i
        BY <1>3, <2>2
    <3>2. QED  BY <3>1
  <2>3. QED  BY <2>1, <2>2
<1> HIDE DEF h
<1>7. ASSUME NEW i \in 1..(m + n)
      PROVE  /\ u[i].old = [f \in DOMAIN u[i].new |-> h[i - 1][f]]
             /\ h[i] = Onto(u[i].new, h[i - 1])
  <2>1. CASE i <= m
    <3>1. i \in 1..m /\ i - 1 \in 0..m /\ i \in 0..m
        BY <1>3, <2>1
    <3>2. u[i] = s[i] /\ h[i] = d[i] /\ h[i - 1] = d[i - 1]
        BY <1>3, <1>5, <3>1
    <3>3. QED  BY <1>1, <3>1, <3>2
  <2>2. CASE ~(i <= m)
    <3> DEFINE j == i - m
    <3>1. /\ j \in 1..n /\ j \in 0..n /\ j - 1 \in 0..n
          /\ m + j = i /\ m + (j - 1) = i - 1
        BY <1>3, <2>2
    <3> HIDE DEF j
    <3>2. u[i] = t[j] /\ h[i] = g[j] /\ h[i - 1] = g[j - 1]
        BY <1>3, <1>6, <3>1
    <3>3. QED  BY <1>2, <3>1, <3>2
  <2>3. QED  BY <2>1, <2>2
<1>8. h[0] = x /\ h[m + n] = z
  <2>1. 0 \in 0..m /\ n \in 0..n
      BY <1>3
  <2>2. QED  BY <1>1, <1>2, <1>5, <1>6, <2>1
<1>9. /\ h \in [0..Len(u) -> Disks] /\ h[0] = x /\ h[Len(u)] = z
      /\ \A i \in 1..Len(u) : /\ u[i].old = [f \in DOMAIN u[i].new |-> h[i - 1][f]]
                              /\ h[i] = Onto(u[i].new, h[i - 1])
    BY <1>3, <1>4, <1>7, <1>8
<1>10. QED  BY ONLY <1>9 DEF Leads

LEMMA LeadsEnds ==
    ASSUME NEW S, NEW s \in Seq(S), NEW x, NEW y, Leads(s, x, y)
    PROVE  x \in Disks /\ y \in Disks
<1>1. Len(s) \in Nat /\ 0 \in 0..Len(s) /\ Len(s) \in 0..Len(s)
    BY LenProperties
<1>2. QED  BY <1>1 DEF Leads

-----------------------------------------------------------------------------
(* Merging.  A list of entries and its merged entry have the same effect,  *)
(* forwards and backwards: a file has the contents an entry gives it until *)
(* the next entry that touches it.                                         *)

\* The merged entry touches what some entry touches, and takes its contents
\* from the first and the last of them.
LEMMA MergedType ==
    ASSUME NEW s \in Seq(Entries)
    PROVE  /\ Merged(s) \in Entries
           /\ \A f : f \in DOMAIN Merged(s).new <=>
                        \E i \in 1..Len(s) : f \in DOMAIN s[i].new
           /\ \A f \in DOMAIN Merged(s).new :
                 /\ \E a \in Places(s, f) : /\ \A i \in Places(s, f) : a <= i
                                            /\ Merged(s).old[f] = s[a].old[f]
                 /\ \E b \in Places(s, f) : /\ \A i \in Places(s, f) : i <= b
                                            /\ Merged(s).new[f] = s[b].new[f]
<1> DEFINE n == Len(s)
           touched == UNION {DOMAIN s[i].new : i \in DOMAIN s}
           old == [f \in touched |-> s[Min(Places(s, f))].old[f]]
           new == [f \in touched |-> s[Max(Places(s, f))].new[f]]
<1>1. /\ n \in Nat /\ DOMAIN s = 1..n
      /\ \A i \in 1..n : s[i] \in Entries /\ DOMAIN s[i].old = DOMAIN s[i].new
                         /\ DOMAIN s[i].new \subseteq Files
    BY LenProperties, ElementOfSeq, EntryType
<1>2. \A f \in touched : Places(s, f) \subseteq 1..n /\ Places(s, f) # {}
    BY <1>1 DEF Places
<1>3. ASSUME NEW f \in touched
      PROVE  /\ Min(Places(s, f)) \in Places(s, f)
             /\ \A i \in Places(s, f) : Min(Places(s, f)) <= i
             /\ Max(Places(s, f)) \in Places(s, f)
             /\ \A i \in Places(s, f) : i <= Max(Places(s, f))
  <2>1. Places(s, f) \subseteq Nat /\ Places(s, f) \subseteq 0..n
      BY <1>1, <1>2
  <2> HIDE DEF n, touched
  <2>2. QED  BY <1>1, <1>2, <2>1, Least, Greatest
<1>4. Merged(s) = [old |-> old, new |-> new]
    BY DEF Merged
<1>5. touched \subseteq Files
    BY <1>1
<1>6. ASSUME NEW i \in 1..n, NEW f \in DOMAIN s[i].new
      PROVE  s[i].old[f] \in Contents /\ s[i].new[f] \in Contents
    BY <1>1 DEF Entries, Parts
<1>7. old \in [touched -> Contents] /\ new \in [touched -> Contents]
  <2>1. ASSUME NEW f \in touched, NEW i \in Places(s, f)
        PROVE  i \in 1..n /\ f \in DOMAIN s[i].new
      BY <1>1 DEF Places
  <2>2. ASSUME NEW f \in touched
        PROVE  /\ s[Min(Places(s, f))].old[f] \in Contents
               /\ s[Max(Places(s, f))].new[f] \in Contents
      BY <1>3, <1>6, <2>1
  <2>3. QED  BY <2>2
<1>8. DOMAIN old = touched /\ DOMAIN new = touched
    OBVIOUS
<1>9. \A f \in touched : /\ old[f] = s[Min(Places(s, f))].old[f]
                         /\ new[f] = s[Max(Places(s, f))].new[f]
    OBVIOUS
<1>10. \A f : f \in touched <=> \E i \in 1..n : f \in DOMAIN s[i].new
    BY <1>1
<1> HIDE DEF old, new, touched, n
<1>11. [old |-> old, new |-> new] \in Entries
    BY <1>5, <1>7, <1>8 DEF Entries, Parts
<1>12. QED  BY <1>3, <1>4, <1>8, <1>9, <1>10, <1>11 DEF n

LEMMA LeadsMerged ==
    ASSUME NEW s \in Seq(Entries), NEW x, NEW y, Leads(s, x, y)
    PROVE  /\ Merged(s).old = [f \in DOMAIN Merged(s).new |-> x[f]]
           /\ Onto(Merged(s).old, y) = x
           /\ Onto(Merged(s).new, x) = y
<1> DEFINE n == Len(s)
           m == Merged(s)
<1>1. PICK d \in [0..n -> Disks] :
         /\ d[0] = x /\ d[n] = y
         /\ \A i \in 1..n : /\ s[i].old = [f \in DOMAIN s[i].new |-> d[i - 1][f]]
                            /\ d[i] = Onto(s[i].new, d[i - 1])
    BY DEF Leads
<1>2. /\ n \in Nat /\ DOMAIN s = 1..n
      /\ \A i \in 1..n : s[i].new \in Parts
    BY LenProperties, ElementOfSeq, EntryType
<1>3. /\ m \in Entries /\ m.old \in Parts /\ m.new \in Parts
      /\ DOMAIN m.old = DOMAIN m.new /\ DOMAIN m.new \subseteq Files
    BY MergedType, EntryType
<1>4. x \in Disks /\ y \in Disks
    BY LeadsEnds
\* On the way, a file that no entry touches stays as it is.
<1>5. ASSUME NEW f \in Files, NEW k \in 0..n, NEW l \in 0..n, k <= l,
             \A i \in (k + 1)..l : f \notin DOMAIN s[i].new
      PROVE  d[l][f] = d[k][f]
  <2> DEFINE I == {i \in k..l : d[i][f] # d[k][f]}
             j == Min(I)
  <2>1. k \in Nat /\ l \in Nat /\ I \subseteq Nat
      BY <1>2
  <2>2. SUFFICES ASSUME I # {} PROVE FALSE
    <3>1. l \in k..l
        BY <1>5, <2>1
    <3>2. QED  BY <2>2, <3>1
  <2>3. j \in I /\ \A i \in I : j <= i
      BY <2>1, <2>2, Least
  <2> HIDE DEF j
  <2>4. j \in k..l /\ d[j][f] # d[k][f] /\ j # k
      BY <2>3
  <2>5. /\ j \in (k + 1)..l /\ j \in 1..n /\ j - 1 \in k..l
        /\ j - 1 \in 0..n /\ ~(j <= j - 1)
      BY <1>2, <2>1, <2>4
  <2>6. d[j - 1][f] = d[k][f]
      BY <2>3, <2>5
  <2>7. /\ d[j] = Onto(s[j].new, d[j - 1]) /\ s[j].new \in Parts
        /\ f \notin DOMAIN s[j].new
      BY <1>1, <1>2, <1>5, <2>5
  <2>8. d[j - 1] \in Disks
      BY <2>5
  <2>9. d[j][f] = d[j - 1][f]
      BY <2>7, <2>8, OntoDisk
  <2>10. QED  BY <2>4, <2>6, <2>9
<1>6. ASSUME NEW f \in DOMAIN m.new
      PROVE  m.old[f] = x[f] /\ m.new[f] = y[f]
  <2>1. PICK a \in Places(s, f) : /\ \A i \in Places(s, f) : a <= i
                                  /\ m.old[f] = s[a].old[f]
      BY MergedType
  <2>2. PICK b \in Places(s, f) : /\ \A i \in Places(s, f) : i <= b
                                  /\ m.new[f] = s[b].new[f]
      BY MergedType
  <2>3. /\ f \in Files /\ a \in 1..n /\ b \in 1..n
        /\ f \in DOMAIN s[a].new /\ f \in DOMAIN s[b].new
      BY <1>2, <1>3 DEF Places
  <2>4. \A i \in 1..n : f \in DOMAIN s[i].new => a <= i /\ i <= b
      BY <1>2, <2>1, <2>2 DEF Places
  <2>5. d[a - 1][f] = d[0][f]
    <3>1. /\ 0 \in 0..n /\ a - 1 \in 0..n /\ 0 <= a - 1
          /\ \A i \in (0 + 1)..(a - 1) : i \in 1..n /\ ~(a <= i)
        BY <1>2, <2>3
    <3>2. \A i \in (0 + 1)..(a - 1) : f \notin DOMAIN s[i].new
        BY <2>4, <3>1
    <3>3. QED  BY <1>5, <2>3, <3>1, <3>2
  <2>6. d[n][f] = d[b][f]
    <3>1. /\ b \in 0..n /\ n \in 0..n /\ b <= n
          /\ \A i \in (b + 1)..n : i \in 1..n /\ ~(i <= b)
        BY <1>2, <2>3
    <3>2. \A i \in (b + 1)..n : f \notin DOMAIN s[i].new
        BY <2>4, <3>1
    <3>3. QED  BY <1>5, <2>3, <3>1, <3>2
  <2>7. s[a].old[f] = d[a - 1][f]
      BY <1>1, <2>3
  <2>8. d[b][f] = s[b].new[f]
    <3>1. d[b] = Onto(s[b].new, d[b - 1]) /\ s[b].new \in Parts
        BY <1>1, <1>2, <2>3
    <3>2. b - 1 \in 0..n
        BY <1>2, <2>3
    <3>3. d[b - 1] \in Disks
        BY <3>2
    <3>4. QED  BY <2>3, <3>1, <3>3, OntoDisk
  <2>9. QED  BY <1>1, <2>1, <2>2, <2>5, <2>6, <2>7, <2>8
<1>7. ASSUME NEW f \in Files, f \notin DOMAIN m.new
      PROVE  x[f] = y[f]
  <2>1. \A i \in 1..n : f \notin DOMAIN s[i].new
      BY <1>7, MergedType
  <2>2. /\ 0 \in 0..n /\ n \in 0..n /\ 0 <= n
        /\ \A i \in (0 + 1)..n : f \notin DOMAIN s[i].new
      BY <1>2, <2>1
  <2>3. QED  BY <1>1, <1>5, <2>2
<1> HIDE DEF m, n
<1>8. m.old = [f \in DOMAIN m.new |-> x[f]]
  <2>1. m.old = [f \in DOMAIN m.old |-> m.old[f]]
      BY <1>3 DEF Parts
  <2>2. QED  BY <1>3, <1>6, <2>1
<1>9. Onto(m.old, y) = x
  <2>1. /\ Onto(m.old, y) \in Disks
        /\ \A f \in Files : Onto(m.old, y)[f] =
              IF f \in DOMAIN m.old THEN m.old[f] ELSE y[f]
      BY <1>3, <1>4, OntoDisk
  <2>2. \A f \in Files : Onto(m.old, y)[f] = x[f]
      BY <1>3, <1>6, <1>7, <2>1
  <2>3. QED  BY <1>4, <2>1, <2>2 DEF Disks
<1>10. Onto(m.new, x) = y
  <2>1. /\ Onto(m.new, x) \in Disks
        /\ \A f \in Files : Onto(m.new, x)[f] =
              IF f \in DOMAIN m.new THEN m.new[f] ELSE x[f]
      BY <1>3, <1>4, OntoDisk
  <2>2. \A f \in Files : Onto(m.new, x)[f] = y[f]
      BY <1>6, <1>7, <2>1
  <2>3. QED  BY <1>4, <2>1, <2>2 DEF Disks
<1>11. QED  BY <1>8, <1>9, <1>10 DEF m

-----------------------------------------------------------------------------
(* Parts of sequences, and reversing them *)

LEMMA Halves ==
    ASSUME NEW S, NEW s \in Seq(S), NEW k \in 0..Len(s)
    PROVE  \E a, b \in Seq(S) :
              Splits(s, a, b) /\ Len(a) = k /\ Len(b) = Len(s) - k
<1> DEFINE n == Len(s)
           l == k + 1
           a == SubSeq(s, 1, k)
           b == SubSeq(s, l, n)
<1>1. n \in Nat /\ k \in Nat /\ k <= n
    BY LenProperties
<1>2. a \in Seq(S) /\ Len(a) = k /\ \A i \in 1..k : a[i] = s[i]
  <2>1. 1 \in Nat /\ 1 <= 1 /\ 1 <= k + 1 /\ k - 1 + 1 = k
        /\ \A i \in 1..k : 1 + i - 1 = i
      BY <1>1
  <2>2. QED  BY <1>1, <2>1, Slice
<1>3. b \in Seq(S) /\ Len(b) = n - k /\ \A i \in 1..(n - k) : b[i] = s[k + i]
  <2>1. /\ l \in Nat /\ 1 <= l /\ l <= n + 1 /\ n <= Len(s) /\ n - l + 1 = n - k
        /\ \A i \in 1..(n - k) : l + i - 1 = k + i
      BY <1>1
  <2> HIDE DEF l, n
  <2>2. /\ SubSeq(s, l, n) \in Seq(S) /\ Len(SubSeq(s, l, n)) = n - l + 1
        /\ \A i \in 1..(n - l + 1) : SubSeq(s, l, n)[i] = s[l + i - 1]
      BY <1>1, <2>1, Slice
  <2>3. QED  BY <2>1, <2>2
<1> HIDE DEF a, b
<1>4. /\ a \o b \in Seq(S) /\ Len(a \o b) = n
      /\ \A i \in 1..k : (a \o b)[i] = s[i]
      /\ \A i \in 1..(n - k) : (a \o b)[k + i] = s[k + i]
  <2>1. k + (n - k) = n
      BY <1>1
  <2>2. /\ a \o b \in Seq(S) /\ Len(a \o b) = Len(a) + Len(b)
        /\ \A i \in 1..Len(a) : (a \o b)[i] = a[i]
        /\ \A i \in 1..Len(b) : (a \o b)[Len(a) + i] = b[i]
      BY <1>2, <1>3, Joined
  <2>3. QED  BY <1>2, <1>3, <2>1, <2>2
<1>5. ASSUME NEW i \in 1..n PROVE (a \o b)[i] = s[i]
  <2>1. CASE i <= k
      BY <1>1, <1>4, <2>1
  <2>2. CASE ~(i <= k)
    <3>1. i - k \in 1..(n - k) /\ k + (i - k) = i
        BY <1>1, <2>2
    <3>2. QED  BY <1>4, <3>1
  <2>3. QED  BY <2>1, <2>2
<1>6. s = a \o b
    BY <1>4, <1>5, SeqEqual
<1>7. QED  BY <1>2, <1>3, <1>6 DEF Splits

LEMMA Slices ==
    ASSUME NEW S, NEW s \in Seq(S), NEW t \in Seq(S)
    PROVE  /\ SubSeq(s \o t, 1, Len(s)) = s
           /\ SubSeq(s \o t, Len(s) + 1, Len(s \o t)) = t
<1> DEFINE m == Len(s)
           n == Len(t)
           l == m + 1
           u == s \o t
           k == Len(u)
<1>1. /\ u \in Seq(S) /\ k = m + n /\ m \in Nat /\ n \in Nat
      /\ \A i \in 1..m : u[i] = s[i]
      /\ \A i \in 1..n : u[m + i] = t[i]
    BY Joined, LenProperties
<1> HIDE DEF u
<1>2. SubSeq(u, 1, m) = s
  <2>1. 1 \in Nat /\ 1 <= 1 /\ 1 <= m + 1 /\ m <= k /\ m - 1 + 1 = m
        /\ \A i \in 1..m : 1 + i - 1 = i
      BY <1>1
  <2>2. /\ SubSeq(u, 1, m) \in Seq(S) /\ Len(SubSeq(u, 1, m)) = m
        /\ \A i \in 1..m : SubSeq(u, 1, m)[i] = u[i]
      BY <1>1, <2>1, Slice
  <2>3. QED  BY <1>1, <2>2, SeqEqual
<1>3. SubSeq(u, l, k) = t
  <2>1. /\ l \in Nat /\ k \in Nat /\ 1 <= l /\ l <= k + 1 /\ k - l + 1 = n
        /\ \A i \in 1..n : l + i - 1 = m + i
      BY <1>1
  <2>2. k <= Len(u)
      BY <2>1
  <2> HIDE DEF l, k
  <2>3. /\ SubSeq(u, l, k) \in Seq(S) /\ Len(SubSeq(u, l, k)) = k - l + 1
        /\ \A i \in 1..(k - l + 1) : SubSeq(u, l, k)[i] = u[l + i - 1]
      BY <1>1, <2>1, <2>2, Slice
  <2>4. Len(SubSeq(u, l, k)) = n /\ \A i \in 1..n : SubSeq(u, l, k)[i] = t[i]
      BY <1>1, <2>1, <2>3
  <2> HIDE DEF n
  <2>5. QED  BY <2>3, <2>4, SeqEqual DEF n
<1>4. QED  BY <1>2, <1>3 DEF u

LEMMA Splitting ==
    ASSUME NEW S, NEW s \in Seq(S), NEW t \in Seq(S), NEW u, Splits(u, s, t)
    PROVE  /\ u \in Seq(S) /\ Len(u) = Len(s) + Len(t)
           /\ Len(s) \in Nat /\ Len(t) \in Nat
           /\ \A i \in 1..Len(s) : u[i] = s[i]
           /\ \A i \in 1..Len(t) : u[Len(s) + i] = t[i]
           /\ SubSeq(u, 1, Len(s)) = s
           /\ SubSeq(u, Len(s) + 1, Len(u)) = t
<1> DEFINE w == s \o t
<1>1. /\ w \in Seq(S) /\ Len(w) = Len(s) + Len(t)
      /\ Len(s) \in Nat /\ Len(t) \in Nat
      /\ \A i \in 1..Len(s) : w[i] = s[i]
      /\ \A i \in 1..Len(t) : w[Len(s) + i] = t[i]
    BY Joined, LenProperties
<1>2. /\ SubSeq(w, 1, Len(s)) = s
      /\ SubSeq(w, Len(s) + 1, Len(w)) = t
    BY Slices
<1>3. u = w
    BY DEF Splits
<1> HIDE DEF w
<1>4. QED  BY <1>1, <1>2, <1>3

LEMMA ReverseTwice ==
    ASSUME NEW S, NEW s \in Seq(S)
    PROVE  Reverse(Reverse(s)) = s
<1> DEFINE r == Reverse(s)
           n == Len(s)
<1>1. r \in Seq(S) /\ Len(r) = n /\ \A i \in 1..n : r[i] = s[n - i + 1]
    BY Reversed
<1> HIDE DEF r
<1>2. /\ Reverse(r) \in Seq(S) /\ Len(Reverse(r)) = n
      /\ \A i \in 1..n : Reverse(r)[i] = r[n - i + 1]
    BY <1>1, Reversed
<1>3. ASSUME NEW i \in 1..n PROVE Reverse(r)[i] = s[i]
  <2>1. n \in Nat
      BY LenProperties
  <2>2. n - i + 1 \in 1..n /\ n - (n - i + 1) + 1 = i
      BY <2>1
  <2>3. QED  BY <1>1, <1>2, <2>2
<1>4. QED  BY <1>2, <1>3, SeqEqual DEF r

LEMMA ReverseJoin ==
    ASSUME NEW S, NEW s \in Seq(S), NEW t \in Seq(S), NEW u, Splits(u, s, t)
    PROVE  Splits(Reverse(u), Reverse(t), Reverse(s))
<1> DEFINE m == Len(s)
           n == Len(t)
           x == Reverse(t)
           y == Reverse(s)
<1>1. m \in Nat /\ n \in Nat
    BY LenProperties
<1>2. /\ u \in Seq(S) /\ Len(u) = m + n
      /\ \A i \in 1..m : u[i] = s[i]
      /\ \A i \in 1..n : u[m + i] = t[i]
    BY Splitting
<1>3. /\ x \in Seq(S) /\ Len(x) = n /\ \A i \in 1..n : x[i] = t[n - i + 1]
      /\ y \in Seq(S) /\ Len(y) = m /\ \A i \in 1..m : y[i] = s[m - i + 1]
    BY Reversed
<1> HIDE DEF x, y
<1>4. /\ Reverse(u) \in Seq(S) /\ Len(Reverse(u)) = m + n
      /\ \A i \in 1..(m + n) : Reverse(u)[i] = u[(m + n) - i + 1]
    BY <1>2, Reversed
<1>5. /\ x \o y \in Seq(S) /\ Len(x \o y) = n + m
      /\ \A i \in 1..n : (x \o y)[i] = x[i]
      /\ \A i \in 1..m : (x \o y)[n + i] = y[i]
  <2> HIDE DEF m, n
  <2>1. /\ x \o y \in Seq(S) /\ Len(x \o y) = Len(x) + Len(y)
        /\ \A i \in 1..Len(x) : (x \o y)[i] = x[i]
        /\ \A i \in 1..Len(y) : (x \o y)[Len(x) + i] = y[i]
    <3>1. x \in Seq(S) /\ y \in Seq(S)
        BY <1>3
    <3>2. QED  BY ONLY <3>1, Joined
  <2>2. QED  BY <1>3, <2>1
<1> HIDE DEF m, n
<1>6. ASSUME NEW i \in 1..(m + n) PROVE Reverse(u)[i] = (x \o y)[i]
  <2>1. CASE i <= n
    <3>1. /\ i \in 1..n /\ n - i + 1 \in 1..n
          /\ (m + n) - i + 1 = m + (n - i + 1)
        BY <1>1, <2>1
    <3>2. (x \o y)[i] = x[i] /\ x[i] = t[n - i + 1]
        BY <1>3, <1>5, <3>1
    <3>3. Reverse(u)[i] = u[m + (n - i + 1)]
        BY <1>4, <3>1
    <3>4. QED  BY <1>2, <3>1, <3>2, <3>3
  <2>2. CASE ~(i <= n)
    <3> DEFINE j == i - n
    <3>1. /\ j \in 1..m /\ n + j = i /\ m - j + 1 \in 1..m
          /\ (m + n) - i + 1 = m - j + 1
        BY <1>1, <2>2
    <3> HIDE DEF j
    <3>2. (x \o y)[i] = y[j] /\ y[j] = s[m - j + 1]
        BY <1>3, <1>5, <3>1
    <3>3. Reverse(u)[i] = u[m - j + 1] /\ u[m - j + 1] = s[m - j + 1]
        BY <1>2, <1>4, <3>1
    <3>4. QED  BY <3>2, <3>3
  <2>3. QED  BY <2>1, <2>2
<1>7. m + n = n + m
    BY <1>1
<1>8. Reverse(u) = x \o y
    BY <1>4, <1>5, <1>6, <1>7, SeqEqual
<1>9. QED  BY <1>8 DEF Splits, x, y

LEMMA LatestJoin ==
    ASSUME NEW S, NEW x \in Seq(S), NEW s \in Seq(S), NEW e \in S
    PROVE  Latest(Append(x \o s, e)) = Latest(x \o Append(s, e))
<1> DEFINE m == Len(x)
           n == Len(s)
           u == x \o s
           t == Append(s, e)
<1>1. /\ m \in Nat /\ n \in Nat /\ u \in Seq(S) /\ Len(u) = m + n
      /\ \A i \in 1..m : u[i] = x[i]
      /\ \A i \in 1..n : u[m + i] = s[i]
    BY Joined, LenProperties
<1>2. t \in Seq(S) /\ Len(t) = n + 1 /\ (\A i \in 1..n : t[i] = s[i]) /\ t[n + 1] = e
    BY AppendProperties, LenProperties
<1> HIDE DEF u, t
<1>3. /\ Append(u, e) \in Seq(S) /\ Len(Append(u, e)) = (m + n) + 1
      /\ \A i \in 1..(m + n) : Append(u, e)[i] = u[i]
      /\ Append(u, e)[(m + n) + 1] = e
    BY <1>1, AppendProperties
<1>4. /\ x \o t \in Seq(S) /\ Len(x \o t) = m + (n + 1)
      /\ \A i \in 1..m : (x \o t)[i] = x[i]
      /\ \A i \in 1..(n + 1) : (x \o t)[m + i] = t[i]
  <2>1. /\ x \o t \in Seq(S) /\ Len(x \o t) = Len(x) + Len(t)
        /\ \A i \in 1..Len(x) : (x \o t)[i] = x[i]
        /\ \A i \in 1..Len(t) : (x \o t)[Len(x) + i] = t[i]
    <3>1. x \in Seq(S) /\ t \in Seq(S)
        BY <1>2
    <3>2. QED  BY ONLY <3>1, Joined
  <2>2. QED  BY <1>2, <2>1
<1> HIDE DEF m, n
<1>5. ASSUME NEW i \in 1..((m + n) + 1)
      PROVE  Append(u, e)[i] = (x \o t)[i]
  <2>1. CASE i <= m
    <3>1. i \in 1..m /\ i \in 1..(m + n)
        BY <1>1, <2>1
    <3>2. QED  BY <1>1, <1>3, <1>4, <3>1
  <2>2. CASE ~(i <= m) /\ i <= m + n
    <3>1. i - m \in 1..n /\ i - m \in 1..(n + 1) /\ m + (i - m) = i /\ i \in 1..(m + n)
        BY <1>1, <2>2
    <3>2. /\ Append(u, e)[i] = u[i] /\ u[m + (i - m)] = s[i - m]
          /\ t[i - m] = s[i - m] /\ (x \o t)[m + (i - m)] = t[i - m]
        BY <1>1, <1>2, <1>3, <1>4, <3>1
    <3>3. QED  BY <3>1, <3>2
  <2>3. CASE ~(i <= m + n)
    <3>1. i = (m + n) + 1 /\ n + 1 \in 1..(n + 1) /\ m + (n + 1) = (m + n) + 1
        BY <1>1, <2>3
    <3>2. QED  BY <1>2, <1>3, <1>4, <3>1
  <2>4. QED  BY <2>1, <2>2, <2>3
<1>6. (m + n) + 1 = m + (n + 1)
    BY <1>1
<1>7. Append(u, e) = x \o t
    BY <1>3, <1>4, <1>5, <1>6, SeqEqual
<1>8. Latest(Append(u, e)) = Latest(x \o t)
    BY <1>7
<1>9. QED  BY <1>8 DEF u, t

\* What is kept of a list does not depend on what was dropped before.
LEMMA LatestOn ==
    ASSUME NEW S, NEW z \in Seq(S), NEW e \in S
    PROVE  Latest(Append(Latest(z), e)) = Latest(Append(z, e))
<1> DEFINE n == Len(z)
           h == MaxHistory
           l == Latest(z)
           a == Append(l, e)
           b == Append(z, e)
<1>1. n \in Nat /\ h \in Nat /\ h >= 1
    BY LenProperties, ConstantsAssumption
<1>2. CASE n <= h
    BY <1>2, LatestEnds
<1>3. CASE n > h
  <2>1. /\ l \in Seq(S) /\ Len(l) = h
        /\ \A i \in 1..h : l[i] = z[n - h + i]
      BY <1>3, LatestEnds DEF Ends
  <2> HIDE DEF l
  <2>2. /\ a \in Seq(S) /\ Len(a) = h + 1
        /\ (\A i \in 1..h : a[i] = l[i]) /\ a[h + 1] = e
      BY <2>1, AppendProperties
  <2>3. /\ b \in Seq(S) /\ Len(b) = n + 1
        /\ (\A i \in 1..n : b[i] = z[i]) /\ b[n + 1] = e
      BY AppendProperties
  <2> HIDE DEF a, b, n
  <2>4. /\ Latest(a) \in Seq(S) /\ Len(Latest(a)) = h
        /\ \A i \in 1..h : Latest(a)[i] = a[(h + 1) - h + i]
    <3>1. h + 1 > h
        BY <1>1
    <3>2. Len(a) > h
        BY <2>2, <3>1
    <3>3. Latest(a) \in Seq(S) /\ Len(Latest(a)) = h /\ Ends(Latest(a), a)
        BY <2>2, <3>2, LatestEnds
    <3>4. QED  BY <2>2, <3>3 DEF Ends
  <2>5. /\ Latest(b) \in Seq(S) /\ Len(Latest(b)) = h
        /\ \A i \in 1..h : Latest(b)[i] = b[(n + 1) - h + i]
    <3>1. n + 1 > h
        BY <1>1, <1>3
    <3>2. Len(b) > h
        BY <2>3, <3>1
    <3>3. Latest(b) \in Seq(S) /\ Len(Latest(b)) = h /\ Ends(Latest(b), b)
        BY <2>3, <3>2, LatestEnds
    <3>4. QED  BY <2>3, <3>3 DEF Ends
  <2>6. ASSUME NEW i \in 1..h PROVE Latest(a)[i] = Latest(b)[i]
    <3>1. (h + 1) - h + i = i + 1 /\ (n + 1) - h + i = n - h + (i + 1)
        BY <1>1
    <3>2. Latest(a)[i] = a[i + 1] /\ Latest(b)[i] = b[n - h + (i + 1)]
        BY <2>4, <2>5, <3>1
    <3>3. CASE i = h
      <4>1. i + 1 = h + 1 /\ n - h + (i + 1) = n + 1
          BY <1>1, <3>3
      <4>2. QED  BY <2>2, <2>3, <3>2, <4>1
    <3>4. CASE i # h
      <4>1. i + 1 \in 1..h /\ n - h + (i + 1) \in 1..n
          BY <1>1, <1>3, <3>4
      <4>2. QED  BY <2>1, <2>2, <2>3, <3>2, <4>1
    <3>5. QED  BY <3>3, <3>4
  <2>7. Latest(a) = Latest(b)
      BY <2>4, <2>5, <2>6, SeqEqual
  <2>8. QED  BY <2>7 DEF a, b, l
<1>4. QED  BY <1>1, <1>2, <1>3

\* The latest entries of two parts: some of the first and all of the second, or
\* some of the second.
LEMMA LatestSplit ==
    ASSUME NEW S, NEW b \in Seq(S), NEW s \in Seq(S)
    PROVE  /\ Len(s) <= Len(Latest(b \o s)) =>
                 \E front \in Seq(S) : Splits(Latest(b \o s), front, s) /\ Ends(front, b)
           /\ Len(s) >= Len(Latest(b \o s)) => Ends(Latest(b \o s), s)
<1> DEFINE m == Len(b)
           n == Len(s)
           u == b \o s
           l == Latest(u)
           w == Len(l)
<1>1. /\ m \in Nat /\ n \in Nat /\ u \in Seq(S) /\ Len(u) = m + n
      /\ \A i \in 1..m : u[i] = b[i]
      /\ \A i \in 1..n : u[m + i] = s[i]
    BY Joined, LenProperties
<1> HIDE DEF u
<1>2. /\ l \in Seq(S) /\ w \in Nat /\ w <= m + n
      /\ \A i \in 1..w : l[i] = u[(m + n) - w + i]
  <2>1. l \in Seq(S) /\ w \in Nat /\ Ends(l, u)
      BY <1>1, LatestEnds
  <2> HIDE DEF l
  <2>2. QED  BY <1>1, <2>1 DEF Ends
<1> HIDE DEF l
<1>3. ASSUME n <= w
      PROVE  \E front \in Seq(S) : Splits(l, front, s) /\ Ends(front, b)
  <2>1. w - n \in 0..w
      BY <1>1, <1>2, <1>3
  <2>2. PICK front, c \in Seq(S) :
           Splits(l, front, c) /\ Len(front) = w - n /\ Len(c) = w - (w - n)
    <3> DEFINE j == w - n
    <3>1. j \in 0..w
        BY <2>1
    <3> HIDE DEF j
    <3>2. \E front, c \in Seq(S) :
             Splits(l, front, c) /\ Len(front) = j /\ Len(c) = w - j
        BY <1>2, <3>1, Halves
    <3>3. QED  BY <3>2 DEF j
  <2>3. Len(c) = n
      BY <1>1, <1>2, <2>2
  <2> DEFINE k == w - n
  <2>4. /\ k \in Nat /\ k <= m /\ Len(front) = k /\ w = k + n
      BY <1>1, <1>2, <1>3, <2>2
  <2>5. /\ \A i \in 1..k : l[i] = front[i]
        /\ \A i \in 1..n : l[k + i] = c[i]
    <3>1. /\ \A i \in 1..Len(front) : l[i] = front[i]
          /\ \A i \in 1..Len(c) : l[Len(front) + i] = c[i]
      <4>1. front \in Seq(S) /\ c \in Seq(S) /\ Splits(l, front, c)
          BY <2>2
      <4>2. QED  BY ONLY <4>1, Splitting
    <3> HIDE DEF k, n
    <3>2. QED  BY <2>3, <2>4, <3>1
  <2> HIDE DEF k, w, n, m
  <2>6. ASSUME NEW i \in 1..n PROVE c[i] = s[i]
    <3>1. k + i \in 1..w /\ (m + n) - w + (k + i) = m + i
        BY <1>1, <1>2, <2>4
    <3>2. c[i] = u[m + i]
        BY <1>2, <2>5, <3>1
    <3>3. QED  BY <1>1, <3>2
  <2>7. c = s
      BY <2>3, <2>6, SeqEqual DEF n
  <2>8. ASSUME NEW i \in 1..k PROVE front[i] = b[m - k + i]
    <3>1. i \in 1..w /\ (m + n) - w + i = m - k + i /\ m - k + i \in 1..m
        BY <1>1, <1>2, <2>4
    <3>2. front[i] = u[m - k + i]
        BY <1>2, <2>5, <3>1
    <3>3. QED  BY <1>1, <3>1, <3>2
  <2>9. QED  BY <2>2, <2>4, <2>7, <2>8 DEF Ends, m
<1>4. ASSUME n >= w
      PROVE  Ends(l, s)
  <2>1. ASSUME NEW i \in 1..w PROVE l[i] = s[n - w + i]
    <3>1. n - w + i \in 1..n /\ (m + n) - w + i = m + (n - w + i)
        BY <1>1, <1>2, <1>4
    <3>2. QED  BY <1>1, <1>2, <3>1
  <2>2. w <= n
      BY <1>1, <1>2, <1>4
  <2>3. QED  BY <2>1, <2>2 DEF Ends
<1>5. QED  BY <1>3, <1>4 DEF l, u

LEMMA LeadsParts ==
    ASSUME NEW S, NEW s \in Seq(S), NEW t \in Seq(S), NEW u, Splits(u, s, t),
           NEW x, NEW y, Leads(u, x, y)
    PROVE  \E z \in Disks : Leads(s, x, z) /\ Leads(t, z, y)
<1>1. u \in Seq(S) /\ Len(s) \in 0..Len(u)
    BY Splitting
<1>2. SubSeq(u, 1, Len(s)) = s /\ SubSeq(u, Len(s) + 1, Len(u)) = t
    BY Splitting
<1>3. QED  BY <1>1, <1>2, LeadsVia

-----------------------------------------------------------------------------
(* The history: doing, undoing and redoing keep its types, its length and  *)
(* its timeline.                                                           *)

LEMMA StepsAreEntries ==
    ASSUME NEW s \in Seq(Steps)
    PROVE  s \in Seq(Entries)
BY SeqMonotonic DEF Steps

LEMMA MergedParts ==
    ASSUME NEW s \in Seq(Steps)
    PROVE  Merged(s) \in Entries /\ Merged(s).old \in Parts /\ Merged(s).new \in Parts
BY StepsAreEntries, MergedType, EntryType

LEMMA ProjectType ==
    ASSUME NEW p \in Projects
    PROVE  /\ p.disk \in Disks /\ p.undo \in Seq(Steps) /\ p.redo \in Seq(Steps)
           /\ Len(p.undo) \in Nat /\ Len(p.redo) \in Nat
           /\ p = [disk |-> p.disk, undo |-> p.undo, redo |-> p.redo]
<1>1. /\ p.disk \in Disks /\ p.undo \in Seq(Steps) /\ p.redo \in Seq(Steps)
      /\ p = [disk |-> p.disk, undo |-> p.undo, redo |-> p.redo]
    BY DEF Projects
<1>2. QED  BY <1>1, LenProperties

LEMMA BoundedUndo ==
    ASSUME NEW p, Bounded(p)
    PROVE  /\ p.disk \in Disks /\ p.undo \in Seq(Steps) /\ Len(p.undo) \in Nat
           /\ Len(p.undo) <= MaxHistory
<1>1. /\ p.disk \in Disks /\ p.undo \in Seq(Steps) /\ Len(p.undo) \in Nat
      /\ Len(p.redo) \in Nat /\ Len(p.undo) + Len(p.redo) <= MaxHistory
    BY ProjectType DEF Bounded
<1>2. \A m, n, h \in Nat : m + n <= h => m <= h
    OBVIOUS
<1>3. MaxHistory \in Nat
    BY ConstantsAssumption
<1>4. QED  BY ONLY <1>1, <1>2, <1>3

LEMMA DoType ==
    ASSUME NEW p, Bounded(p), NEW e \in Entries
    PROVE  /\ Bounded(Do(p, e))
           /\ Do(p, e).disk = Onto(e.new, p.disk)
           /\ Do(p, e).undo = IF DOMAIN e.new = {} THEN p.undo
                                                   ELSE Latest(Append(p.undo, e))
           /\ Do(p, e).redo = <<>>
<1> USE ConstantsAssumption
<1> DEFINE d == Onto(e.new, p.disk)
           u == IF DOMAIN e.new = {} THEN p.undo ELSE Latest(Append(p.undo, e))
<1>1. /\ p.disk \in Disks /\ p.undo \in Seq(Steps) /\ Len(p.undo) \in Nat
      /\ Len(p.redo) \in Nat /\ Len(p.undo) <= MaxHistory
    BY ProjectType, BoundedUndo DEF Bounded
<1>2. d \in Disks
    BY <1>1, EntryType, OntoDisk
<1>3. u \in Seq(Steps) /\ Len(u) <= MaxHistory /\ Len(u) \in Nat
  <2>1. CASE DOMAIN e.new = {}
      BY <1>1, <2>1
  <2>2. CASE DOMAIN e.new # {}
    <3>1. e \in Steps
        BY <2>2 DEF Steps
    <3>2. Append(p.undo, e) \in Seq(Steps)
        BY <1>1, <3>1, AppendProperties
    <3>3. QED  BY <2>2, <3>2, LatestEnds
  <2>3. QED  BY <2>1, <2>2
<1>4. Do(p, e) = [disk |-> d, undo |-> u, redo |-> <<>>]
    BY DEF Do
<1>5. <<>> \in Seq(Steps) /\ Len(<<>>) = 0
    BY EmptySeq
<1> HIDE DEF d, u
<1>6. Bounded([disk |-> d, undo |-> u, redo |-> <<>>])
    BY <1>2, <1>3, <1>5 DEF Bounded, Projects
<1>7. QED  BY <1>4, <1>6 DEF d, u

\* What is kept of a list that leads somewhere leads there too.
LEMMA LatestLeads ==
    ASSUME NEW s \in Seq(Steps), NEW x, NEW y, Leads(s, x, y)
    PROVE  \E z \in Disks : Leads(Latest(s), z, y)
<1> USE ConstantsAssumption
<1>1. Len(s) \in Nat /\ x \in Disks
    BY LenProperties, LeadsEnds
<1>2. CASE Len(s) <= MaxHistory
    BY <1>1, <1>2 DEF Latest
<1>3. CASE ~(Len(s) <= MaxHistory)
  <2> DEFINE k == Len(s) - MaxHistory
  <2>1. k \in 0..Len(s) /\ Latest(s) = SubSeq(s, k + 1, Len(s))
      BY <1>1, <1>3 DEF Latest
  <2> HIDE DEF k
  <2>2. QED  BY <2>1, LeadsVia
<1>4. QED  BY <1>2, <1>3

LEMMA DoTimeline ==
    ASSUME NEW p, Bounded(p), Timeline(p), NEW e \in Entries,
           e.old = [f \in DOMAIN e.new |-> p.disk[f]]
    PROVE  Timeline(Do(p, e))
<1> DEFINE q == Do(p, e)
           y == Onto(e.new, p.disk)
<1>1. /\ p.disk \in Disks /\ p.undo \in Seq(Steps)
      /\ q.disk = y /\ q.redo = <<>>
      /\ q.undo = IF DOMAIN e.new = {} THEN p.undo ELSE Latest(Append(p.undo, e))
    BY ProjectType, DoType DEF Bounded
<1>2. PICK x \in Disks : Leads(p.undo, x, p.disk)
    BY DEF Timeline
<1>3. Leads(Append(p.undo, e), x, y) /\ y \in Disks
    BY <1>1, <1>2, StepsAreEntries, LeadsOn
<1> HIDE DEF q, y
<1>4. \E z \in Disks : Leads(q.undo, z, q.disk)
  <2>1. CASE DOMAIN e.new = {}
    <3>1. /\ y \in Disks
          /\ \A f \in Files : y[f] = IF f \in DOMAIN e.new THEN e.new[f] ELSE p.disk[f]
        BY <1>1, EntryType, OntoDisk DEF y
    <3>2. y = p.disk
        BY <1>1, <2>1, <3>1 DEF Disks
    <3>3. QED  BY <1>1, <1>2, <2>1, <3>2
  <2>2. CASE DOMAIN e.new # {}
    <3>1. e \in Steps
        BY <2>2 DEF Steps
    <3>2. Append(p.undo, e) \in Seq(Steps)
        BY <1>1, <3>1, AppendProperties
    <3>3. QED  BY <1>1, <1>3, <2>2, <3>2, LatestLeads
  <2>3. QED  BY <2>1, <2>2
<1>5. Leads(Reverse(q.redo), q.disk, q.disk)
  <2>1. <<>> \in Seq(Steps) /\ Len(<<>>) = 0
      BY EmptySeq
  <2>2. Reverse(<<>>) \in Seq(Steps) /\ Len(Reverse(<<>>)) = 0
      BY <2>1, Reversed
  <2>3. Reverse(<<>>) = <<>>
      BY <2>2, EmptySeq
  <2>4. QED  BY <1>1, <1>3, <2>3, LeadsNowhere
<1>6. QED  BY <1>1, <1>3, <1>4, <1>5 DEF Timeline, q

LEMMA UndoOf ==
    ASSUME NEW p, NEW front \in Seq(Steps), NEW gone \in Seq(Steps),
           Splits(p.undo, front, gone), NEW q, q = UndoTimes(p, Len(gone))
    PROVE  /\ q = [disk |-> q.disk, undo |-> q.undo, redo |-> q.redo]
           /\ q.disk = Onto(Merged(gone).old, p.disk)
           /\ q.undo = front /\ Splits(q.redo, p.redo, Reverse(gone))
<1> DEFINE u == p.undo
           k == Len(u) - Len(gone)
<1>1. Splits(u, front, gone)
    OBVIOUS
<1> HIDE DEF u
<1>2. /\ Len(u) = Len(front) + Len(gone) /\ Len(front) \in Nat /\ Len(gone) \in Nat
      /\ SubSeq(u, 1, Len(front)) = front
      /\ SubSeq(u, Len(front) + 1, Len(u)) = gone
    BY <1>1, Splitting
<1>3. k = Len(front)
    BY <1>2
<1> HIDE DEF k
<1>4. SubSeq(u, 1, k) = front /\ SubSeq(u, k + 1, Len(u)) = gone
    BY <1>2, <1>3
<1>5. q = [disk |-> Onto(Merged(gone).old, p.disk), undo |-> front,
           redo |-> p.redo \o Reverse(gone)]
    BY <1>4 DEF UndoTimes, u, k
<1>6. QED  BY <1>5 DEF Splits

LEMMA RedoOf ==
    ASSUME NEW p, NEW front \in Seq(Steps), NEW gone \in Seq(Steps),
           Splits(p.redo, front, gone), NEW q, q = RedoTimes(p, Len(gone))
    PROVE  /\ q = [disk |-> q.disk, undo |-> q.undo, redo |-> q.redo]
           /\ q.disk = Onto(Merged(Reverse(gone)).new, p.disk)
           /\ q.redo = front /\ Splits(q.undo, p.undo, Reverse(gone))
<1> DEFINE u == p.redo
           k == Len(u) - Len(gone)
<1>1. Splits(u, front, gone)
    OBVIOUS
<1> HIDE DEF u
<1>2. /\ Len(u) = Len(front) + Len(gone) /\ Len(front) \in Nat /\ Len(gone) \in Nat
      /\ SubSeq(u, 1, Len(front)) = front
      /\ SubSeq(u, Len(front) + 1, Len(u)) = gone
    BY <1>1, Splitting
<1>3. k = Len(front)
    BY <1>2
<1> HIDE DEF k
<1>4. SubSeq(u, 1, k) = front /\ SubSeq(u, k + 1, Len(u)) = gone
    BY <1>2, <1>3
<1>5. q = [disk |-> Onto(Merged(Reverse(gone)).new, p.disk),
           undo |-> p.undo \o Reverse(gone), redo |-> front]
    BY <1>4 DEF RedoTimes, u, k
<1>6. QED  BY <1>5 DEF Splits

LEMMA UndoBack ==
    ASSUME NEW p, Bounded(p), NEW n \in 0..Len(p.undo)
    PROVE  /\ Bounded(UndoTimes(p, n))
           /\ Timeline(p) => /\ Timeline(UndoTimes(p, n))
                             /\ RedoTimes(UndoTimes(p, n), n) = p
<1>1. /\ p.disk \in Disks /\ p.undo \in Seq(Steps) /\ p.redo \in Seq(Steps)
      /\ Len(p.undo) \in Nat /\ Len(p.redo) \in Nat
      /\ Len(p.undo) + Len(p.redo) <= MaxHistory
      /\ p = [disk |-> p.disk, undo |-> p.undo, redo |-> p.redo]
    BY ProjectType DEF Bounded
<1>2. PICK front, gone \in Seq(Steps) :
         Splits(p.undo, front, gone) /\ Len(front) = Len(p.undo) - n
         /\ Len(gone) = Len(p.undo) - (Len(p.undo) - n)
  <2> DEFINE k == Len(p.undo) - n
  <2>1. k \in 0..Len(p.undo)
      BY <1>1
  <2> HIDE DEF k
  <2>2. \E front, gone \in Seq(Steps) :
           Splits(p.undo, front, gone) /\ Len(front) = k /\ Len(gone) = Len(p.undo) - k
      BY <1>1, <2>1, Halves
  <2>3. QED  BY <2>2 DEF k
<1>3. Len(gone) = n /\ n \in Nat
    BY <1>1, <1>2
<1> DEFINE q == UndoTimes(p, n)
           back == Reverse(gone)
<1>4. /\ q = [disk |-> q.disk, undo |-> q.undo, redo |-> q.redo]
      /\ q.disk = Onto(Merged(gone).old, p.disk)
      /\ q.undo = front /\ Splits(q.redo, p.redo, back)
    BY <1>2, <1>3, UndoOf
<1>5. back \in Seq(Steps) /\ Len(back) = n /\ Reverse(back) = gone
    BY <1>3, Reversed, ReverseTwice
<1> HIDE DEF q, back
<1>6. q.disk \in Disks
    BY <1>1, <1>4, <1>5, MergedParts, OntoDisk
<1>7. q.redo \in Seq(Steps) /\ Len(q.redo) = Len(p.redo) + n
    BY <1>1, <1>4, <1>5, Splitting
<1>8. Bounded(q)
  <2>1. q \in Projects
      BY <1>4, <1>6, <1>7 DEF Projects
  <2>2. Len(q.undo) + Len(q.redo) <= MaxHistory
      BY <1>1, <1>2, <1>3, <1>4, <1>7
  <2>3. QED  BY <2>1, <2>2 DEF Bounded
<1>9. ASSUME Timeline(p)
      PROVE  Timeline(q) /\ RedoTimes(q, n) = p
  <2>1. PICK x \in Disks : Leads(p.undo, x, p.disk)
      BY <1>9 DEF Timeline
  <2>2. PICK y \in Disks : Leads(Reverse(p.redo), p.disk, y)
      BY <1>9 DEF Timeline
  <2>3. PICK z \in Disks : Leads(front, x, z) /\ Leads(gone, z, p.disk)
      BY <1>2, <2>1, LeadsParts
  <2>4. Onto(Merged(gone).old, p.disk) = z /\ Onto(Merged(gone).new, z) = p.disk
    <3>1. gone \in Seq(Entries) /\ Leads(gone, z, p.disk)
        BY <2>3, StepsAreEntries
    <3>2. QED  BY ONLY <3>1, LeadsMerged
  <2>5. Splits(Reverse(q.redo), gone, Reverse(p.redo))
      BY <1>1, <1>4, <1>5, ReverseJoin
  <2>6. Leads(Reverse(q.redo), z, y)
    <3>1. Reverse(p.redo) \in Seq(Steps)
        BY <1>1, Reversed
    <3>2. QED  BY <2>2, <2>3, <2>5, <3>1, LeadsJoin
  <2>7. Timeline(q)
      BY <1>4, <2>3, <2>4, <2>6 DEF Timeline
  <2> DEFINE r == RedoTimes(q, n)
  <2>8. /\ r = [disk |-> r.disk, undo |-> r.undo, redo |-> r.redo]
        /\ r.disk = Onto(Merged(gone).new, q.disk)
        /\ r.redo = p.redo /\ Splits(r.undo, front, gone)
      BY <1>1, <1>4, <1>5, RedoOf
  <2> HIDE DEF r
  <2>9. r.undo = p.undo
      BY <1>2, <2>8 DEF Splits
  <2>10. r = p
      BY <1>1, <1>4, <2>4, <2>8, <2>9
  <2>11. QED  BY <2>7, <2>10 DEF r
<1>10. QED  BY <1>8, <1>9 DEF q

LEMMA RedoForth ==
    ASSUME NEW p, Bounded(p), NEW n \in 0..Len(p.redo)
    PROVE  /\ Bounded(RedoTimes(p, n))
           /\ Timeline(p) => /\ Timeline(RedoTimes(p, n))
                             /\ UndoTimes(RedoTimes(p, n), n) = p
<1>1. /\ p.disk \in Disks /\ p.undo \in Seq(Steps) /\ p.redo \in Seq(Steps)
      /\ Len(p.undo) \in Nat /\ Len(p.redo) \in Nat
      /\ Len(p.undo) + Len(p.redo) <= MaxHistory
      /\ p = [disk |-> p.disk, undo |-> p.undo, redo |-> p.redo]
    BY ProjectType DEF Bounded
<1>2. PICK front, gone \in Seq(Steps) :
         Splits(p.redo, front, gone) /\ Len(front) = Len(p.redo) - n
         /\ Len(gone) = Len(p.redo) - (Len(p.redo) - n)
  <2> DEFINE k == Len(p.redo) - n
  <2>1. k \in 0..Len(p.redo)
      BY <1>1
  <2> HIDE DEF k
  <2>2. \E front, gone \in Seq(Steps) :
           Splits(p.redo, front, gone) /\ Len(front) = k /\ Len(gone) = Len(p.redo) - k
      BY <1>1, <2>1, Halves
  <2>3. QED  BY <2>2 DEF k
<1>3. Len(gone) = n /\ n \in Nat
    BY <1>1, <1>2
<1> DEFINE q == RedoTimes(p, n)
           back == Reverse(gone)
<1>4. /\ q = [disk |-> q.disk, undo |-> q.undo, redo |-> q.redo]
      /\ q.disk = Onto(Merged(back).new, p.disk)
      /\ q.redo = front /\ Splits(q.undo, p.undo, back)
    BY <1>2, <1>3, RedoOf
<1>5. back \in Seq(Steps) /\ Len(back) = n /\ Reverse(back) = gone
    BY <1>3, Reversed, ReverseTwice
<1> HIDE DEF q, back
<1>6. q.disk \in Disks
    BY <1>1, <1>4, <1>5, MergedParts, OntoDisk
<1>7. q.undo \in Seq(Steps) /\ Len(q.undo) = Len(p.undo) + n
    BY <1>1, <1>4, <1>5, Splitting
<1>8. Bounded(q)
  <2>1. q \in Projects
      BY <1>4, <1>6, <1>7 DEF Projects
  <2>2. Len(q.undo) + Len(q.redo) <= MaxHistory
      BY <1>1, <1>2, <1>3, <1>4, <1>7
  <2>3. QED  BY <2>1, <2>2 DEF Bounded
<1>9. ASSUME Timeline(p)
      PROVE  Timeline(q) /\ UndoTimes(q, n) = p
  <2>1. PICK x \in Disks : Leads(p.undo, x, p.disk)
      BY <1>9 DEF Timeline
  <2>2. PICK y \in Disks : Leads(Reverse(p.redo), p.disk, y)
      BY <1>9 DEF Timeline
  <2>3. Splits(Reverse(p.redo), back, Reverse(front)) /\ Reverse(front) \in Seq(Steps)
      BY <1>2, ReverseJoin, Reversed DEF back
  <2>4. PICK z \in Disks : Leads(back, p.disk, z) /\ Leads(Reverse(front), z, y)
      BY <1>5, <2>2, <2>3, LeadsParts
  <2>5. Onto(Merged(back).new, p.disk) = z /\ Onto(Merged(back).old, z) = p.disk
    <3>1. back \in Seq(Entries) /\ Leads(back, p.disk, z)
        BY <1>5, <2>4, StepsAreEntries
    <3>2. QED  BY ONLY <3>1, LeadsMerged
  <2>6. Leads(q.undo, x, z)
      BY <1>1, <1>4, <1>5, <2>1, <2>4, LeadsJoin
  <2>7. Timeline(q)
      BY <1>4, <2>4, <2>5, <2>6 DEF Timeline
  <2> DEFINE r == UndoTimes(q, n)
  <2>8. /\ r = [disk |-> r.disk, undo |-> r.undo, redo |-> r.redo]
        /\ r.disk = Onto(Merged(back).old, q.disk)
        /\ r.undo = p.undo /\ Splits(r.redo, front, gone)
      BY <1>1, <1>4, <1>5, UndoOf
  <2> HIDE DEF r
  <2>9. r.redo = p.redo
      BY <1>2, <2>8 DEF Splits
  <2>10. r = p
      BY <1>1, <1>4, <2>5, <2>8, <2>9
  <2>11. QED  BY <2>7, <2>10 DEF r
<1>10. QED  BY <1>8, <1>9 DEF q

-----------------------------------------------------------------------------
(* Type correctness *)

LEMMA CallCases ==
    ASSUME call \in CallStates
    PROVE  /\ call = Idle <=> call.op = "none"
           /\ call.op = "none" \/ call.op = "transaction" \/ Closing
           /\ Closing => /\ call.op # "none" /\ call.op # "transaction"
                         /\ call.merged \in Entries /\ call.saved \in Parts
                         /\ call.popped \in BOOLEAN /\ call.was \in Disks
           /\ call.op = "transaction" =>
                 /\ call.pushed \in Seq(Steps) /\ call.start \in Disks
                 /\ call.alone \in BOOLEAN
BY DEF CallStates, Idle, Closing

LEMMA TypeInvType == TypeInv => TypeOK
<1> SUFFICES ASSUME TypeInv PROVE TypeOK
    OBVIOUS
<1>1. project \in [disk : Disks, undo : Seq(Entries), redo : Seq(Entries)]
    BY ProjectType, StepsAreEntries DEF TypeInv, Bounded, Projects
<1>2. stack \in Seq(Entries) \cup {None}
    BY StepsAreEntries DEF TypeInv
<1>3. call.op \in {"none", "commit", "rollback", "transaction"}
    BY CallCases DEF TypeInv, Closing
<1>4. QED  BY <1>1, <1>2, <1>3 DEF TypeInv, TypeOK, Bounded

LEMMA NothingPart == <<>> \in Parts /\ DOMAIN <<>> = {}
<1>1. <<>> \in [{} -> Contents]
    OBVIOUS
<1>2. QED  BY <1>1 DEF Parts

\* The kinds of changes are changes of some files.
LEMMA ChangeType ==
    ASSUME TypeInv, fresh <= MaxChanges, NEW change \in Changes
    PROVE  change \in Parts /\ DOMAIN change # {}
<1> DEFINE here == {f \in Files : Exists(f)}
<1>1. project.disk \in [Files -> Contents]
    BY ProjectType DEF TypeInv, Bounded, Disks
<1>2. fresh \in 1..MaxChanges
    BY ConstantsAssumption DEF TypeInv
<1>3. ASSUME NEW fs \in SUBSET here
      PROVE  Edit(fs) \in [fs -> Contents] /\ DOMAIN Edit(fs) = fs
  <2>1. ASSUME NEW f \in fs PROVE project.disk[f] \cup {fresh} \in Contents
    <3>1. project.disk[f] \in SUBSET (1..MaxChanges)
        BY <1>1 DEF Exists, Contents
    <3>2. QED  BY <1>2, <3>1 DEF Contents
  <2>2. QED  BY <2>1 DEF Edit
<1>4. CASE \E fs \in (SUBSET here) \ {{}} : change = Edit(fs)
    BY <1>3, <1>4 DEF Parts
<1>5. CASE \E g \in Files \ here : \E fs \in SUBSET here : change = Create(g, fs)
  <2>1. PICK g \in Files \ here, fs \in SUBSET here : change = Create(g, fs)
      BY <1>5
  <2>2. /\ DOMAIN change = {g} \cup fs
        /\ \A h \in {g} \cup fs : change[h] = IF h = g THEN {fresh} ELSE Edit(fs)[h]
        /\ change = [h \in {g} \cup fs |-> change[h]]
      BY <1>3, <2>1 DEF Create, Onto
  <2>3. \A h \in {g} \cup fs : change[h] \in Contents
      BY <1>2, <1>3, <2>2 DEF Contents
  <2>4. QED  BY <2>2, <2>3 DEF Parts
<1>6. CASE \E f \in here : \E g \in Files \ here : \E fs \in SUBSET (here \ {f}) :
              change = Move(f, g, fs)
  <2>1. PICK f \in here, g \in Files \ here :
            \E fs \in SUBSET (here \ {f}) : change = Move(f, g, fs)
      BY <1>6
  <2>2. PICK fs \in SUBSET (here \ {f}) : change = Move(f, g, fs)
      BY <2>1
  <2>3. /\ DOMAIN change = {f, g} \cup fs
        /\ \A h \in {f, g} \cup fs :
              change[h] = IF h \in {f, g}
                          THEN (IF h = f THEN Absent ELSE project.disk[f])
                          ELSE Edit(fs)[h]
        /\ change = [h \in {f, g} \cup fs |-> change[h]]
      BY <1>3, <2>2 DEF Move, Onto
  <2>4. Absent \in Contents /\ project.disk[f] \in Contents
      BY <1>1 DEF Contents
  <2>5. \A h \in {f, g} \cup fs : change[h] \in Contents
      BY <1>3, <2>3, <2>4
  <2>6. QED  BY <2>3, <2>5 DEF Parts
<1>7. QED  BY <1>4, <1>5, <1>6 DEF Changes

\* A change that is done on a disk.
LEMMA EntryMade ==
    ASSUME NEW change \in Parts, NEW x \in Disks
    PROVE  /\ Entry(change, x) \in Entries
           /\ Entry(change, x).new = change
           /\ Entry(change, x).old = [f \in DOMAIN Entry(change, x).new |-> x[f]]
           /\ DOMAIN change # {} => Entry(change, x) \in Steps
<1>1. PICK fs \in SUBSET Files : change \in [fs -> Contents]
    BY DEF Parts
<1>2. [f \in DOMAIN change |-> x[f]] \in [fs -> Contents]
    BY <1>1 DEF Disks
<1>3. [f \in DOMAIN change |-> x[f]] \in Parts
    BY <1>2 DEF Parts
<1>4. /\ Entry(change, x) = [old |-> [f \in DOMAIN change |-> x[f]], new |-> change]
      /\ DOMAIN [f \in DOMAIN change |-> x[f]] = DOMAIN change
    BY DEF Entry
<1>5. Entry(change, x) \in Entries
    BY <1>3, <1>4 DEF Entries
<1> DEFINE e == Entry(change, x)
<1>6. e.new = change /\ e.old = [f \in DOMAIN change |-> x[f]]
    BY <1>4
<1> HIDE DEF e
<1>7. e.old = [f \in DOMAIN e.new |-> x[f]]
    BY <1>6
<1>8. QED  BY <1>5, <1>6, <1>7 DEF Steps, e

LEMMA OntoPart ==
    ASSUME NEW a \in Parts, NEW b \in Parts
    PROVE  /\ Onto(a, b) \in Parts /\ DOMAIN Onto(a, b) = DOMAIN a \cup DOMAIN b
           /\ \A f \in DOMAIN a \cup DOMAIN b :
                 Onto(a, b)[f] = IF f \in DOMAIN a THEN a[f] ELSE b[f]
<1>1. PICK fs \in SUBSET Files : a \in [fs -> Contents]
    BY DEF Parts
<1>2. PICK gs \in SUBSET Files : b \in [gs -> Contents]
    BY DEF Parts
<1>3. Onto(a, b) = [f \in fs \cup gs |-> IF f \in fs THEN a[f] ELSE b[f]]
    BY <1>1, <1>2 DEF Onto
<1>4. Onto(a, b) \in [fs \cup gs -> Contents]
    BY <1>1, <1>2, <1>3
<1>5. QED  BY <1>1, <1>2, <1>3, <1>4 DEF Parts

\* Files written without the history.
LEMMA WriteType ==
    ASSUME Bounded(project), NEW part \in Parts
    PROVE  /\ Bounded(Write(part))
           /\ Write(part).disk = Onto(part, project.disk)
           /\ Write(part).undo = project.undo /\ Write(part).redo = project.redo
<1>1. project \in Projects /\ project.disk \in Disks
    BY ProjectType DEF Bounded
<1>2. Onto(part, project.disk) \in Disks
    BY <1>1, OntoDisk
<1>3. QED  BY <1>1, <1>2 DEF Write, Bounded, Projects

\* As many entries as the history has, at most, are undone.
LEMMA PopAllUndoes ==
    ASSUME NEW p, Bounded(p), NEW S, NEW s \in Seq(S)
    PROVE  \E n \in 0..Len(p.undo) :
              /\ PopAll(p, s) = UndoTimes(p, n)
              /\ n = IF Len(s) <= Len(p.undo) THEN Len(s) ELSE Len(p.undo)
<1>1. Len(p.undo) \in Nat /\ Len(s) \in Nat
    BY ProjectType, LenProperties DEF Bounded
<1>2. QED  BY <1>1 DEF PopAll, CanPopAll

LEMMA StackGrows ==
    ASSUME stack \in Seq(Steps), NEW e \in Steps
    PROVE  Append(stack, e) \in Seq(Steps) /\ Append(stack, e) # None
<1>1. Append(stack, e) \in Seq(Steps)
    BY AppendProperties
<1>2. QED  BY <1>1, StepsAreEntries, NoneAssumption

\* What applying a change does, whoever applies it.
LEMMA BuildType ==
    ASSUME TypeInv, NEW change \in Parts, DOMAIN change # {}, BuildResult(change)
    PROVE  /\ Bounded(project)'
           /\ stack' = None <=> stack = None
           /\ stack' # None => stack' \in Seq(Steps)
           /\ originals' \in Parts
           /\ seen' \in {"edits", "files", "other"} /\ loose' \in BOOLEAN
           /\ stack # None /\ call # Idle => seen' = "other"
<1>1. Bounded(project) /\ project.disk \in Disks
    BY ProjectType DEF TypeInv, Bounded
<1> DEFINE e == Entry(change, project.disk)
<1>2. e \in Entries /\ e \in Steps
    BY <1>1, EntryMade
<1>3. Bounded(Do(project, e))
    BY <1>1, <1>2, DoType
<1>4. Edited(change) \subseteq DOMAIN change
    BY DEF Edited
<1> HIDE DEF e
<1>5. CASE Push(change)
  <2>1. /\ originals' = Save(change) /\ stack # None /\ stack \in Seq(Steps)
        /\ stack' = Append(stack, e) /\ loose' = loose
        /\ (project' = Do(project, e) /\ seen' = SeenWith(change))
           \/ (project' = project /\ seen' = "other")
      BY <1>5 DEF Push, TypeInv, e
  <2>2. stack' \in Seq(Steps) /\ stack' # None
      BY <1>2, <2>1, StackGrows
  <2>3. originals' \in Parts
    <3>1. PICK fs \in SUBSET Files : change \in [fs -> Contents]
        BY DEF Parts
    <3>2. [f \in Edited(change) |-> project.disk[f]] \in [Edited(change) -> Contents]
          /\ Edited(change) \in SUBSET Files
        BY <1>1, <1>4, <3>1 DEF Disks
    <3>3. [f \in Edited(change) |-> project.disk[f]] \in Parts
        BY <3>2 DEF Parts
    <3>4. QED  BY <2>1, <3>3, OntoPart DEF Save, TypeInv
  <2>4. /\ seen' \in {"edits", "files", "other"}
        /\ call # Idle => seen' = "other"
    <3>1. SeenWith(change) \in {"edits", "files", "other"}
        BY DEF SeenWith, TypeInv
    <3>2. call # Idle => SeenWith(change) = "other"
        BY DEF SeenWith
    <3>3. QED  BY <2>1, <3>1, <3>2
  <2>5. QED  BY <1>1, <1>3, <2>1, <2>2, <2>3, <2>4 DEF TypeInv
<1>6. CASE Perform(change)
    BY <1>3, <1>6 DEF Perform, TypeInv, e
<1>7. CASE ApplyEdits(change)
    BY <1>1, <1>7, WriteType DEF ApplyEdits, TypeInv
<1>8. QED  BY <1>5, <1>6, <1>7 DEF BuildResult

LEMMA InitType == Init => TypeInv
<1> SUFFICES ASSUME Init PROVE TypeInv
    OBVIOUS
<1>1. <<>> \in Seq(Steps) /\ Len(<<>>) = 0
    BY EmptySeq
<1>2. \A there \in SUBSET Files :
         [f \in Files |-> IF f \in there THEN {} ELSE Absent] \in Disks
    BY DEF Disks, Contents
<1>3. project \in Projects /\ project.undo = <<>> /\ project.redo = <<>>
    BY <1>1, <1>2 DEF Init, Projects
<1>4. Bounded(project)
  <2>1. 0 + 0 <= MaxHistory
      BY ConstantsAssumption
  <2>2. QED  BY <1>1, <1>3, <2>1 DEF Bounded
<1>5. call = Idle /\ call \in CallStates /\ call.op = "none"
    BY DEF Init, CallStates, Idle
<1>6. fresh \in 1..(MaxChanges + 1) /\ timeouts \in 0..MaxLate
    BY ConstantsAssumption DEF Init
<1>7. originals \in Parts /\ stack = None /\ late = {} /\ seen = "edits" /\ loose = FALSE
    BY NothingPart DEF Init
<1>8. QED  BY <1>4, <1>5, <1>6, <1>7 DEF TypeInv, Closing

\* Single refactorings.
LEMMA RefactorType ==
    ASSUME TypeInv, NEW change \in Changes, Refactor(change) \/ TimeOut(change)
    PROVE  TypeInv'
<1>1. fresh <= MaxChanges /\ fresh' = fresh + 1 /\ call = Idle /\ call' = call
      /\ base' = base
    BY DEF Refactor, TimeOut, history
<1>2. change \in Parts /\ DOMAIN change # {}
    BY <1>1, ChangeType
<1>3. fresh' \in 1..(MaxChanges + 1)
    BY <1>1, ConstantsAssumption DEF TypeInv
<1>4. call'.op = "none"
    BY <1>1 DEF Idle
<1>5. CASE Refactor(change)
  <2>1. late' = late /\ timeouts' = timeouts /\ BuildResult(change)
      BY <1>5 DEF Refactor
  <2> HIDE DEF BuildResult
  <2>2. QED  BY <1>1, <1>2, <1>3, <1>4, <2>1, BuildType DEF TypeInv, Closing
<1>6. CASE TimeOut(change)
  <2>1. /\ project' = project /\ stack' = stack /\ originals' = originals
        /\ late' = late \cup {change} /\ timeouts' = timeouts + 1
        /\ timeouts < MaxLate /\ seen' = seen /\ loose' = loose
      BY <1>6 DEF TimeOut, history
  <2>2. timeouts' \in 0..MaxLate
      BY <2>1, ConstantsAssumption DEF TypeInv
  <2>3. QED  BY <1>1, <1>2, <1>3, <1>4, <2>1, <2>2 DEF TypeInv, Closing
<1>7. QED  BY <1>5, <1>6

LEMMA LateType ==
    ASSUME TypeInv, NEW change \in late, LateApply(change)
    PROVE  TypeInv'
<1>1. change \in Parts /\ DOMAIN change # {} /\ call \in CallStates
    BY DEF TypeInv
<1>2. /\ late' = late \ {change} /\ BuildResult(change)
      /\ fresh' = fresh /\ timeouts' = timeouts /\ base' = base
      /\ call' = IF call.op = "transaction" THEN [call EXCEPT !.alone = FALSE] ELSE call
    BY DEF LateApply
<1>3. call' \in CallStates /\ call'.op = call.op
    BY <1>1, <1>2 DEF CallStates, Idle
<1>4. call.op = "transaction" => call # Idle
    BY DEF Idle
<1> HIDE DEF BuildResult
<1>5. QED  BY <1>1, <1>2, <1>3, <1>4, BuildType DEF TypeInv, Closing

LEMMA UndoRedoType ==
    ASSUME TypeInv, NEW n \in 1..MaxHistory, Undo(n) \/ Redo(n)
    PROVE  TypeInv'
<1>1. Bounded(project) /\ call = Idle
    BY DEF TypeInv, Undo, Redo
<1>2. Bounded(project)'
    BY <1>1, UndoBack, RedoForth DEF Undo, Redo
<1>3. seen' \in {"edits", "files", "other"}
    BY DEF Undo, Redo, Disturb, TypeInv
<1>4. call.op = "none"
    BY <1>1 DEF Idle
<1>5. /\ stack' = stack /\ originals' = originals /\ call' = call /\ late' = late
      /\ fresh' = fresh /\ timeouts' = timeouts /\ base' = base /\ loose' = loose
    BY DEF Undo, Redo
<1>6. QED  BY <1>2, <1>3, <1>4, <1>5 DEF TypeInv, Closing

\* The change stack is begun, or closed in two steps.
LEMMA BeginStackType ==
    ASSUME TypeInv, BeginChangeStack
    PROVE  TypeInv'
<1>1. <<>> \in Seq(Steps) /\ Len(<<>>) = 0
    BY EmptySeq
<1>2. /\ call = Idle /\ stack' = <<>> /\ originals' = <<>> /\ base' = project
      /\ seen' = "edits" /\ project' = project /\ call' = call /\ late' = late
      /\ fresh' = fresh /\ timeouts' = timeouts /\ loose' = loose
    BY DEF BeginChangeStack
<1>3. call'.op = "none"
    BY <1>2 DEF Idle
<1>4. QED  BY <1>1, <1>2, <1>3, NothingPart DEF TypeInv, Closing

LEMMA CloseType ==
    ASSUME TypeInv, NEW op \in {"commit", "rollback"}, Close(op)
    PROVE  TypeInv'
<1>1. <<>> \in Seq(Steps) /\ <<>> # None
    BY EmptySeq, StepsAreEntries, NoneAssumption
<1>2. /\ stack # None
      /\ call' = [op |-> op, merged |-> Merged(stack), saved |-> originals,
                  popped |-> CanPopAll(project, stack), was |-> project.disk]
      /\ project' = PopAll(project, stack) /\ stack' = <<>>
      /\ originals' = originals /\ late' = late /\ fresh' = fresh
      /\ timeouts' = timeouts /\ base' = base /\ seen' = seen /\ loose' = loose
    BY DEF Close
<1>3. Bounded(project) /\ project.disk \in Disks /\ stack \in Seq(Steps)
    BY <1>2, ProjectType DEF TypeInv, Bounded
<1>4. Bounded(project)'
    BY <1>2, <1>3, PopAllUndoes, UndoBack
<1>5. CanPopAll(project, stack) \in BOOLEAN
    BY DEF CanPopAll
<1>6. call' \in CallStates /\ call'.op # "transaction"
    BY <1>2, <1>3, <1>5, MergedParts DEF CallStates, TypeInv
<1>7. QED  BY <1>1, <1>2, <1>4, <1>6 DEF TypeInv

\* A call that ends leaves the stack as it is, or takes it away.
LEMMA IdleType ==
    ASSUME TypeInv, call' = Idle, Bounded(project)', loose' \in BOOLEAN,
           late' = late, fresh' = fresh, timeouts' = timeouts,
           \/ stack' = None /\ originals' = <<>> /\ seen' = "edits"
           \/ UNCHANGED <<stack, originals, base, seen>>
    PROVE  TypeInv'
<1>1. Idle \in CallStates /\ Idle.op = "none"
    BY DEF CallStates, Idle
<1>2. QED  BY <1>1, NothingPart DEF TypeInv, Closing

LEMMA ClosedType ==
    ASSUME TypeInv, Commit \/ CommitFails \/ Rollback \/ RollbackFails
    PROVE  TypeInv'
<1>1. Closing
    BY DEF Closing, Commit, CommitFails, Rollback, RollbackFails
<1>2. Bounded(project) /\ call.merged \in Entries /\ call.saved \in Parts
    BY <1>1, CallCases DEF TypeInv
<1>3. Bounded(project)'
    BY <1>2, DoType, WriteType DEF Commit, CommitFails, Rollback, RollbackFails
<1>4. loose' \in BOOLEAN
    BY DEF Commit, CommitFails, Rollback, RollbackFails, TypeInv
<1>5. Closed
    BY DEF Commit, CommitFails, Rollback, RollbackFails
<1>6. QED  BY <1>3, <1>4, <1>5, IdleType DEF Closed

\* Transactions.
LEMMA TransactionType ==
    ASSUME TypeInv, BeginTransaction \/ EndTransaction
    PROVE  TypeInv'
<1>1. CASE BeginTransaction
  <2>1. /\ call' = [op |-> "transaction", pushed |-> <<>>, start |-> project.disk,
                    alone |-> TRUE]
        /\ project' = project /\ stack' = stack /\ originals' = originals
        /\ late' = late /\ fresh' = fresh /\ timeouts' = timeouts
        /\ base' = base /\ loose' = loose
        /\ seen' = IF stack = None THEN seen ELSE "other"
      BY <1>1 DEF BeginTransaction, Disturb
  <2>2. <<>> \in Seq(Steps) /\ project.disk \in Disks
      BY EmptySeq, ProjectType DEF TypeInv, Bounded
  <2>3. call' \in CallStates /\ call'.op = "transaction"
      BY <2>1, <2>2 DEF CallStates
  <2>4. QED  BY <2>1, <2>3 DEF TypeInv, Closing
<1>2. CASE EndTransaction
    BY <1>2, IdleType DEF EndTransaction, TypeInv, history
<1>3. QED  BY <1>1, <1>2

\* The entry a step of a transaction pushes.
LEMMA StepEntry ==
    ASSUME TypeInv, NEW fs \in (SUBSET {f \in Files : Exists(f)}) \ {{}}, Step(fs),
           NEW e, e = Entry(Edit(fs), project.disk)
    PROVE  /\ e \in Steps /\ e \in Entries
           /\ e.old = [f \in DOMAIN e.new |-> project.disk[f]]
<1>1. fresh <= MaxChanges
    BY DEF Step
<1>2. Edit(fs) \in Changes
    BY DEF Changes
<1>3. Edit(fs) \in Parts /\ DOMAIN Edit(fs) # {}
    BY <1>1, <1>2, ChangeType
<1>4. project.disk \in Disks
    BY ProjectType DEF TypeInv, Bounded
<1>5. QED  BY <1>3, <1>4, EntryMade

LEMMA StepCall ==
    ASSUME TypeInv, NEW fs \in (SUBSET {f \in Files : Exists(f)}) \ {{}}, Step(fs)
    PROVE  LET e == Entry(Edit(fs), project.disk) IN
           /\ project' = Do(project, e) /\ call'.pushed = Append(call.pushed, e)
           /\ call'.start = call.start /\ call'.alone = call.alone
           /\ call.op = "transaction" /\ call'.op = "transaction"
           /\ call.pushed \in Seq(Steps)
<1>1. call \in CallStates /\ call.op = "transaction"
    BY DEF TypeInv, Step
<1>2. call \in [op : {"transaction"}, pushed : Seq(Steps), start : Disks, alone : BOOLEAN]
    BY <1>1 DEF CallStates, Idle
<1> DEFINE e == Entry(Edit(fs), project.disk)
<1>3. project' = Do(project, e) /\ call' = [call EXCEPT !.pushed = Append(@, e)]
    BY DEF Step
<1> HIDE DEF e
<1>4. QED  BY <1>1, <1>2, <1>3 DEF e

LEMMA StepType ==
    ASSUME TypeInv, NEW fs \in (SUBSET {f \in Files : Exists(f)}) \ {{}}, Step(fs)
    PROVE  TypeInv'
<1> DEFINE e == Entry(Edit(fs), project.disk)
<1>1. e \in Steps /\ e \in Entries
    BY StepEntry
<1>2. /\ call.op = "transaction" /\ fresh <= MaxChanges /\ fresh' = fresh + 1
      /\ project' = Do(project, e)
      /\ call' = [call EXCEPT !.pushed = Append(@, e)]
      /\ stack' = stack /\ originals' = originals /\ late' = late
      /\ timeouts' = timeouts /\ base' = base /\ seen' = seen /\ loose' = loose
    BY DEF Step, history
<1> HIDE DEF e
<1>3. Bounded(project)'
    BY <1>1, <1>2, DoType DEF TypeInv
<1>4. call.pushed \in Seq(Steps) /\ call \in CallStates
    BY <1>2, CallCases DEF TypeInv
<1>5. Append(call.pushed, e) \in Seq(Steps)
    BY <1>1, <1>4, AppendProperties
<1>6. call' \in CallStates /\ call'.op = "transaction"
    BY <1>2, <1>4, <1>5 DEF CallStates, Idle
<1>7. fresh' \in 1..(MaxChanges + 1)
    BY <1>2, ConstantsAssumption DEF TypeInv
<1>8. QED  BY <1>2, <1>3, <1>6, <1>7 DEF TypeInv, Closing

\* A transaction that fails pops its entries, and one more when its push failed.
LEMMA AbortedPops ==
    ASSUME TypeInv, StepFails \/ PushFails
    PROVE  /\ \E s \in Seq(Entries) : project' = PopAll(project, s)
           /\ call' = Idle /\ UNCHANGED <<stack, originals, late, fresh, timeouts>>
           /\ base' = base /\ seen' = seen /\ loose' = loose
<1>1. PICK s : Abort(s) /\ (s = call.pushed \/ s = Append(call.pushed, NoEntry))
    BY DEF StepFails, PushFails
<1>2. call.pushed \in Seq(Steps)
    BY CallCases DEF StepFails, PushFails, TypeInv
<1>3. NoEntry \in Entries
    BY NothingPart DEF NoEntry, Entries
<1>4. call.pushed \in Seq(Entries)
    BY <1>2, StepsAreEntries
<1>5. Append(call.pushed, NoEntry) \in Seq(Entries)
    BY <1>3, <1>4, AppendProperties
<1>6. s \in Seq(Entries)
    BY <1>1, <1>4, <1>5
<1>7. QED  BY <1>1, <1>6 DEF Abort, history

LEMMA AbortType ==
    ASSUME TypeInv, StepFails \/ PushFails
    PROVE  TypeInv'
<1>1. Bounded(project)'
    BY AbortedPops, PopAllUndoes, UndoBack DEF TypeInv
<1>2. QED  BY <1>1, AbortedPops, IdleType DEF TypeInv

LEMMA TypeStep == TypeInv /\ [Next]_vars => TypeInv'
<1> SUFFICES ASSUME TypeInv, [Next]_vars PROVE TypeInv'
    OBVIOUS
<1>1. CASE UNCHANGED vars
    BY <1>1 DEF TypeInv, vars, history, Closing
<1>2. QED
    BY <1>1, RefactorType, LateType, UndoRedoType, BeginStackType, CloseType,
       ClosedType, TransactionType, StepType, AbortType DEF Next

\* The backend's state is well typed, and Rope's two lists stay in their bounds.
THEOREM TypeCorrect == Spec => []TypeOK
<1>1. TypeInv => TypeOK
    BY TypeInvType
<1>2. QED  BY <1>1, InitType, TypeStep, PTL DEF Spec

-----------------------------------------------------------------------------
(* Undo and redo *)

LEMMA BuildHistory ==
    ASSUME TypeInv, HistoryInv, NEW change \in Parts, DOMAIN change # {},
           BuildResult(change)
    PROVE  HistoryInv'
<1> DEFINE e == Entry(change, project.disk)
<1>1. Bounded(project) /\ project.disk \in Disks
    BY ProjectType DEF TypeInv, Bounded
<1>2. e \in Entries /\ e.old = [f \in DOMAIN e.new |-> project.disk[f]]
    BY <1>1, EntryMade
<1>3. \/ project' = Do(project, e) /\ loose' = loose
      \/ project' = project /\ loose' = loose
      \/ loose'
    BY DEF BuildResult, Push, Perform, ApplyEdits
<1> HIDE DEF e
<1>4. QED  BY <1>1, <1>2, <1>3, DoTimeline DEF HistoryInv

LEMMA UndoneHistory ==
    ASSUME TypeInv, HistoryInv, loose' = loose, NEW n \in Nat,
           \/ n <= Len(project.undo) /\ project' = UndoTimes(project, n)
           \/ n <= Len(project.redo) /\ project' = RedoTimes(project, n)
    PROVE  HistoryInv'
<1>1. Bounded(project) /\ Len(project.undo) \in Nat /\ Len(project.redo) \in Nat
    BY ProjectType DEF TypeInv, Bounded
<1>2. CASE n <= Len(project.undo) /\ project' = UndoTimes(project, n)
  <2>1. n \in 0..Len(project.undo)
      BY <1>1, <1>2
  <2>2. QED  BY <1>1, <1>2, <2>1, UndoBack DEF HistoryInv
<1>3. CASE n <= Len(project.redo) /\ project' = RedoTimes(project, n)
  <2>1. n \in 0..Len(project.redo)
      BY <1>1, <1>3
  <2>2. QED  BY <1>1, <1>3, <2>1, RedoForth DEF HistoryInv
<1>4. QED  BY <1>2, <1>3

LEMMA PopAllHistory ==
    ASSUME TypeInv, HistoryInv, loose' = loose, NEW S, NEW s \in Seq(S),
           project' = PopAll(project, s)
    PROVE  HistoryInv'
<1>1. Bounded(project) /\ Len(project.undo) \in Nat
    BY ProjectType DEF TypeInv, Bounded
<1>2. PICK n \in 0..Len(project.undo) : project' = UndoTimes(project, n)
    BY <1>1, PopAllUndoes
<1>3. n \in Nat /\ n <= Len(project.undo)
    BY <1>1
<1>4. QED  BY <1>2, <1>3, UndoneHistory

\* What was saved is what the popped disk holds, so writing it changes nothing.
LEMMA SavedIsThere ==
    ASSUME TypeInv, ClosingInv, Closing, seen = "edits"
    PROVE  /\ Write(call.saved).disk = base.disk
           /\ call.popped => Write(call.saved) = project
<1>1. /\ call.saved \in Parts /\ Bounded(project) /\ Bounded(base)
      /\ project.disk \in Disks /\ base.disk \in Disks
      /\ project = [disk |-> project.disk, undo |-> project.undo, redo |-> project.redo]
    BY CallCases, ProjectType DEF TypeInv, Bounded
<1>2. /\ \A f \in DOMAIN call.saved : call.saved[f] = base.disk[f]
      /\ \A f \in Files \ DOMAIN call.saved : project.disk[f] = base.disk[f]
      /\ call.popped => project.disk = base.disk
    BY DEF ClosingInv
<1> DEFINE d == Onto(call.saved, project.disk)
<1>3. /\ d \in Disks
      /\ \A f \in Files : d[f] = IF f \in DOMAIN call.saved THEN call.saved[f]
                                                           ELSE project.disk[f]
    BY <1>1, OntoDisk
<1> HIDE DEF d
<1>4. d = base.disk
  <2>1. \A f \in Files : d[f] = base.disk[f]
      BY <1>2, <1>3
  <2>2. QED  BY <1>1, <1>3, <2>1 DEF Disks
<1>5. Write(call.saved) = [project EXCEPT !.disk = d]
    BY DEF Write, d
<1>6. QED  BY <1>1, <1>2, <1>4, <1>5

LEMMA ClosedHistory ==
    ASSUME TypeInv, ClosingInv, HistoryInv,
           Commit \/ CommitFails \/ Rollback \/ RollbackFails
    PROVE  HistoryInv'
<1>1. Bounded(project)
    BY DEF TypeInv
<1>2. CASE Commit
  <2>1. /\ Closing /\ call.popped /\ project' = Do(project, call.merged)
        /\ loose' = (loose \/ seen = "other")
      BY <1>2 DEF Commit, Closing
  <2>2. SUFFICES ASSUME ~loose, seen # "other" PROVE Timeline(project')
      BY <2>1 DEF HistoryInv
  <2>3. call.merged.old = [f \in DOMAIN call.merged.new |-> project.disk[f]]
      BY <2>1, <2>2 DEF ClosingInv
  <2>4. call.merged \in Entries
      BY <2>1, CallCases DEF TypeInv
  <2>5. QED  BY <1>1, <2>1, <2>2, <2>3, <2>4, DoTimeline DEF HistoryInv
<1>3. CASE CommitFails \/ Rollback
  <2>1. /\ Closing /\ project' = Write(call.saved)
        /\ ~loose' => ~loose /\ seen = "edits" /\ call.popped
      BY <1>3 DEF CommitFails, Rollback, Closing
  <2>2. QED  BY <2>1, SavedIsThere DEF HistoryInv
<1>4. CASE RollbackFails
    BY <1>4 DEF RollbackFails, HistoryInv
<1>5. QED  BY <1>2, <1>3, <1>4

LEMMA HistoryInit == Init => HistoryInv
<1> SUFFICES ASSUME Init PROVE HistoryInv
    OBVIOUS
<1>1. project.disk \in Disks
    BY InitType, ProjectType DEF TypeInv, Bounded
<1>2. <<>> \in Seq(Steps) /\ Len(<<>>) = 0
    BY EmptySeq
<1>3. Reverse(<<>>) \in Seq(Steps) /\ Len(Reverse(<<>>)) = 0
    BY <1>2, Reversed
<1>4. Reverse(<<>>) = <<>>
    BY <1>3, EmptySeq
<1>5. project.undo = <<>> /\ project.redo = <<>>
    BY DEF Init
<1>6. QED  BY <1>1, <1>4, <1>5, LeadsNowhere DEF HistoryInv, Timeline

LEMMA HistoryStep ==
    ASSUME TypeInv, ClosingInv, HistoryInv, [Next]_vars
    PROVE  HistoryInv'
<1>1. CASE UNCHANGED vars
    BY <1>1 DEF HistoryInv, vars, history
<1>2. ASSUME NEW change \in Changes, Refactor(change) \/ TimeOut(change)
      PROVE  HistoryInv'
  <2>1. CASE Refactor(change)
    <3>1. fresh <= MaxChanges /\ BuildResult(change)
        BY <2>1 DEF Refactor
    <3> HIDE DEF BuildResult
    <3>2. QED  BY <3>1, ChangeType, BuildHistory
  <2>2. CASE TimeOut(change)
      BY <2>2 DEF TimeOut, HistoryInv, history
  <2>3. QED  BY <1>2, <2>1, <2>2
<1>3. ASSUME NEW change \in late, LateApply(change)
      PROVE  HistoryInv'
  <2>1. BuildResult(change) /\ change \in Parts /\ DOMAIN change # {}
      BY <1>3 DEF LateApply, TypeInv
  <2> HIDE DEF BuildResult
  <2>2. QED  BY <2>1, BuildHistory
<1>4. ASSUME NEW n \in 1..MaxHistory, Undo(n) \/ Redo(n)
      PROVE  HistoryInv'
  <2>1. Len(project.undo) \in Nat /\ Len(project.redo) \in Nat
      BY ProjectType DEF TypeInv, Bounded
  <2>2. /\ n \in Nat /\ loose' = loose
        /\ \/ n <= Len(project.undo) /\ project' = UndoTimes(project, n)
           \/ n <= Len(project.redo) /\ project' = RedoTimes(project, n)
      BY <1>4, <2>1, ConstantsAssumption DEF Undo, Redo
  <2>3. QED  BY <2>2, UndoneHistory
<1>5. CASE BeginChangeStack \/ BeginTransaction \/ EndTransaction
    BY <1>5 DEF BeginChangeStack, BeginTransaction, EndTransaction, HistoryInv, history
<1>6. ASSUME NEW op \in {"commit", "rollback"}, Close(op)
      PROVE  HistoryInv'
    BY <1>6, PopAllHistory DEF Close, TypeInv
<1>7. CASE Commit \/ CommitFails \/ Rollback \/ RollbackFails
    BY <1>7, ClosedHistory
<1>8. ASSUME NEW fs \in (SUBSET {f \in Files : Exists(f)}) \ {{}}, Step(fs)
      PROVE  HistoryInv'
  <2> DEFINE e == Entry(Edit(fs), project.disk)
  <2>1. /\ e \in Entries /\ e.old = [f \in DOMAIN e.new |-> project.disk[f]]
        /\ project' = Do(project, e) /\ loose' = loose
      BY <1>8, StepEntry DEF Step, history
  <2> HIDE DEF e
  <2>2. QED  BY <2>1, DoTimeline DEF TypeInv, HistoryInv
<1>9. CASE StepFails \/ PushFails
    BY <1>9, AbortedPops, PopAllHistory
<1>10. QED
    BY <1>1, <1>2, <1>3, <1>4, <1>5, <1>6, <1>7, <1>8, <1>9 DEF Next

-----------------------------------------------------------------------------
(* The change stack *)

\* One more push: the entry goes to the end of the history and of the stack.
LEMMA StackPushed ==
    ASSUME Bounded(project), NEW x \in Seq(Steps), NEW s \in Seq(Steps), NEW start,
           project.undo = Latest(x \o s), Leads(s, start, project.disk),
           NEW e \in Steps, e.old = [f \in DOMAIN e.new |-> project.disk[f]]
    PROVE  /\ Do(project, e).undo = Latest(x \o Append(s, e))
           /\ Leads(Append(s, e), start, Do(project, e).disk)
<1>1. e \in Entries /\ DOMAIN e.new # {}
    BY DEF Steps
<1>2. /\ Do(project, e).disk = Onto(e.new, project.disk)
      /\ Do(project, e).undo = Latest(Append(project.undo, e))
    BY <1>1, DoType
<1>3. x \o s \in Seq(Steps)
    BY Joined
<1>4. Latest(Append(Latest(x \o s), e)) = Latest(Append(x \o s, e))
    BY <1>3, LatestOn
<1>5. Latest(Append(x \o s, e)) = Latest(x \o Append(s, e))
    BY LatestJoin
<1>6. Leads(Append(s, e), start, Onto(e.new, project.disk))
    BY <1>1, StepsAreEntries, LeadsOn
<1>7. QED  BY <1>2, <1>4, <1>5, <1>6

LEMMA StackBuild ==
    ASSUME TypeInv, StackInv, NEW change \in Parts, DOMAIN change # {},
           BuildResult(change), call = Idle, base' = base
    PROVE  StackInv'
<1> DEFINE e == Entry(change, project.disk)
<1>1. Bounded(project) /\ project.disk \in Disks
    BY ProjectType DEF TypeInv, Bounded
<1>2. e \in Steps /\ e.old = [f \in DOMAIN e.new |-> project.disk[f]]
    BY <1>1, EntryMade
<1> HIDE DEF e
<1>3. CASE Push(change)
  <2>1. SUFFICES ASSUME seen' # "other"
                 PROVE  /\ project'.undo = Latest(base.undo \o stack')
                        /\ Leads(stack', base.disk, project'.disk)
      BY <1>3 DEF StackInv
  <2>2. /\ stack # None /\ stack' = Append(stack, e) /\ project' = Do(project, e)
        /\ seen # "other"
      BY <1>3, <2>1 DEF Push, SeenWith, e
  <2>3. /\ stack \in Seq(Steps) /\ base.undo \in Seq(Steps)
        /\ project.undo = Latest(base.undo \o stack)
        /\ Leads(stack, base.disk, project.disk)
      BY <2>2, ProjectType DEF TypeInv, StackInv, Bounded
  <2>4. QED  BY <1>1, <1>2, <2>2, <2>3, StackPushed
<1>4. CASE Perform(change) \/ ApplyEdits(change)
    BY <1>4 DEF Perform, ApplyEdits, StackInv
<1>5. QED  BY <1>3, <1>4 DEF BuildResult

LEMMA OriginalsBuild ==
    ASSUME TypeInv, OriginalsInv, NEW change \in Parts, DOMAIN change # {},
           BuildResult(change), call = Idle, base' = base
    PROVE  OriginalsInv'
<1> DEFINE e == Entry(change, project.disk)
           saved == [f \in Edited(change) |-> project.disk[f]]
<1>1. Bounded(project) /\ project.disk \in Disks
    BY ProjectType DEF TypeInv, Bounded
<1>2. e \in Steps /\ e \in Entries /\ e.new = change
    BY <1>1, EntryMade
<1> HIDE DEF e
<1>3. CASE Push(change)
  <2>1. SUFFICES ASSUME seen' = "edits"
                 PROVE  /\ \A f \in DOMAIN originals' : originals'[f] = base.disk[f]
                        /\ \A f \in Files \ DOMAIN originals' :
                              project'.disk[f] = base.disk[f]
                        /\ \A i \in 1..Len(stack') :
                              DOMAIN stack'[i].new \subseteq DOMAIN originals'
      BY <1>3 DEF OriginalsInv
  <2>2. /\ stack # None /\ stack' = Append(stack, e) /\ project' = Do(project, e)
        /\ originals' = Save(change) /\ seen = "edits"
        /\ Edited(change) = DOMAIN change
      BY <1>3, <2>1 DEF Push, SeenWith, e
  <2>3. /\ \A f \in DOMAIN originals : originals[f] = base.disk[f]
        /\ \A f \in Files \ DOMAIN originals : project.disk[f] = base.disk[f]
        /\ \A i \in 1..Len(stack) : DOMAIN stack[i].new \subseteq DOMAIN originals
      BY <2>2 DEF OriginalsInv
  <2>4. PICK fs \in SUBSET Files : change \in [fs -> Contents]
      BY DEF Parts
  <2>5. DOMAIN saved = fs /\ \A f \in fs : saved[f] = project.disk[f]
      BY <2>2, <2>4
  <2>6. saved \in Parts
    <3>1. saved \in [fs -> Contents]
        BY <1>1, <2>2, <2>4 DEF Disks
    <3>2. QED  BY <3>1 DEF Parts
  <2>7. originals' = Onto(originals, saved)
      BY <2>2 DEF Save
  <2> HIDE DEF saved
  <2>8. /\ DOMAIN originals' = DOMAIN originals \cup fs
        /\ \A f \in DOMAIN originals' :
              originals'[f] = IF f \in DOMAIN originals THEN originals[f]
                                                       ELSE project.disk[f]
    <3>1. originals \in Parts
        BY DEF TypeInv
    <3>2. /\ DOMAIN Onto(originals, saved) = DOMAIN originals \cup DOMAIN saved
          /\ \A f \in DOMAIN originals \cup DOMAIN saved :
                Onto(originals, saved)[f] = IF f \in DOMAIN originals THEN originals[f]
                                                                     ELSE saved[f]
        BY <2>6, <3>1, OntoPart
    <3>3. QED  BY ONLY <2>5, <2>7, <3>2
  <2>9. ASSUME NEW f \in DOMAIN originals' PROVE originals'[f] = base.disk[f]
      BY <2>3, <2>4, <2>8
  <2>10. ASSUME NEW f \in Files \ DOMAIN originals'
         PROVE  project'.disk[f] = base.disk[f]
    <3>1. f \notin DOMAIN change /\ f \notin DOMAIN originals
        BY <2>4, <2>8
    <3>2. project'.disk = Onto(change, project.disk)
        BY <1>1, <1>2, <2>2, DoType
    <3>3. project'.disk[f] = project.disk[f]
        BY <1>1, <3>1, <3>2, OntoDisk
    <3>4. QED  BY <2>3, <3>1, <3>3
  <2>11. ASSUME NEW i \in 1..Len(stack')
         PROVE  DOMAIN stack'[i].new \subseteq DOMAIN originals'
    <3>1. stack \in Seq(Steps) /\ Len(stack) \in Nat
        BY <2>2, LenProperties DEF TypeInv
    <3>2. /\ Len(stack') = Len(stack) + 1 /\ stack'[Len(stack) + 1] = e
          /\ \A j \in 1..Len(stack) : stack'[j] = stack[j]
        BY <1>2, <2>2, <3>1, AppendProperties
    <3>3. CASE i \in 1..Len(stack)
        BY <2>3, <2>8, <3>2, <3>3
    <3>4. CASE i = Len(stack) + 1
        BY <1>2, <2>4, <2>8, <3>2, <3>4
    <3>5. QED  BY <3>1, <3>2, <3>3, <3>4
  <2>12. QED  BY <2>9, <2>10, <2>11
<1>4. CASE Perform(change) \/ ApplyEdits(change)
    BY <1>4 DEF Perform, ApplyEdits, OriginalsInv
<1>5. QED  BY <1>3, <1>4 DEF BuildResult

LEMMA StackBegins ==
    ASSUME TypeInv, BeginChangeStack
    PROVE  StackInv' /\ OriginalsInv'
<1>1. /\ project' = project /\ stack' = <<>> /\ originals' = <<>> /\ base' = project
    BY DEF BeginChangeStack
<1>2. /\ project.disk \in Disks /\ project.undo \in Seq(Steps)
      /\ Len(project.undo) <= MaxHistory
    BY BoundedUndo DEF TypeInv
<1>3. project.undo \o <<>> = project.undo
    BY <1>2, ConcatEmptySeq
<1>4. Latest(project.undo) = project.undo
    BY <1>2 DEF Latest
<1>5. Leads(<<>>, project.disk, project.disk)
    BY <1>2, LeadsNowhere
<1>6. Len(<<>>) = 0
    OBVIOUS
<1>7. StackInv'
    BY <1>1, <1>3, <1>4, <1>5 DEF StackInv
<1>8. OriginalsInv'
    BY <1>1, <1>6, NothingPart DEF OriginalsInv
<1>9. QED  BY <1>7, <1>8

\* The steps that neither push nor begin: they disturb the stack, take it away,
\* or happen while a call is under way.
LEMMA StackRests ==
    ASSUME TypeInv,
           \/ UNCHANGED <<project, stack, originals, call, base, seen>>
           \/ \E n \in 1..MaxHistory : Undo(n) \/ Redo(n)
           \/ \E op \in {"commit", "rollback"} : Close(op)
           \/ Commit \/ CommitFails \/ Rollback \/ RollbackFails
           \/ BeginTransaction \/ EndTransaction \/ StepFails \/ PushFails
           \/ \E fs \in (SUBSET {f \in Files : Exists(f)}) \ {{}} : Step(fs)
    PROVE  /\ StackInv => StackInv'
           /\ OriginalsInv => OriginalsInv'
<1>1. CASE UNCHANGED <<project, stack, originals, call, base, seen>>
    BY <1>1 DEF StackInv, OriginalsInv
<1>2. SUFFICES ASSUME ~UNCHANGED <<project, stack, originals, call, base, seen>>
               PROVE  call' # Idle \/ stack' = None \/ seen' = "other"
    BY <1>1 DEF StackInv, OriginalsInv
<1>3. CASE \E n \in 1..MaxHistory : Undo(n) \/ Redo(n)
    BY <1>3 DEF Undo, Redo, Disturb
<1>4. CASE \E op \in {"commit", "rollback"} : Close(op)
    BY <1>4 DEF Close, Idle
<1>5. CASE Commit \/ CommitFails \/ Rollback \/ RollbackFails
    BY <1>5 DEF Commit, CommitFails, Rollback, RollbackFails, Closed
<1>6. CASE BeginTransaction
    BY <1>6 DEF BeginTransaction, Idle
<1>7. CASE EndTransaction
    BY <1>7 DEF EndTransaction, TypeInv, history
<1>8. CASE StepFails \/ PushFails
    BY <1>8, AbortedPops DEF StepFails, PushFails, TypeInv
<1>9. CASE \E fs \in (SUBSET {f \in Files : Exists(f)}) \ {{}} : Step(fs)
  <2>1. call'.op = "transaction"
      BY <1>9, StepCall
  <2>2. QED  BY <2>1 DEF Idle
<1>10. QED
    BY <1>2, <1>3, <1>4, <1>5, <1>6, <1>7, <1>8, <1>9

-----------------------------------------------------------------------------
(* Popping it *)

LEMMA PopBack ==
    ASSUME NEW p, Bounded(p), NEW x \in Seq(Steps), NEW s \in Seq(Steps), NEW start,
           p.undo = Latest(x \o s), Leads(s, start, p.disk), Len(s) <= Len(p.undo)
    PROVE  /\ UndoTimes(p, Len(s)).disk = start
           /\ Ends(UndoTimes(p, Len(s)).undo, x)
<1>1. PICK front \in Seq(Steps) : Splits(p.undo, front, s) /\ Ends(front, x)
    BY LatestSplit
<1>2. /\ UndoTimes(p, Len(s)).disk = Onto(Merged(s).old, p.disk)
      /\ UndoTimes(p, Len(s)).undo = front
    BY <1>1, UndoOf
<1>3. Onto(Merged(s).old, p.disk) = start
    BY StepsAreEntries, LeadsMerged
<1>4. QED  BY <1>1, <1>2, <1>3

\* When the history is shorter than the stack, all it has are entries of the stack.
LEMMA PopRest ==
    ASSUME NEW p, Bounded(p), NEW x \in Seq(Steps), NEW s \in Seq(Steps), NEW fs,
           p.undo = Latest(x \o s), Len(s) > Len(p.undo),
           \A i \in 1..Len(s) : DOMAIN s[i].new \subseteq fs
    PROVE  \A f \in Files \ fs : PopAll(p, s).disk[f] = p.disk[f]
<1> DEFINE n == Len(p.undo)
           m == Merged(p.undo)
<1>1. /\ p.disk \in Disks /\ p.undo \in Seq(Steps) /\ p.undo \in Seq(Entries)
      /\ n \in Nat /\ Len(s) \in Nat
    BY BoundedUndo, StepsAreEntries, LenProperties
<1>2. Ends(p.undo, s)
  <2>1. Len(s) >= n
      BY <1>1
  <2>2. QED  BY <2>1, LatestSplit
<1>3. PopAll(p, s) = UndoTimes(p, n)
    BY <1>1 DEF PopAll, CanPopAll
<1>4. <<>> \in Seq(Steps) /\ <<>> \o p.undo = p.undo
    BY <1>1, EmptySeq, ConcatEmptySeq
<1>5. PopAll(p, s).disk = Onto(m.old, p.disk)
  <2>1. PICK front \in Seq(Steps) : Splits(p.undo, front, p.undo)
      BY <1>4, Zenon DEF Splits
  <2>2. UndoTimes(p, n).disk = Onto(m.old, p.disk)
      BY <1>1, <2>1, UndoOf
  <2>3. QED  BY <1>3, <2>2
<1>6. m.old \in Parts /\ DOMAIN m.old = DOMAIN m.new
    BY <1>1, MergedType, EntryType
<1>7. ASSUME NEW f \in DOMAIN m.new PROVE f \in fs
  <2>1. PICK i \in 1..n : f \in DOMAIN p.undo[i].new
      BY <1>1, <1>7, MergedType
  <2>2. Len(s) - n + i \in 1..Len(s) /\ p.undo[i] = s[Len(s) - n + i]
      BY <1>1, <1>2 DEF Ends
  <2>3. QED  BY <2>1, <2>2
<1> HIDE DEF m
<1>8. QED  BY <1>1, <1>5, <1>6, <1>7, OntoDisk

LEMMA ClosePops ==
    ASSUME TypeInv, StackInv, OriginalsInv, NEW op \in {"commit", "rollback"}, Close(op)
    PROVE  ClosingInv'
<1>1. /\ call = Idle /\ stack # None
      /\ call' = [op |-> op, merged |-> Merged(stack), saved |-> originals,
                  popped |-> CanPopAll(project, stack), was |-> project.disk]
      /\ project' = PopAll(project, stack) /\ base' = base /\ seen' = seen
    BY DEF Close
<1>2. /\ call'.merged = Merged(stack) /\ call'.saved = originals
      /\ call'.popped = (Len(stack) <= Len(project.undo)) /\ call'.was = project.disk
    BY <1>1 DEF CanPopAll
<1>3. SUFFICES ASSUME seen # "other" PROVE ClosingInv'
    BY <1>1 DEF ClosingInv
<1>4. /\ Bounded(project) /\ stack \in Seq(Steps) /\ base.undo \in Seq(Steps)
      /\ base.disk \in Disks /\ Len(stack) \in Nat /\ Len(project.undo) \in Nat
      /\ project.undo = Latest(base.undo \o stack)
      /\ Leads(stack, base.disk, project.disk)
    BY <1>1, <1>3, BoundedUndo, LenProperties DEF TypeInv, StackInv
<1>5. ASSUME Len(stack) <= Len(project.undo)
      PROVE  /\ project'.disk = base.disk
             /\ Ends(project'.undo, base.undo)
  <2>1. /\ UndoTimes(project, Len(stack)).disk = base.disk
        /\ Ends(UndoTimes(project, Len(stack)).undo, base.undo)
      BY <1>4, <1>5, PopBack
  <2>2. project' = UndoTimes(project, Len(stack))
      BY <1>1, <1>5 DEF PopAll, CanPopAll
  <2>3. QED  BY <2>1, <2>2
<1>6. /\ Merged(stack).old = [f \in DOMAIN Merged(stack).new |-> base.disk[f]]
      /\ project.disk = Onto(Merged(stack).new, base.disk)
    BY <1>4, StepsAreEntries, LeadsMerged
<1>7. ASSUME seen = "edits"
      PROVE  /\ \A f \in DOMAIN originals : originals[f] = base.disk[f]
             /\ \A f \in Files \ DOMAIN originals : project'.disk[f] = base.disk[f]
  <2>1. /\ \A f \in DOMAIN originals : originals[f] = base.disk[f]
        /\ \A f \in Files \ DOMAIN originals : project.disk[f] = base.disk[f]
        /\ \A i \in 1..Len(stack) : DOMAIN stack[i].new \subseteq DOMAIN originals
      BY <1>1, <1>7 DEF OriginalsInv
  <2>2. CASE Len(stack) <= Len(project.undo)
      BY <1>5, <2>1, <2>2
  <2>3. CASE ~(Len(stack) <= Len(project.undo))
    <3>1. Len(stack) > Len(project.undo)
        BY <1>4, <2>3
    <3>2. \A f \in Files \ DOMAIN originals :
              PopAll(project, stack).disk[f] = project.disk[f]
        BY <1>4, <2>1, <3>1, PopRest
    <3>3. QED  BY <1>1, <2>1, <3>2
  <2>4. QED  BY <2>2, <2>3
<1>8. QED  BY <1>1, <1>2, <1>5, <1>6, <1>7 DEF ClosingInv

LEMMA ClosingStep ==
    ASSUME TypeInv, StackInv, OriginalsInv, ClosingInv, [Next]_vars
    PROVE  ClosingInv'
<1>1. CASE UNCHANGED vars
    BY <1>1 DEF ClosingInv, Closing, vars, history
<1>2. CASE \E op \in {"commit", "rollback"} : Close(op)
    BY <1>2, ClosePops
\* Any other step begins with no call that closes, but for a late worker's.
<1>3. CASE \E change \in late : LateApply(change)
  <2>1. PICK change \in late : LateApply(change)
      BY <1>3
  <2>2. /\ BuildResult(change) /\ change \in Parts /\ DOMAIN change # {}
        /\ call' = IF call.op = "transaction" THEN [call EXCEPT !.alone = FALSE] ELSE call
      BY <2>1 DEF LateApply, TypeInv
  <2>3. CASE Closing
    <3> HIDE DEF BuildResult
    <3>1. stack # None /\ call # Idle
        BY <2>3 DEF TypeInv, Closing, Idle
    <3>2. seen' = "other"
        BY <2>2, <3>1, BuildType
    <3>3. QED  BY <3>2 DEF ClosingInv
  <2>4. CASE ~Closing
    <3>1. call'.op = call.op
        BY <2>2 DEF TypeInv, CallStates, Idle
    <3>2. QED  BY <2>4, <3>1 DEF ClosingInv, Closing
  <2>5. QED  BY <2>3, <2>4
<1>4. CASE \/ \E change \in Changes : Refactor(change) \/ TimeOut(change)
           \/ \E n \in 1..MaxHistory : Undo(n) \/ Redo(n)
           \/ BeginChangeStack
  <2>1. call' = Idle
      BY <1>4 DEF Refactor, TimeOut, Undo, Redo, BeginChangeStack
  <2>2. QED  BY <2>1 DEF ClosingInv, Closing, Idle
<1>5. CASE Commit \/ CommitFails \/ Rollback \/ RollbackFails \/ EndTransaction
           \/ StepFails \/ PushFails
  <2>1. call' = Idle
      BY <1>5, AbortedPops DEF Commit, CommitFails, Rollback, RollbackFails, Closed,
                               EndTransaction
  <2>2. QED  BY <2>1 DEF ClosingInv, Closing, Idle
<1>6. CASE BeginTransaction
    BY <1>6 DEF BeginTransaction, ClosingInv, Closing
<1>7. CASE \E fs \in (SUBSET {f \in Files : Exists(f)}) \ {{}} : Step(fs)
  <2>1. call'.op = "transaction"
      BY <1>7, StepCall
  <2>2. QED  BY <2>1 DEF ClosingInv, Closing
<1>8. QED
    BY <1>1, <1>2, <1>3, <1>4, <1>5, <1>6, <1>7 DEF Next

LEMMA StackStep ==
    ASSUME TypeInv, StackInv, OriginalsInv, [Next]_vars
    PROVE  StackInv' /\ OriginalsInv'
<1>1. CASE UNCHANGED vars
    BY <1>1, StackRests DEF vars, history
<1>2. ASSUME NEW change \in Changes, Refactor(change)
      PROVE  StackInv' /\ OriginalsInv'
  <2>1. /\ fresh <= MaxChanges /\ BuildResult(change) /\ call = Idle /\ base' = base
      BY <1>2 DEF Refactor
  <2> HIDE DEF BuildResult
  <2>2. QED  BY <2>1, ChangeType, StackBuild, OriginalsBuild
<1>3. ASSUME NEW change \in Changes, TimeOut(change)
      PROVE  StackInv' /\ OriginalsInv'
    BY <1>3, StackRests DEF TimeOut, history
<1>4. ASSUME NEW change \in late, LateApply(change)
      PROVE  StackInv' /\ OriginalsInv'
  <2>1. /\ change \in Parts /\ DOMAIN change # {} /\ BuildResult(change) /\ base' = base
        /\ call' = IF call.op = "transaction" THEN [call EXCEPT !.alone = FALSE] ELSE call
      BY <1>4 DEF LateApply, TypeInv
  <2>2. CASE call = Idle
    <3> HIDE DEF BuildResult
    <3>1. QED  BY <2>1, <2>2, StackBuild, OriginalsBuild
  <2>3. CASE call # Idle
    <3>1. call' # Idle
        BY <2>1, <2>3 DEF TypeInv, CallStates, Idle
    <3>2. QED  BY <3>1 DEF StackInv, OriginalsInv
  <2>4. QED  BY <2>2, <2>3
<1>5. CASE BeginChangeStack
    BY <1>5, StackBegins
<1>6. CASE \/ \E n \in 1..MaxHistory : Undo(n) \/ Redo(n)
           \/ \E op \in {"commit", "rollback"} : Close(op)
           \/ Commit \/ CommitFails \/ Rollback \/ RollbackFails
           \/ BeginTransaction \/ EndTransaction \/ StepFails \/ PushFails
           \/ \E fs \in (SUBSET {f \in Files : Exists(f)}) \ {{}} : Step(fs)
    BY <1>6, StackRests
<1>7. QED
    BY <1>1, <1>2, <1>3, <1>4, <1>5, <1>6 DEF Next

-----------------------------------------------------------------------------
(* Transactions *)

LEMMA TransactionBegins ==
    ASSUME TypeInv, BeginTransaction
    PROVE  TransactionInv'
<1>1. /\ project' = project /\ call'.pushed = <<>> /\ call'.start = project.disk
    BY DEF BeginTransaction
<1>2. /\ project.disk \in Disks /\ project.undo \in Seq(Steps)
      /\ Len(project.undo) <= MaxHistory
    BY BoundedUndo DEF TypeInv
<1>3. Latest(project.undo \o <<>>) = project.undo
  <2>1. project.undo \o <<>> = project.undo
      BY <1>2, ConcatEmptySeq
  <2>2. Latest(project.undo) = project.undo
      BY <1>2 DEF Latest
  <2>3. QED  BY <2>1, <2>2
<1>4. Leads(<<>>, project.disk, project.disk)
    BY <1>2, LeadsNowhere
<1>5. Recent(<<>>, project.undo)
    BY <1>2, <1>3 DEF Recent
<1>6. QED  BY <1>1, <1>4, <1>5 DEF TransactionInv

LEMMA TransactionGrows ==
    ASSUME TypeInv, TransactionInv,
           NEW fs \in (SUBSET {f \in Files : Exists(f)}) \ {{}}, Step(fs)
    PROVE  TransactionInv'
<1> DEFINE e == Entry(Edit(fs), project.disk)
<1>1. e \in Steps /\ e.old = [f \in DOMAIN e.new |-> project.disk[f]]
    BY StepEntry
<1>2. /\ project' = Do(project, e) /\ call'.pushed = Append(call.pushed, e)
      /\ call'.start = call.start /\ call'.alone = call.alone
      /\ call.op = "transaction" /\ call.pushed \in Seq(Steps)
    BY StepCall
<1> HIDE DEF e
<1>3. SUFFICES ASSUME call.alone PROVE TransactionInv'
    BY <1>2 DEF TransactionInv
<1>4. Leads(call.pushed, call.start, project.disk)
    BY <1>2, <1>3 DEF TransactionInv
<1>5. PICK x \in Seq(Steps) : project.undo = Latest(x \o call.pushed)
    BY <1>2, <1>3 DEF TransactionInv, Recent
<1>6. /\ Do(project, e).undo = Latest(x \o Append(call.pushed, e))
      /\ Leads(Append(call.pushed, e), call.start, Do(project, e).disk)
    BY <1>1, <1>2, <1>4, <1>5, StackPushed DEF TypeInv
<1>7. QED  BY <1>2, <1>6 DEF TransactionInv, Recent

LEMMA TransactionStep ==
    ASSUME TypeInv, TransactionInv, [Next]_vars
    PROVE  TransactionInv'
<1>1. CASE UNCHANGED vars
    BY <1>1 DEF TransactionInv, vars, history
<1>2. CASE BeginTransaction
    BY <1>2, TransactionBegins
<1>3. CASE \E fs \in (SUBSET {f \in Files : Exists(f)}) \ {{}} : Step(fs)
    BY <1>3, TransactionGrows
<1>4. CASE \E change \in late : LateApply(change)
  <2>1. call' = IF call.op = "transaction" THEN [call EXCEPT !.alone = FALSE] ELSE call
      BY <1>4 DEF LateApply
  <2>2. call'.op = "transaction" => ~call'.alone
      BY <2>1 DEF TypeInv, CallStates, Idle
  <2>3. QED  BY <2>2 DEF TransactionInv
<1>5. CASE \/ \E change \in Changes : Refactor(change) \/ TimeOut(change)
           \/ \E n \in 1..MaxHistory : Undo(n) \/ Redo(n)
           \/ BeginChangeStack
           \/ \E op \in {"commit", "rollback"} : Close(op)
  <2>1. call' = Idle \/ Closing'
      BY <1>5 DEF Refactor, TimeOut, Undo, Redo, BeginChangeStack, Close, Closing
  <2>2. QED  BY <2>1 DEF TransactionInv, Closing, Idle
<1>6. CASE Commit \/ CommitFails \/ Rollback \/ RollbackFails \/ EndTransaction
           \/ StepFails \/ PushFails
  <2>1. call' = Idle
      BY <1>6, AbortedPops DEF Commit, CommitFails, Rollback, RollbackFails, Closed,
                               EndTransaction
  <2>2. QED  BY <2>1 DEF TransactionInv, Idle
<1>7. QED
    BY <1>1, <1>2, <1>3, <1>4, <1>5, <1>6 DEF Next

-----------------------------------------------------------------------------
(* The theorems *)

LEMMA EndsSuffix ==
    ASSUME NEW S, NEW s \in Seq(S), NEW t \in Seq(S), Ends(s, t)
    PROVE  IsSuffix(s, t)
<1> DEFINE m == Len(s)
           n == Len(t)
           x == Reverse(s)
           y == Reverse(t)
<1>1. /\ m \in Nat /\ n \in Nat /\ m <= n
      /\ \A i \in 1..m : s[i] = t[n - m + i]
    BY LenProperties DEF Ends
<1>2. /\ x \in Seq(S) /\ Len(x) = m /\ \A i \in 1..m : x[i] = s[m - i + 1]
      /\ y \in Seq(S) /\ Len(y) = n /\ \A i \in 1..n : y[i] = t[n - i + 1]
    BY Reversed
<1> HIDE DEF m, n, x, y
<1>3. ASSUME NEW z \in Seq(S), m <= Len(z)
      PROVE  /\ SubSeq(z, 1, m) \in Seq(S) /\ Len(SubSeq(z, 1, m)) = m
             /\ \A i \in 1..m : SubSeq(z, 1, m)[i] = z[i]
  <2>1. 1 \in Nat /\ 1 <= 1 /\ 1 <= m + 1 /\ m - 1 + 1 = m
        /\ \A i \in 1..m : 1 + i - 1 = i
      BY <1>1
  <2>2. QED  BY <1>1, <1>3, <2>1, Slice
<1>4. ASSUME NEW i \in 1..m PROVE x[i] = y[i]
  <2>1. m - i + 1 \in 1..m /\ n - m + (m - i + 1) = n - i + 1 /\ i \in 1..n
      BY <1>1
  <2>2. x[i] = s[m - i + 1] /\ s[m - i + 1] = t[n - m + (m - i + 1)]
      BY <1>1, <1>2, <2>1
  <2>3. y[i] = t[n - i + 1]
      BY <1>2, <2>1
  <2>4. QED  BY <2>1, <2>2, <2>3
<1>5. /\ SubSeq(x, 1, m) \in Seq(S) /\ Len(SubSeq(x, 1, m)) = m
      /\ \A i \in 1..m : SubSeq(x, 1, m)[i] = x[i]
  <2>1. m <= Len(x)
      BY <1>1, <1>2
  <2>2. QED  BY <1>2, <1>3, <2>1
<1>6. /\ SubSeq(y, 1, m) \in Seq(S) /\ Len(SubSeq(y, 1, m)) = m
      /\ \A i \in 1..m : SubSeq(y, 1, m)[i] = y[i]
    BY <1>1, <1>2, <1>3
<1>7. SubSeq(x, 1, m) = SubSeq(y, 1, m)
    BY <1>4, <1>5, <1>6, SeqEqual
<1>8. IsPrefix(x, y)
    BY <1>1, <1>2, <1>7 DEF IsPrefix
<1>9. QED  BY <1>8 DEF IsSuffix, x, y

LEMMA EndsThrough ==
    ASSUME NEW S, NEW r \in Seq(S), NEW s \in Seq(S), NEW t \in Seq(S),
           Ends(r, s), Ends(s, t)
    PROVE  Ends(r, t)
<1> DEFINE l == Len(r)
           m == Len(s)
           n == Len(t)
<1>1. /\ l \in Nat /\ m \in Nat /\ n \in Nat /\ l <= m /\ m <= n
      /\ \A i \in 1..l : r[i] = s[m - l + i]
      /\ \A i \in 1..m : s[i] = t[n - m + i]
    BY LenProperties DEF Ends
<1> HIDE DEF l, m, n
<1>2. ASSUME NEW i \in 1..l PROVE r[i] = t[n - l + i]
  <2>1. m - l + i \in 1..m /\ n - m + (m - l + i) = n - l + i
      BY <1>1
  <2>2. QED  BY <1>1, <2>1
<1>3. l <= n
    BY <1>1
<1>4. QED  BY <1>2, <1>3 DEF Ends, l, n

LEMMA IInvInit == Init => IInv
<1> SUFFICES ASSUME Init PROVE IInv
    OBVIOUS
<1>1. stack = None /\ call.op = "none"
    BY DEF Init, Idle
<1>2. StackInv /\ OriginalsInv /\ ClosingInv /\ TransactionInv
    BY <1>1 DEF StackInv, OriginalsInv, ClosingInv, Closing, TransactionInv
<1>3. QED  BY <1>2, InitType, HistoryInit DEF IInv

LEMMA IInvStep == IInv /\ [Next]_vars => IInv'
<1> SUFFICES ASSUME IInv, [Next]_vars PROVE IInv'
    OBVIOUS
<1>1. TypeInv /\ StackInv /\ OriginalsInv /\ ClosingInv /\ TransactionInv /\ HistoryInv
    BY DEF IInv
<1>2. TypeInv' /\ StackInv' /\ OriginalsInv' /\ ClosingInv'
    BY <1>1, TypeStep, StackStep, ClosingStep
<1>3. TransactionInv' /\ HistoryInv'
    BY <1>1, TransactionStep, HistoryStep
<1>4. QED  BY <1>2, <1>3 DEF IInv

LEMMA LatestSuffix ==
    ASSUME NEW x \in Seq(Steps), NEW s \in Seq(Steps), NEW u, u = Latest(x \o s)
    PROVE  \/ IsSuffix(s, u)
           \/ IsSuffix(u, s) /\ Len(u) = MaxHistory
<1> DEFINE w == x \o s
<1>1. /\ w \in Seq(Steps) /\ Len(w) = Len(x) + Len(s) /\ u = Latest(w)
      /\ Len(x) \in Nat /\ Len(s) \in Nat /\ Len(w) \in Nat
    BY Joined, LenProperties
<1>2. u \in Seq(Steps) /\ Len(u) \in Nat
  <2> HIDE DEF w
  <2>1. QED  BY <1>1, LatestEnds
<1>3. CASE Len(s) <= Len(u)
  <2>1. PICK front \in Seq(Steps) : Splits(u, front, s)
      BY <1>3, LatestSplit
  <2>2. /\ Len(u) = Len(front) + Len(s) /\ Len(front) \in Nat
        /\ \A i \in 1..Len(s) : u[Len(front) + i] = s[i]
      BY <2>1, Splitting
  <2>3. Ends(s, u)
    <3>1. Len(u) - Len(s) = Len(front)
        BY <1>1, <2>2
    <3>2. QED  BY <1>3, <2>2, <3>1 DEF Ends
  <2>4. QED  BY <1>2, <2>3, EndsSuffix
<1>4. CASE ~(Len(s) <= Len(u))
  <2>1. Len(s) >= Len(u)
      BY <1>1, <1>2, <1>4
  <2>2. Ends(u, s)
      BY <2>1, LatestSplit
  <2> HIDE DEF w
  <2>3. Len(w) > MaxHistory
    <3>1. Len(w) <= MaxHistory => u = w
        BY <1>1 DEF Latest
    <3>2. u # w
        BY <1>1, <1>4
    <3>3. QED  BY <1>1, <3>1, <3>2, ConstantsAssumption
  <2>4. Len(u) = MaxHistory
      BY <1>1, <2>3, LatestEnds
  <2>5. QED  BY <1>2, <2>2, <2>4, EndsSuffix
<1>5. QED  BY <1>3, <1>4

LEMMA StackIsSuffix ==
    ASSUME TypeInv, StackInv
    PROVE  StackEndsHistory
<1> SUFFICES ASSUME stack # None, call = Idle, seen # "other"
             PROVE  \/ IsSuffix(stack, project.undo)
                    \/ IsSuffix(project.undo, stack) /\ Len(project.undo) = MaxHistory
    BY DEF StackEndsHistory
<1>1. /\ stack \in Seq(Steps) /\ base.undo \in Seq(Steps)
      /\ project.undo = Latest(base.undo \o stack)
    BY BoundedUndo DEF TypeInv, StackInv
<1>2. QED  BY <1>1, LatestSuffix

\* An open change stack is the end of the history, or the whole history is the
\* end of the stack, after any sequence of pushes (rope_backend.py:1453-1534).
THEOREM StackEndsHistoryAlways == Spec => []StackEndsHistory
<1>1. IInv => StackEndsHistory
    BY StackIsSuffix DEF IInv
<1>2. QED  BY <1>1, IInvInit, IInvStep, PTL DEF Spec

\* Undo and redo undo each other's effect, n entries at a time, as long as all
\* writes went through the history.
THEOREM UndoRedoInverseAlways == Spec => []UndoRedoInverse
<1>1. ASSUME TypeInv, HistoryInv PROVE UndoRedoInverse
  <2>1. SUFFICES ASSUME ~loose
                 PROVE  /\ \A n \in 1..Len(project.undo) :
                               RedoTimes(UndoTimes(project, n), n) = project
                        /\ \A n \in 1..Len(project.redo) :
                               UndoTimes(RedoTimes(project, n), n) = project
      BY DEF UndoRedoInverse
  <2>2. /\ Bounded(project) /\ Timeline(project)
        /\ Len(project.undo) \in Nat /\ Len(project.redo) \in Nat
      BY <1>1, <2>1, ProjectType DEF TypeInv, HistoryInv, Bounded
  <2>3. ASSUME NEW n \in 1..Len(project.undo)
        PROVE  RedoTimes(UndoTimes(project, n), n) = project
    <3>1. n \in 0..Len(project.undo)
        BY <2>2
    <3>2. QED  BY <2>2, <3>1, UndoBack
  <2>4. ASSUME NEW n \in 1..Len(project.redo)
        PROVE  UndoTimes(RedoTimes(project, n), n) = project
    <3>1. n \in 0..Len(project.redo)
        BY <2>2
    <3>2. QED  BY <2>2, <3>1, RedoForth
  <2>5. QED  BY <2>3, <2>4
<1>2. IInv => UndoRedoInverse
    BY <1>1 DEF IInv
<1>3. QED  BY <1>2, IInvInit, IInvStep, PTL DEF Spec

LEMMA CommitMerges ==
    ASSUME TypeInv, ClosingInv, Commit, seen # "other"
    PROVE  /\ project'.disk = call.was
           /\ DOMAIN call.merged.new # {} =>
                 /\ UndoTimes(project', 1).disk = base.disk
                 /\ IsSuffix(UndoTimes(project', 1).undo, base.undo)
<1> DEFINE m == call.merged
<1>1. Closing /\ call.popped /\ project' = Do(project, m)
    BY DEF Commit, Closing
<1>2. /\ Bounded(project) /\ Bounded(base) /\ m \in Entries
    BY <1>1, CallCases DEF TypeInv
<1>3. /\ project.disk = base.disk /\ Ends(project.undo, base.undo)
      /\ m.old = [f \in DOMAIN m.new |-> base.disk[f]]
      /\ call.was = Onto(m.new, base.disk)
    BY <1>1 DEF ClosingInv
<1>4. /\ base.disk \in Disks /\ base.undo \in Seq(Steps)
      /\ project.undo \in Seq(Steps)
    BY <1>2, BoundedUndo
<1> HIDE DEF m
<1>5. /\ Bounded(project') /\ project'.disk = Onto(m.new, base.disk)
      /\ DOMAIN m.new # {} => project'.undo = Latest(Append(project.undo, m))
    BY <1>1, <1>2, <1>3, DoType
<1>6. ASSUME DOMAIN m.new # {}
      PROVE  /\ UndoTimes(project', 1).disk = base.disk
             /\ IsSuffix(UndoTimes(project', 1).undo, base.undo)
  <2> DEFINE one == <<m>>
  <2>1. m \in Steps /\ one \in Seq(Steps) /\ Len(one) = 1 /\ one = Append(<<>>, m)
      BY <1>2, <1>6 DEF Steps
  <2>2. project'.undo = Latest(project.undo \o one)
    <3>1. Append(project.undo, m) = project.undo \o one
        BY <1>4, <2>1, AppendIsConcat
    <3>2. QED  BY <1>5, <1>6, <3>1
  <2>3. Leads(one, base.disk, project'.disk)
    <3>1. Leads(<<>>, base.disk, base.disk) /\ <<>> \in Seq(Entries)
        BY <1>4, LeadsNowhere, EmptySeq
    <3>2. Leads(Append(<<>>, m), base.disk, Onto(m.new, base.disk))
        BY <1>2, <1>3, <3>1, LeadsOn
    <3>3. QED  BY <1>5, <2>1, <3>2
  <2> HIDE DEF one
  <2>4. Len(one) <= Len(project'.undo)
    <3> DEFINE w == Append(project.undo, m)
    <3>1. w \in Seq(Steps) /\ Len(w) = Len(project.undo) + 1 /\ Len(project.undo) \in Nat
        BY <1>4, <2>1, AppendProperties, LenProperties
    <3> HIDE DEF w
    <3>2. Len(w) \in Nat /\ Len(w) >= 1 /\ project'.undo = Latest(w)
        BY <1>5, <1>6, <3>1 DEF w
    <3>3. Len(Latest(w)) >= 1
        BY <3>1, <3>2, LatestEnds, ConstantsAssumption
    <3>4. QED  BY <2>1, <3>2, <3>3
  <2>5. /\ UndoTimes(project', Len(one)).disk = base.disk
        /\ Ends(UndoTimes(project', Len(one)).undo, project.undo)
    <3> HIDE DEF m
    <3>1. /\ Bounded(project') /\ project.undo \in Seq(Steps) /\ one \in Seq(Steps)
        BY <1>4, <1>5, <2>1
    <3>2. QED  BY ONLY <2>2, <2>3, <2>4, <3>1, PopBack
  <2>6. UndoTimes(project', 1).undo \in Seq(Steps)
    <3>1. 1 \in 0..Len(project'.undo)
        BY <1>5, <2>1, <2>4, BoundedUndo
    <3>2. Bounded(UndoTimes(project', 1))
        BY <1>5, <3>1, UndoBack
    <3>3. QED  BY <3>2, BoundedUndo
  <2>7. Ends(UndoTimes(project', 1).undo, base.undo)
      BY <1>3, <1>4, <2>1, <2>5, <2>6, EndsThrough
  <2>8. QED  BY <1>4, <2>1, <2>5, <2>6, <2>7, EndsSuffix
<1>7. QED  BY <1>3, <1>5, <1>6 DEF m

LEMMA AbortPops ==
    ASSUME TypeInv, TransactionInv, StepFails, CanPopAll(project, call.pushed), call.alone
    PROVE  project'.disk = call.start
<1>1. /\ call.op = "transaction" /\ project' = PopAll(project, call.pushed)
      /\ Len(call.pushed) <= Len(project.undo)
    BY DEF StepFails, Abort, CanPopAll
<1>2. project' = UndoTimes(project, Len(call.pushed))
    BY <1>1 DEF PopAll, CanPopAll
<1>3. call.pushed \in Seq(Steps) /\ Bounded(project)
    BY <1>1, CallCases DEF TypeInv
<1>4. Leads(call.pushed, call.start, project.disk)
    BY <1>1 DEF TransactionInv
<1>5. PICK x \in Seq(Steps) : project.undo = Latest(x \o call.pushed)
    BY <1>1 DEF TransactionInv, Recent
<1>6. QED  BY <1>1, <1>2, <1>3, <1>4, <1>5, PopBack

\* A change stack ends with all of its edits, as one entry that undoes them, or
\* with none, and a transaction whose step fails with none
\* (rope_backend.py:1453-1534, 1652-1720).
THEOREM AllOrNothingAlways == Spec => AllOrNothing
<1>1. ASSUME IInv, [Next]_vars
      PROVE  [RollbackRestores /\ CommitCollapses /\ FailedCommitRestores
                /\ AbortRestores]_vars
  <2>1. TypeInv /\ ClosingInv /\ TransactionInv
      BY <1>1 DEF IInv
  <2>2. RollbackRestores
    <3>1. SUFFICES ASSUME Rollback, seen = "edits" PROVE project'.disk = base.disk
        BY DEF RollbackRestores
    <3>2. Closing /\ project' = Write(call.saved)
        BY <3>1 DEF Rollback, Closing
    <3>3. QED  BY <2>1, <3>1, <3>2, SavedIsThere
  <2>3. CommitCollapses
      BY <2>1, CommitMerges DEF CommitCollapses
  <2>4. FailedCommitRestores
    <3>1. SUFFICES ASSUME call.op = "commit", CommitFails, seen = "edits"
                   PROVE  project'.disk = base.disk
        BY DEF FailedCommitRestores
    <3>2. Closing /\ project' = Write(call.saved)
        BY <3>1 DEF CommitFails, Closing
    <3>3. QED  BY <2>1, <3>1, <3>2, SavedIsThere
  <2>5. AbortRestores
      BY <2>1, AbortPops DEF AbortRestores
  <2>6. QED  BY <2>2, <2>3, <2>4, <2>5
<1>2. QED  BY <1>1, IInvInit, IInvStep, PTL DEF Spec, AllOrNothing
=============================================================================
