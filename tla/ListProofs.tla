----------------------------- MODULE ListProofs -----------------------------
(***************************************************************************)
(* What several proofs use of lists: the queue of a lock keeps its members *)
(* distinct, and nobody is in it who did not join; sorting, choosing from  *)
(* and clearing a list, its parts and its pages.                           *)
(***************************************************************************)
EXTENDS LockQueue, Lists, SequencesExt, FiniteSetTheorems, SequenceTheorems,
        WellFoundedInduction, TLAPS
-----------------------------------------------------------------------------
(* The queue of a lock *)

\* A task that is not in the queue joins.
LEMMA JoinQueue ==
    ASSUME NEW S, NEW q \in Seq(S), IsInjective(q), NEW s \in S, s \notin Range(q)
    PROVE  /\ Append(q, s) \in Seq(S)
           /\ IsInjective(Append(q, s))
           /\ Range(Append(q, s)) = Range(q) \cup {s}
           /\ Append(q, s) # <<>>
           /\ q # <<>> => Head(Append(q, s)) = Head(q)
           /\ q = <<>> => Head(Append(q, s)) = s
<1>1. /\ Append(q, s) \in Seq(S) /\ Append(q, s) # <<>>
      /\ Len(Append(q, s)) = Len(q) + 1 /\ Len(q) \in Nat
      /\ \A i \in 1..Len(q) : Append(q, s)[i] = q[i]
      /\ Append(q, s)[Len(q) + 1] = s
      /\ DOMAIN q = 1..Len(q) /\ DOMAIN Append(q, s) = 1..(Len(q) + 1)
    BY AppendProperties, LenProperties
<1>2. \A i \in 1..Len(q) : q[i] # s
    BY <1>1 DEF Range
<1>3. IsInjective(Append(q, s))
    BY <1>1, <1>2 DEF IsInjective
<1>4. Range(Append(q, s)) = Range(q) \cup {s}
    BY <1>1 DEF Range
<1>5. QED  BY <1>1, <1>3, <1>4, HeadTailAppend

\* The holder releases the lock.
LEMMA ReleaseQueue ==
    ASSUME NEW S, NEW q \in Seq(S), IsInjective(q), q # <<>>
    PROVE  /\ Head(q) \in S /\ Tail(q) \in Seq(S)
           /\ IsInjective(Tail(q))
           /\ Head(q) \in Range(q)
           /\ Range(Tail(q)) = Range(q) \ {Head(q)}
<1>1. /\ Head(q) \in S /\ Tail(q) \in Seq(S) /\ Len(Tail(q)) = Len(q) - 1
      /\ \A i \in 1..Len(Tail(q)) : Tail(q)[i] = q[i + 1]
      /\ Len(q) \in Nat \ {0} /\ Head(q) = q[1]
      /\ DOMAIN q = 1..Len(q) /\ DOMAIN Tail(q) = 1..Len(Tail(q))
    BY HeadTailProperties, EmptySeq, LenProperties
<1>2. \A i \in 1..Len(Tail(q)) : i + 1 \in 1..Len(q) /\ i + 1 # 1
    BY <1>1
<1>3. IsInjective(Tail(q))
    BY <1>1, <1>2 DEF IsInjective
<1>4. Range(Tail(q)) \subseteq Range(q) \ {Head(q)}
    BY <1>1, <1>2 DEF IsInjective, Range
<1>5. ASSUME NEW i \in 1..Len(q), q[i] # Head(q)
      PROVE  q[i] \in Range(Tail(q))
  <2>1. i - 1 \in 1..Len(Tail(q)) /\ Tail(q)[i - 1] = q[i]
      BY <1>1, <1>5
  <2>2. QED  BY <1>1, <2>1 DEF Range
<1>6. Range(q) \ {Head(q)} \subseteq Range(Tail(q))
    BY <1>1, <1>5 DEF Range
<1>7. Head(q) \in Range(q)
    BY <1>1 DEF Range
<1>8. QED  BY <1>1, <1>3, <1>4, <1>6, <1>7

\* A task leaves the queue, or was not in it.
LEMMA LeaveQueue ==
    ASSUME NEW S, NEW q \in Seq(S), IsInjective(q), NEW s
    PROVE  /\ Without(q, s) \in Seq(S)
           /\ IsInjective(Without(q, s))
           /\ Range(Without(q, s)) = Range(q) \ {s}
           /\ q # <<>> /\ Head(q) # s => Without(q, s) # <<>> /\ Head(Without(q, s)) = Head(q)
<1>1. Len(q) \in Nat /\ DOMAIN q = 1..Len(q)
    BY LenProperties
<1>2. CASE s \notin Range(q)
    BY <1>1, <1>2 DEF Without
<1>3. CASE s \in Range(q)
  <2> DEFINE i == CHOOSE i \in DOMAIN q : q[i] = s
             n == Len(q) - 1
             f(j) == IF j < i THEN q[j] ELSE q[j + 1]
             p == [j \in 1..n |-> f(j)]
  <2>1. i \in 1..Len(q) /\ q[i] = s
      BY <1>1, <1>3 DEF Range
  <2>2. n \in Nat
      BY <1>1, <2>1
  <2>3. Without(q, s) = p
      BY <1>3 DEF Without
  <2> HIDE DEF i
  <2>4. \A j \in 1..n : f(j) \in S
      BY <1>1, <2>1, <2>2, ElementOfSeq
  <2>5. p \in Seq(S) /\ DOMAIN p = 1..n /\ Len(p) = n
      BY <2>2, <2>4, IsASeq
  <2>6. \A j \in 1..n : \E k \in 1..Len(q) :
            k = (IF j < i THEN j ELSE j + 1) /\ k # i /\ p[j] = q[k]
      BY <1>1, <2>1, <2>2
  <2>7. IsInjective(p)
      BY <1>1, <2>1, <2>2, <2>5, <2>6 DEF IsInjective
  <2>8. Range(p) \subseteq Range(q) \ {s}
      BY <1>1, <2>1, <2>5, <2>6 DEF IsInjective, Range
  <2>9. ASSUME NEW k \in 1..Len(q), k # i
        PROVE  \E j \in 1..n : p[j] = q[k]
    <3>1. CASE k < i
        BY <1>1, <2>1, <2>9, <3>1
    <3>2. CASE k > i
      <4>1. k - 1 \in 1..n /\ ~(k - 1 < i) /\ (k - 1) + 1 = k
          BY <1>1, <2>1, <3>2
      <4>2. QED  BY <4>1
    <3>3. QED  BY <2>1, <2>9, <3>1, <3>2
  <2>10. Range(q) \ {s} \subseteq Range(p)
      BY <1>1, <2>1, <2>5, <2>9 DEF Range
  <2>11. ASSUME Head(q) # s
         PROVE  p # <<>> /\ Head(p) = Head(q)
    <3>1. Head(q) = q[1] /\ i # 1
        BY <1>1, <2>1, <2>11
    <3>2. 1 \in 1..n /\ p[1] = q[1]
        BY <1>1, <2>1, <3>1
    <3>3. p # <<>>
      <4>1. Len(p) # 0 /\ Len(<<>>) = 0
          BY <2>2, <2>5, <3>2, EmptySeq
      <4>2. QED  BY <4>1
    <3>4. Head(p) = p[1]
        BY <2>5, <3>3
    <3>5. QED  BY <3>1, <3>2, <3>3, <3>4
  <2>12. QED  BY <2>3, <2>5, <2>7, <2>8, <2>10, <2>11
<1>4. QED  BY <1>2, <1>3

-----------------------------------------------------------------------------
(* Lists *)

\* A function on 1..n is a list of n items.
LEMMA FunctionIsSeq ==
    ASSUME NEW S, NEW n \in Nat, NEW f \in [1..n -> S]
    PROVE  f \in Seq(S) /\ Len(f) = n /\ DOMAIN f = 1..n
<1>1. f \in Seq(S)
    BY SeqDef
<1>2. Len(f) \in Nat /\ DOMAIN f = 1..Len(f)
    BY <1>1, LenProperties
<1>3. DOMAIN f = 1..n
    OBVIOUS
<1>4. Len(f) = n
  <2>1. \A i \in Int : i \in 1..n <=> i \in 1..Len(f)
      BY <1>2, <1>3
  <2>2. 1 <= n => n <= Len(f)
      BY <1>2, <2>1
  <2>3. 1 <= Len(f) => Len(f) <= n
      BY <1>2, <2>1
  <2>4. QED  BY <1>2, <2>2, <2>3
<1>5. QED  BY <1>1, <1>3, <1>4

\* The places of a list.
LEMMA Places ==
    ASSUME NEW n \in Nat
    PROVE  IsFiniteSet(1..n) /\ Cardinality(1..n) = n
BY FS_Interval

\* A nonempty set of numbers has a least one.
LEMMA LeastNumber ==
    ASSUME NEW I, I \subseteq Nat, I # {}
    PROVE  \E k \in I : \A j \in I : k <= j
<1> DEFINE below == OpToRel(<, Nat)
<1>1. \A i, j \in Nat : j < i => <<j, i>> \in below
    BY DEF OpToRel
<1>2. IsWellFoundedOn(below, Nat)
    BY NatLessThanWellFounded
<1> HIDE DEF below
<1>3. PICK k \in I : \A j \in I : <<j, k>> \notin below
    BY <1>2, WFMin
<1>4. \A j \in I : ~(j < k)
    BY <1>1, <1>3
<1>5. QED  BY <1>4

\* The members of a finite set of numbers, each once and in order.
LEMMA AscendingLists ==
    ASSUME NEW S \in SUBSET Nat, IsFiniteSet(S)
    PROVE  /\ Ascending(S) \in [1..Cardinality(S) -> S]
           /\ Cardinality(S) \in Nat
           /\ \A j, k \in 1..Cardinality(S) : j < k => Ascending(S)[j] < Ascending(S)[k]
           /\ \A x \in S : \E k \in 1..Cardinality(S) : Ascending(S)[k] = x
<1> DEFINE upto(x) == {y \in S : y <= x}
           n == Cardinality(S)
           rank == [x \in S |-> Cardinality(upto(x))]
<1>1. n \in Nat
    BY FS_CardinalityType
<1>2. ASSUME NEW x \in S
      PROVE  IsFiniteSet(upto(x)) /\ Cardinality(upto(x)) \in 1..n
  <2>1. IsFiniteSet(upto(x)) /\ Cardinality(upto(x)) <= n
      BY FS_Subset
  <2>2. x \in upto(x)
      OBVIOUS
  <2>3. Cardinality(upto(x)) \in Nat /\ Cardinality(upto(x)) # 0
      BY <2>1, <2>2, FS_CardinalityType, FS_EmptySet
  <2>4. QED  BY <1>1, <2>1, <2>3
<1>3. ASSUME NEW x \in S, NEW y \in S, x < y
      PROVE  Cardinality(upto(x)) < Cardinality(upto(y))
  <2>1. upto(x) \in SUBSET upto(y) /\ upto(x) # upto(y)
    <3>1. y \in upto(y) /\ y \notin upto(x)
        BY <1>3
    <3>2. \A z \in S : z <= x => z <= y
        BY <1>3
    <3>3. QED  BY <3>1, <3>2
  <2>2. Cardinality(upto(x)) <= Cardinality(upto(y)) /\ Cardinality(upto(x)) # Cardinality(upto(y))
      BY <1>2, <2>1, FS_Subset
  <2>3. QED  BY <1>1, <1>2, <2>2
<1>4. rank \in [S -> 1..n] /\ \A x \in S : rank[x] = Cardinality(upto(x))
    BY <1>2
<1>5. \A x, y \in S : x < y => rank[x] < rank[y]
    BY <1>3, <1>4
<1> HIDE DEF rank, n
<1>6. rank \in Injection(S, 1..n)
  <2>1. \A x, y \in S : rank[x] = rank[y] => x = y
    <3>1. \A x, y \in S : x \in Nat /\ y \in Nat /\ rank[x] \in Int /\ rank[y] \in Int
        BY <1>1, <1>4
    <3>2. QED  BY <1>5, <3>1
  <2>2. QED  BY <1>4, <2>1 DEF Injection, IsInjective
<1>7. IsFiniteSet(1..n) /\ Cardinality(1..n) = n
    BY <1>1, FS_Interval
<1>8. rank \in Surjection(S, 1..n)
    BY <1>6, <1>7, FS_Injection DEF n
<1>9. ASSUME NEW k \in 1..n
      PROVE  /\ Ascending(S)[k] \in S
             /\ rank[Ascending(S)[k]] = k
  <2>1. PICK x \in S : rank[x] = k
      BY <1>8 DEF Surjection
  <2>2. Cardinality(upto(x)) = k
      BY <1>4, <2>1
  <2>3. Ascending(S)[k] = CHOOSE y \in S : Cardinality(upto(y)) = k
      BY DEF Ascending, n
  <2>4. QED  BY <1>4, <2>2, <2>3
<1>10. Ascending(S) \in [1..n -> S]
    BY <1>9 DEF Ascending, n
<1>11. ASSUME NEW j \in 1..n, NEW k \in 1..n, j < k
       PROVE  Ascending(S)[j] < Ascending(S)[k]
  <2> DEFINE x == Ascending(S)[j]
             y == Ascending(S)[k]
  <2>1. x \in S /\ y \in S /\ rank[x] = j /\ rank[y] = k
      BY <1>9
  <2> HIDE DEF x, y
  <2>2. x \in Nat /\ y \in Nat /\ j \in Int /\ k \in Int
      BY <1>1, <2>1
  <2>3. ~(y < x) /\ y # x
      BY <1>5, <1>11, <2>1, <2>2
  <2>4. x < y
      BY <2>2, <2>3
  <2>5. QED  BY <2>4 DEF x, y
<1>12. ASSUME NEW x \in S
       PROVE  \E k \in 1..n : Ascending(S)[k] = x
  <2>1. rank[x] \in 1..n
      BY <1>4
  <2>2. /\ Ascending(S)[rank[x]] \in S
        /\ rank[Ascending(S)[rank[x]]] = rank[x]
      BY <1>9, <2>1
  <2>3. QED  BY <1>6, <2>1, <2>2 DEF Injection, IsInjective
<1>13. QED  BY <1>1, <1>10, <1>11, <1>12 DEF n

\* A set of numbers as a list.
LEMMA AscendingList ==
    ASSUME NEW S \in SUBSET Nat, IsFiniteSet(S)
    PROVE  /\ Ascending(S) \in Seq(Nat)
           /\ ToSet(Ascending(S)) = S
           /\ Len(Ascending(S)) = Cardinality(S)
           /\ DOMAIN Ascending(S) = 1..Cardinality(S)
           /\ Cardinality(S) \in Nat
<1> DEFINE n == Cardinality(S)
           sorted == Ascending(S)
<1>1. /\ sorted \in [1..n -> S] /\ n \in Nat
      /\ \A x \in S : \E k \in 1..n : sorted[k] = x
    BY AscendingLists
<1> HIDE DEF sorted, n
<1>2. sorted \in Seq(S) /\ Len(sorted) = n /\ DOMAIN sorted = 1..n
    BY <1>1, FunctionIsSeq
<1>3. sorted \in Seq(Nat)
  <2>1. sorted \in [1..n -> Nat]
      BY <1>1
  <2>2. QED  BY <1>1, <2>1, FunctionIsSeq
<1>4. ToSet(sorted) = S
    BY <1>1, <1>2 DEF ToSet
<1>5. QED  BY <1>1, <1>2, <1>3, <1>4 DEF n, sorted

\* The items at some places of a list, one for each place.
LEMMA OnlyItems ==
    ASSUME NEW S, NEW list \in Seq(S), NEW places \in SUBSET (1..Len(list))
    PROVE  /\ Only(list, places) \in Seq(S)
           /\ Cardinality(places) \in Nat
           /\ Len(Only(list, places)) = Cardinality(places)
           /\ DOMAIN Only(list, places) = 1..Cardinality(places)
           /\ Ascending(places) \in [1..Cardinality(places) -> places]
           /\ \A j, k \in 1..Cardinality(places) : j < k => Ascending(places)[j] < Ascending(places)[k]
           /\ \A k \in 1..Cardinality(places) : Only(list, places)[k] = list[Ascending(places)[k]]
           /\ ToSet(Only(list, places)) = {list[k] : k \in places}
<1>1. Len(list) \in Nat /\ DOMAIN list = 1..Len(list) /\ \A k \in 1..Len(list) : list[k] \in S
    BY LenProperties, ElementOfSeq
<1>2. IsFiniteSet(places) /\ places \in SUBSET Nat
  <2>1. IsFiniteSet(1..Len(list))
      BY <1>1, Places
  <2>2. \A k \in 1..Len(list) : k \in Nat
      BY <1>1
  <2>3. IsFiniteSet(places)
      BY <2>1, FS_Subset
  <2>4. QED  BY <2>2, <2>3
<1> DEFINE n == Cardinality(places)
           at == Ascending(places)
           only == Only(list, places)
<1>3. /\ at \in [1..n -> places] /\ n \in Nat
      /\ \A j, k \in 1..n : j < k => at[j] < at[k]
      /\ \A x \in places : \E k \in 1..n : at[k] = x
    BY <1>2, AscendingLists
<1>4. only = [k \in 1..n |-> list[at[k]]]
    BY DEF Only
<1> HIDE DEF n, at, only
<1>5. only \in [1..n -> S]
    BY <1>1, <1>3, <1>4
<1>6. only \in Seq(S) /\ Len(only) = n /\ DOMAIN only = 1..n
    BY <1>3, <1>5, FunctionIsSeq
<1>7. ToSet(only) = {list[k] : k \in places}
  <2>1. ASSUME NEW x \in ToSet(only) PROVE x \in {list[k] : k \in places}
    <3>1. PICK i \in 1..n : x = only[i]
        BY <1>6 DEF ToSet
    <3>2. QED  BY <1>3, <1>4, <3>1
  <2>2. ASSUME NEW k \in places PROVE list[k] \in ToSet(only)
    <3>1. PICK i \in 1..n : at[i] = k
        BY <1>3
    <3>2. only[i] = list[k]
        BY <1>4, <3>1
    <3>3. QED  BY <1>6, <3>2 DEF ToSet
  <2>3. QED  BY <2>1, <2>2
<1>8. QED  BY <1>3, <1>4, <1>6, <1>7 DEF n, at, only

\* A list without a repetition has as many items as its set.
LEMMA ListCounts ==
    ASSUME NEW S, NEW list \in Seq(S)
    PROVE  /\ IsFiniteSet(ToSet(list)) /\ ToSet(list) \subseteq S
           /\ Cardinality(ToSet(list)) \in Nat
           /\ Cardinality(ToSet(list)) <= Len(list)
           /\ (\A j, k \in DOMAIN list : j < k => list[j] # list[k])
                 => Cardinality(ToSet(list)) = Len(list)
<1>1. Len(list) \in Nat /\ DOMAIN list = 1..Len(list) /\ \A k \in 1..Len(list) : list[k] \in S
    BY LenProperties, ElementOfSeq
<1>2. IsFiniteSet(1..Len(list)) /\ Cardinality(1..Len(list)) = Len(list)
    BY <1>1, Places
<1> DEFINE f == [k \in 1..Len(list) |-> list[k]]
<1>3. f \in Surjection(1..Len(list), ToSet(list))
    BY <1>1 DEF Surjection, ToSet
<1>4. (\A j, k \in DOMAIN list : j < k => list[j] # list[k])
         => f \in Injection(1..Len(list), ToSet(list))
  <2>1. SUFFICES ASSUME \A j, k \in DOMAIN list : j < k => list[j] # list[k]
                 PROVE  f \in Injection(1..Len(list), ToSet(list))
      OBVIOUS
  <2>2. \A j, k \in 1..Len(list) : f[j] = f[k] => j = k
    <3>1. ASSUME NEW j \in 1..Len(list), NEW k \in 1..Len(list), f[j] = f[k], j # k
          PROVE  FALSE
      <4>1. j < k \/ k < j
          BY <1>1, <3>1
      <4>2. QED  BY <1>1, <2>1, <3>1, <4>1
    <3>2. QED  BY <3>1
  <2>3. f \in [1..Len(list) -> ToSet(list)]
      BY <1>1 DEF ToSet
  <2>4. QED  BY <2>2, <2>3 DEF Injection, IsInjective
<1> HIDE DEF f
<1>5. QED  BY <1>1, <1>2, <1>3, <1>4, FS_Surjection, FS_CardinalityType DEF ToSet

\* Items that differ are as many as their places.
LEMMA OnlyCounts ==
    ASSUME NEW S, NEW list \in Seq(S), NEW places \in SUBSET (1..Len(list)),
           \A j, k \in places : j < k => list[j] # list[k]
    PROVE  Cardinality(ToSet(Only(list, places))) = Len(Only(list, places))
<1> DEFINE n == Cardinality(places)
           at == Ascending(places)
           only == Only(list, places)
<1>1. /\ only \in Seq(S) /\ DOMAIN only = 1..n /\ n \in Nat
      /\ at \in [1..n -> places]
      /\ \A j, k \in 1..n : j < k => at[j] < at[k]
      /\ \A k \in 1..n : only[k] = list[at[k]]
    BY OnlyItems
<1> HIDE DEF n, at, only
<1>2. \A j, k \in DOMAIN only : j < k => only[j] # only[k]
  <2>1. SUFFICES ASSUME NEW j \in 1..n, NEW k \in 1..n, j < k PROVE only[j] # only[k]
      BY <1>1
  <2>2. at[j] \in places /\ at[k] \in places /\ at[j] < at[k]
      BY <1>1, <2>1
  <2>3. list[at[j]] # list[at[k]]
      BY <2>2
  <2>4. QED  BY <1>1, <2>3
<1>3. Cardinality(ToSet(only)) = Len(only)
    BY <1>1, <1>2, ListCounts
<1>4. QED  BY <1>3 DEF only

\* The first item of a value in a list.
LEMMA FirstPlace ==
    ASSUME NEW S, NEW list \in Seq(S), NEW x \in ToSet(list)
    PROVE  \E k \in DOMAIN list : list[k] = x /\ \A j \in 1..(k - 1) : list[j] # list[k]
<1> DEFINE I == {k \in DOMAIN list : list[k] = x}
<1>1. Len(list) \in Nat /\ DOMAIN list = 1..Len(list)
    BY LenProperties
<1>2. I \subseteq Nat /\ I # {}
    BY <1>1 DEF ToSet
<1> HIDE DEF I
<1>3. PICK k \in I : \A j \in I : k <= j
    BY <1>2, LeastNumber
<1> USE DEF I
<1>4. \A j \in 1..(k - 1) : j \in DOMAIN list /\ j \notin I
    BY <1>1, <1>3
<1>5. QED  BY <1>3, <1>4

\* Once keeps the values of a list, each in one place.
LEMMA OnceCounts ==
    ASSUME NEW S, NEW list \in Seq(S)
    PROVE  /\ Once(list) \in Seq(S)
           /\ ToSet(Once(list)) = ToSet(list)
           /\ Cardinality(ToSet(Once(list))) = Len(Once(list))
<1> DEFINE firsts == {k \in DOMAIN list : \A j \in 1..(k - 1) : list[j] # list[k]}
<1>1. Len(list) \in Nat /\ DOMAIN list = 1..Len(list)
    BY LenProperties
<1>2. firsts \in SUBSET (1..Len(list))
    BY <1>1
<1>3. Once(list) = Only(list, firsts)
    BY DEF Once
<1>4. \A x \in ToSet(list) : \E k \in firsts : list[k] = x
    BY FirstPlace
<1>5. \A j, k \in firsts : j < k => list[j] # list[k]
  <2>1. SUFFICES ASSUME NEW j \in firsts, NEW k \in firsts, j < k PROVE list[j] # list[k]
      OBVIOUS
  <2>2. j \in 1..(k - 1)
      BY <1>1, <2>1
  <2>3. QED  BY <2>2
<1>6. {list[k] : k \in firsts} \subseteq ToSet(list)
    BY DEF ToSet
<1> HIDE DEF firsts
<1>7. Only(list, firsts) \in Seq(S) /\ ToSet(Only(list, firsts)) = {list[k] : k \in firsts}
    BY <1>2, OnlyItems
<1>8. ToSet(Only(list, firsts)) = ToSet(list)
    BY <1>4, <1>6, <1>7
<1>9. Cardinality(ToSet(Only(list, firsts))) = Len(Only(list, firsts))
    BY <1>2, <1>5, OnlyCounts
<1>10. QED  BY <1>3, <1>7, <1>8, <1>9

\* One list after another.
LEMMA BothFound ==
    ASSUME NEW S, NEW a \in Seq(S), NEW b \in Seq(S)
    PROVE  a \o b \in Seq(S) /\ ToSet(a \o b) = ToSet(a) \cup ToSet(b)
<1>1. a \o b \in Seq(S)
    BY ConcatProperties
<1>2. Range(a \o b) = Range(a) \cup Range(b)
    BY RangeConcatenation
<1>3. QED  BY <1>1, <1>2 DEF Range, ToSet

\* A list whose items are the first of another is a part of it.
LEMMA Prefixed ==
    ASSUME NEW S, NEW s \in Seq(S), NEW t \in Seq(S), Len(s) <= Len(t),
           \A k \in 1..Len(s) : s[k] = t[k]
    PROVE  /\ IsPrefix(s, t)
           /\ ToSet(s) \subseteq ToSet(t)
           /\ s = t <=> Len(s) = Len(t)
<1>1. /\ Len(s) \in Nat /\ DOMAIN s = 1..Len(s)
      /\ Len(t) \in Nat /\ DOMAIN t = 1..Len(t)
      /\ \A k \in 1..Len(s) : s[k] \in S /\ t[k] \in S
    BY LenProperties, ElementOfSeq
<1>2. SubSeq(s, 1, Len(s)) = SubSeq(t, 1, Len(s))
  <2> DEFINE n == Len(s)
             u == SubSeq(s, 1, n)
             v == SubSeq(t, 1, n)
  <2>1. u \in Seq(S) /\ Len(u) = n /\ \A k \in 1..n : u[k] = s[k]
      BY <1>1, SubSeqProperties
  <2>2. v \in Seq(S) /\ Len(v) = n /\ \A k \in 1..n : v[k] = t[k]
      BY <1>1, SubSeqProperties
  <2> HIDE DEF n, u, v
  <2>3. u = v
    <3>1. \A k \in 1..Len(u) : u[k] = v[k]
        BY <2>1, <2>2 DEF n
    <3>2. QED  BY <2>1, <2>2, <3>1, SeqEqual
  <2>4. QED  BY <2>3 DEF u, v, n
<1>3. ToSet(s) \subseteq ToSet(t)
    BY <1>1 DEF ToSet
<1>4. Len(s) = Len(t) => s = t
    BY SeqEqual
<1>5. QED  BY <1>2, <1>3, <1>4 DEF IsPrefix

\* What an offset leaves of a list.
LEMMA RestOf ==
    ASSUME NEW S, NEW list \in Seq(S), NEW offset \in Nat
    PROVE  LET rest == SubSeq(list, offset + 1, Len(list)) IN
           /\ rest \in Seq(S)
           /\ Len(list) \in Nat
           /\ Len(rest) = IF offset < Len(list) THEN Len(list) - offset ELSE 0
           /\ \A k \in 1..Len(rest) : rest[k] = list[offset + k]
<1> DEFINE n == Len(list)
           m == offset + 1
           rest == SubSeq(list, m, n)
<1>1. n \in Nat /\ m \in Int /\ \A k \in 1..n : list[k] \in S
    BY LenProperties, ElementOfSeq
<1>2. \A k \in m..n : list[k] \in S
    BY <1>1
<1> HIDE DEF n
<1>3. /\ rest \in Seq(S)
      /\ Len(rest) = IF m <= n THEN n - m + 1 ELSE 0
      /\ \A k \in 1..(n - m + 1) : rest[k] = list[m + k - 1]
    BY <1>1, <1>2, SubSeqProperties
<1> HIDE DEF rest
<1>4. Len(rest) = IF offset < n THEN n - offset ELSE 0
    BY <1>1, <1>3
<1>5. \A k \in 1..Len(rest) : rest[k] = list[offset + k]
    BY <1>1, <1>3, <1>4
<1>6. QED  BY <1>1, <1>3, <1>4, <1>5 DEF rest, n, m

\* A nonempty set of numbers has a least one.
LEMMA Least ==
    ASSUME NEW I, I \subseteq Nat, I # {}
    PROVE  Min(I) \in I /\ \A j \in I : Min(I) <= j
BY LeastNumber DEF Min

\* RemoveAt keeps the others, in their order.
LEMMA Removed ==
    ASSUME NEW S, NEW s \in Seq(S), NEW k \in 1..Len(s)
    PROVE  /\ RemoveAt(s, k) \in Seq(S)
           /\ Len(RemoveAt(s, k)) = Len(s) - 1
           /\ \A i \in 1..(Len(s) - 1) :
                 RemoveAt(s, k)[i] = s[IF i < k THEN i ELSE i + 1]
<1> DEFINE front == SubSeq(s, 1, k - 1)
           back == SubSeq(s, k + 1, Len(s))
<1>0. Len(s) \in Nat /\ \A i \in 1..Len(s) : s[i] \in S
    BY ElementOfSeq
<1>1. /\ front \in Seq(S) /\ Len(front) = k - 1
      /\ \A i \in 1..(k - 1) : front[i] = s[i]
    <2>1. 1 \in Int /\ k - 1 \in Int /\ \A i \in 1..(k - 1) : s[i] \in S
        BY <1>0
    <2>2. QED  BY <1>0, <2>1, SubSeqProperties
<1>2. /\ back \in Seq(S) /\ Len(back) = Len(s) - k
      /\ \A i \in 1..(Len(s) - k) : back[i] = s[k + i]
    <2>1. k + 1 \in Int /\ \A i \in (k + 1)..Len(s) : s[i] \in S
        BY <1>0
    <2>2. \A i \in 1..(Len(s) - k) : k + i = (k + 1) + i - 1
        BY <1>0
    <2>3. QED  BY <1>0, <2>1, <2>2, SubSeqProperties
<1>3. RemoveAt(s, k) = front \o back
    BY DEF RemoveAt
<1> HIDE DEF front, back
<1>4. /\ front \o back \in Seq(S)
      /\ Len(front \o back) = Len(front) + Len(back)
      /\ \A i \in 1..(Len(front) + Len(back)) :
            (front \o back)[i] = IF i <= Len(front) THEN front[i]
                                                   ELSE back[i - Len(front)]
    BY <1>1, <1>2, ConcatProperties
<1>5. (k - 1) + (Len(s) - k) = Len(s) - 1
    BY <1>0
<1>6. \A i \in 1..(Len(s) - 1) :
         (front \o back)[i] = IF i <= k - 1 THEN front[i] ELSE back[i - (k - 1)]
    BY <1>1, <1>2, <1>4, <1>5
<1>7. ASSUME NEW i \in 1..(Len(s) - 1)
      PROVE  RemoveAt(s, k)[i] = s[IF i < k THEN i ELSE i + 1]
  <2>1. CASE i < k
    <3>1. i \in 1..(k - 1) /\ i <= k - 1
        BY <1>0, <2>1
    <3>2. QED  BY <1>1, <1>3, <1>6, <2>1, <3>1
  <2>2. CASE ~(i < k)
    <3>1. /\ i - (k - 1) \in 1..(Len(s) - k) /\ ~(i <= k - 1)
          /\ k + (i - (k - 1)) = i + 1
        BY <1>0, <2>2
    <3>2. QED  BY <1>2, <1>3, <1>6, <2>2, <3>1
  <2>3. QED  BY <2>1, <2>2
<1>8. QED  BY <1>1, <1>2, <1>3, <1>4, <1>5, <1>7

\* A list of some items is a list of more.
LEMMA Wider ==
    ASSUME NEW S, NEW T, S \subseteq T, NEW s \in Seq(S)
    PROVE  s \in Seq(T)
<1>1. Len(s) \in Nat /\ DOMAIN s = 1..Len(s) /\ s \in [1..Len(s) -> S]
    BY LenProperties
<1>2. s \in [1..Len(s) -> T]
    BY <1>1
<1>3. QED  BY <1>1, <1>2, FunctionIsSeq

\* InsertAt keeps the others, in their order.
LEMMA Inserted ==
    ASSUME NEW S, NEW s \in Seq(S), NEW e \in S, NEW i \in 1..(Len(s) + 1)
    PROVE  /\ InsertAt(s, i, e) \in Seq(S)
           /\ Len(InsertAt(s, i, e)) = Len(s) + 1
           /\ \A k \in 1..(Len(s) + 1) :
                 InsertAt(s, i, e)[k] = IF k = i THEN e ELSE s[IF k < i THEN k ELSE k - 1]
<1> DEFINE front == SubSeq(s, 1, i - 1)
           one == <<e>>
           back == SubSeq(s, i, Len(s))
           both == front \o one
<1>0. Len(s) \in Nat /\ \A k \in 1..Len(s) : s[k] \in S
    BY ElementOfSeq
<1>1. /\ front \in Seq(S) /\ Len(front) = i - 1
      /\ \A k \in 1..(i - 1) : front[k] = s[k]
    <2>1. 1 \in Int /\ i - 1 \in Int /\ \A k \in 1..(i - 1) : s[k] \in S
        BY <1>0
    <2>2. QED  BY <1>0, <2>1, SubSeqProperties
<1>2. /\ back \in Seq(S) /\ Len(back) = Len(s) + 1 - i
      /\ \A k \in 1..(Len(s) + 1 - i) : back[k] = s[k + i - 1]
    <2>1. i \in Int /\ \A k \in i..Len(s) : s[k] \in S
        BY <1>0
    <2>2. /\ back \in Seq(S)
          /\ Len(back) = IF i <= Len(s) THEN Len(s) - i + 1 ELSE 0
          /\ \A k \in 1..(Len(s) - i + 1) : back[k] = s[i + k - 1]
        BY <1>0, <2>1, SubSeqProperties
    <2>3. \A k \in 1..(Len(s) + 1 - i) : k \in 1..(Len(s) - i + 1) /\ i + k - 1 = k + i - 1
        BY <1>0
    <2> HIDE DEF back
    <2>4. QED  BY <1>0, <2>2, <2>3
<1>3. one \in Seq(S) /\ Len(one) = 1 /\ one[1] = e
    OBVIOUS
<1>4. InsertAt(s, i, e) = both \o back
    BY DEF InsertAt
<1> HIDE DEF front, one, back
<1>5. /\ both \in Seq(S) /\ Len(both) = i
      /\ \A k \in 1..i : both[k] = IF k = i THEN e ELSE s[k]
  <2>1. /\ both \in Seq(S) /\ Len(both) = Len(front) + Len(one)
        /\ \A k \in 1..(Len(front) + Len(one)) :
              both[k] = IF k <= Len(front) THEN front[k] ELSE one[k - Len(front)]
      BY <1>1, <1>3, ConcatProperties
  <2>2. (i - 1) + 1 = i
      BY <1>0
  <2>3. ASSUME NEW k \in 1..i PROVE both[k] = IF k = i THEN e ELSE s[k]
    <3>1. both[k] = IF k <= i - 1 THEN front[k] ELSE one[k - (i - 1)]
        BY <1>1, <1>3, <2>1, <2>2
    <3>2. CASE k = i
      <4>1. ~(k <= i - 1) /\ k - (i - 1) = 1
          BY <1>0, <3>2
      <4>2. QED  BY <1>3, <3>1, <3>2, <4>1
    <3>3. CASE k # i
      <4>1. k \in 1..(i - 1) /\ k <= i - 1
          BY <1>0, <3>3
      <4>2. QED  BY <1>1, <3>1, <3>3, <4>1
    <3>4. QED  BY <3>2, <3>3
  <2>4. QED  BY <1>1, <1>3, <2>1, <2>2, <2>3
<1> HIDE DEF both
<1>6. /\ both \o back \in Seq(S)
      /\ Len(both \o back) = Len(both) + Len(back)
      /\ \A k \in 1..(Len(both) + Len(back)) :
            (both \o back)[k] = IF k <= Len(both) THEN both[k] ELSE back[k - Len(both)]
    BY <1>2, <1>5, ConcatProperties
<1>7. i + (Len(s) + 1 - i) = Len(s) + 1
    BY <1>0
<1>8. ASSUME NEW k \in 1..(Len(s) + 1)
      PROVE  InsertAt(s, i, e)[k] = IF k = i THEN e ELSE s[IF k < i THEN k ELSE k - 1]
  <2>1. InsertAt(s, i, e)[k] = IF k <= i THEN both[k] ELSE back[k - i]
      BY <1>2, <1>4, <1>5, <1>6, <1>7
  <2>2. CASE k <= i
    <3>1. k \in 1..i /\ (k # i => k < i)
        BY <1>0, <2>2
    <3>2. QED  BY <1>5, <2>1, <2>2, <3>1
  <2>3. CASE ~(k <= i)
    <3>1. /\ k - i \in 1..(Len(s) + 1 - i) /\ (k - i) + i - 1 = k - 1
          /\ k # i /\ ~(k < i)
        BY <1>0, <2>3
    <3>2. back[k - i] = s[(k - i) + i - 1]
        BY <1>2, <3>1
    <3>3. QED  BY <2>1, <2>3, <3>1, <3>2
  <2>4. QED  BY <2>2, <2>3
<1>9. QED  BY <1>2, <1>4, <1>5, <1>6, <1>7, <1>8

\* Three lists after each other.
LEMMA ThreeParts ==
    ASSUME NEW S, NEW a \in Seq(S), NEW b \in Seq(S), NEW c \in Seq(S)
    PROVE  /\ a \o b \o c \in Seq(S)
           /\ Len(a \o b \o c) = Len(a) + Len(b) + Len(c)
           /\ Len(a) \in Nat /\ Len(b) \in Nat /\ Len(c) \in Nat
           /\ \A k \in 1..Len(a) : (a \o b \o c)[k] = a[k]
           /\ \A k \in 1..Len(b) : (a \o b \o c)[Len(a) + k] = b[k]
           /\ \A k \in 1..Len(c) : (a \o b \o c)[Len(a) + Len(b) + k] = c[k]
<1> DEFINE ab == a \o b
           all == ab \o c
<1>0. Len(a) \in Nat /\ Len(b) \in Nat /\ Len(c) \in Nat
    BY LenProperties
<1>1. /\ ab \in Seq(S) /\ Len(ab) = Len(a) + Len(b)
      /\ \A k \in 1..(Len(a) + Len(b)) : ab[k] = IF k <= Len(a) THEN a[k] ELSE b[k - Len(a)]
    BY ConcatProperties
<1> HIDE DEF ab
<1>2. /\ all \in Seq(S) /\ Len(all) = Len(ab) + Len(c)
      /\ \A k \in 1..(Len(ab) + Len(c)) : all[k] = IF k <= Len(ab) THEN ab[k] ELSE c[k - Len(ab)]
  <2>1. ab \in Seq(S)
      BY <1>1
  <2>2. QED  BY <2>1, ConcatProperties
<1> HIDE DEF all
<1>3. ASSUME NEW k \in 1..Len(a) PROVE all[k] = a[k]
  <2>1. k \in 1..(Len(a) + Len(b)) /\ k \in 1..(Len(ab) + Len(c)) /\ k <= Len(a) /\ k <= Len(ab)
      BY <1>0, <1>1
  <2>2. QED  BY <1>1, <1>2, <2>1
<1>4. ASSUME NEW k \in 1..Len(b) PROVE all[Len(a) + k] = b[k]
  <2>1. /\ Len(a) + k \in 1..(Len(a) + Len(b)) /\ Len(a) + k \in 1..(Len(ab) + Len(c))
        /\ ~(Len(a) + k <= Len(a)) /\ Len(a) + k <= Len(ab) /\ (Len(a) + k) - Len(a) = k
      BY <1>0, <1>1
  <2>2. all[Len(a) + k] = ab[Len(a) + k]
      BY <1>2, <2>1
  <2>3. ab[Len(a) + k] = b[(Len(a) + k) - Len(a)]
      BY <1>1, <2>1
  <2>4. QED  BY <2>1, <2>2, <2>3
<1>5. ASSUME NEW k \in 1..Len(c) PROVE all[Len(a) + Len(b) + k] = c[k]
  <2>1. /\ Len(ab) + k \in 1..(Len(ab) + Len(c))
        /\ ~(Len(ab) + k <= Len(ab)) /\ (Len(ab) + k) - Len(ab) = k
      BY <1>0, <1>1
  <2>2. all[Len(ab) + k] = c[(Len(ab) + k) - Len(ab)]
      BY <1>2, <2>1
  <2>3. QED  BY <1>1, <2>1, <2>2
<1>6. QED  BY <1>0, <1>1, <1>2, <1>3, <1>4, <1>5 DEF all, ab

\* The numbers of an interval ascend one by one.
LEMMA AscendingInterval ==
    ASSUME NEW a \in Nat, NEW n \in Nat
    PROVE  /\ Cardinality((a + 1)..(a + n)) = n
           /\ Ascending((a + 1)..(a + n)) = [k \in 1..n |-> a + k]
<1> DEFINE S == (a + 1)..(a + n)
<1>1. Cardinality(S) = n
    BY FS_Interval
<1>2. ASSUME NEW x \in S
      PROVE  Cardinality({y \in S : y <= x}) = x - a
  <2>1. {y \in S : y <= x} = (a + 1)..x
      OBVIOUS
  <2>2. a + 1 \in Int /\ x \in Int /\ ~(a + 1 > x)
      OBVIOUS
  <2>3. Cardinality((a + 1)..x) = x - (a + 1) + 1
      BY <2>2, FS_Interval
  <2>4. x - (a + 1) + 1 = x - a
      BY <2>2
  <2> HIDE DEF S
  <2>5. QED  BY <2>1, <2>3, <2>4
<1>3. ASSUME NEW k \in 1..n
      PROVE  (CHOOSE x \in S : Cardinality({y \in S : y <= x}) = k) = a + k
  <2>1. a + k \in S /\ (a + k) - a = k
      OBVIOUS
  <2>2. \A x \in S : x - a = k => x = a + k
      OBVIOUS
  <2> HIDE DEF S
  <2>3. \A x \in S : Cardinality({y \in S : y <= x}) = k <=> x = a + k
      BY <1>2, <2>1, <2>2
  <2>4. QED  BY <2>1, <2>3
<1> HIDE DEF S
<1>4. Ascending(S) = [k \in 1..n |-> a + k]
    BY <1>1, <1>3 DEF Ascending
<1>5. QED  BY <1>1, <1>4 DEF S

\* A list whose items differ is itself once.
LEMMA OnceItself ==
    ASSUME NEW S, NEW list \in Seq(S), \A j, k \in DOMAIN list : j < k => list[j] # list[k]
    PROVE  Once(list) = list
<1> DEFINE n == Len(list)
           firsts == {k \in DOMAIN list : \A j \in 1..(k - 1) : list[j] # list[k]}
<1>1. n \in Nat /\ DOMAIN list = 1..n /\ list = [k \in 1..n |-> list[k]]
    BY LenProperties
<1>2. firsts = 1..n
    BY <1>1
<1>3. Once(list) = Only(list, firsts)
    BY DEF Once
<1> HIDE DEF n, firsts
<1>4. Cardinality(1..n) = n /\ Ascending(1..n) = [k \in 1..n |-> k]
  <2>1. 0 + 1 = 1 /\ 0 + n = n /\ \A k \in 1..n : 0 + k = k
      BY <1>1
  <2>2. Cardinality((0 + 1)..(0 + n)) = n /\ Ascending((0 + 1)..(0 + n)) = [k \in 1..n |-> 0 + k]
      BY <1>1, AscendingInterval
  <2>3. QED  BY <2>1, <2>2
<1>5. Only(list, 1..n) = [k \in 1..n |-> list[k]]
    BY <1>4 DEF Only
<1>6. QED  BY <1>1, <1>2, <1>3, <1>5
=============================================================================
