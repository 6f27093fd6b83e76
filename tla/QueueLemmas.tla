----------------------------- MODULE QueueLemmas -----------------------------
(***************************************************************************)
(* Facts about a queue kept as a sequence without repetitions: what Append *)
(* and Tail do to its contents, and how many items a full queue holds; and *)
(* what Ascending and Filter of OrderedSeqs compute, for every input.      *)
(***************************************************************************)
EXTENDS OrderedSeqs, FiniteSetsExt, SequenceTheorems, FiniteSetTheorems, FunctionTheorems, TLAPS

(* Append adds one item to the contents, and a new item keeps the queue    *)
(* free of repetitions (a channel send).                                   *)
LEMMA AppendQueue ==
    ASSUME NEW S, NEW q \in Seq(S), NEW x \in S
    PROVE  /\ Append(q, x) \in Seq(S)
           /\ Range(Append(q, x)) = Range(q) \cup {x}
           /\ IsInjective(q) /\ x \notin Range(q) => IsInjective(Append(q, x))
<1>1. /\ Append(q, x) \in Seq(S)
      /\ Len(Append(q, x)) = Len(q) + 1
      /\ \A i \in 1..Len(q) : Append(q, x)[i] = q[i]
      /\ Append(q, x)[Len(q) + 1] = x
  BY AppendProperties
<1>2. DOMAIN q = 1..Len(q) /\ DOMAIN Append(q, x) = 1..(Len(q) + 1) /\ Len(q) \in Nat
  BY <1>1, LenProperties
<1>3. \A i \in DOMAIN Append(q, x) : i \in DOMAIN q \/ i = Len(q) + 1
  BY <1>2
<1>4. Range(Append(q, x)) = Range(q) \cup {x}
  BY <1>1, <1>2, <1>3 DEF Range
<1>5. ASSUME IsInjective(q), x \notin Range(q)
      PROVE  IsInjective(Append(q, x))
  <2>1. SUFFICES ASSUME NEW i \in DOMAIN Append(q, x), NEW j \in DOMAIN Append(q, x),
                        Append(q, x)[i] = Append(q, x)[j]
                 PROVE  i = j
    BY DEF IsInjective
  <2>2. \A k \in DOMAIN q : Append(q, x)[k] = q[k] /\ q[k] # x
    BY <1>1, <1>2, <1>5 DEF Range
  <2> QED BY <1>1, <1>3, <1>5, <2>1, <2>2 DEF IsInjective
<1> QED BY <1>1, <1>4, <1>5

(* Tail removes exactly the oldest item (a channel receive).               *)
LEMMA TailQueue ==
    ASSUME NEW S, NEW q \in Seq(S), q # <<>>
    PROVE  /\ Head(q) \in S /\ Head(q) \in Range(q)
           /\ Tail(q) \in Seq(S)
           /\ Len(Tail(q)) = Len(q) - 1
           /\ Range(Tail(q)) \subseteq Range(q)
           /\ IsInjective(q) =>
                /\ IsInjective(Tail(q))
                /\ Range(Tail(q)) = Range(q) \ {Head(q)}
<1>1. /\ Head(q) \in S
      /\ Tail(q) \in Seq(S)
      /\ Len(Tail(q)) = Len(q) - 1
      /\ \A i \in 1..Len(Tail(q)) : Tail(q)[i] = q[i + 1]
  BY HeadTailProperties
<1>2. /\ Len(q) \in Nat \ {0} /\ Head(q) = q[1]
      /\ DOMAIN q = 1..Len(q) /\ DOMAIN Tail(q) = 1..(Len(q) - 1)
  BY <1>1, LenProperties, EmptySeq
<1>3. \A i \in DOMAIN Tail(q) : i + 1 \in DOMAIN q /\ Tail(q)[i] = q[i + 1] /\ i + 1 # 1
  BY <1>1, <1>2
<1>4. \A k \in DOMAIN q : k = 1 \/ (k - 1 \in DOMAIN Tail(q) /\ Tail(q)[k - 1] = q[k])
  <2> SUFFICES ASSUME NEW k \in DOMAIN q, k # 1
               PROVE  k - 1 \in DOMAIN Tail(q) /\ Tail(q)[k - 1] = q[k]
    OBVIOUS
  <2>1. k - 1 \in 1..(Len(q) - 1) /\ (k - 1) + 1 = k
    BY <1>2
  <2> QED BY <2>1, <1>2, <1>3
<1>5. Head(q) \in Range(q) /\ Range(Tail(q)) \subseteq Range(q)
  BY <1>2, <1>3 DEF Range
<1>6. ASSUME IsInjective(q)
      PROVE  IsInjective(Tail(q)) /\ Range(Tail(q)) = Range(q) \ {Head(q)}
  <2>1. \A i, j \in DOMAIN Tail(q) : Tail(q)[i] = Tail(q)[j] => i = j
    <3> SUFFICES ASSUME NEW i \in DOMAIN Tail(q), NEW j \in DOMAIN Tail(q),
                        Tail(q)[i] = Tail(q)[j]
                 PROVE  i = j
      OBVIOUS
    <3>1. q[i + 1] = q[j + 1] /\ i + 1 \in DOMAIN q /\ j + 1 \in DOMAIN q
      BY <1>3
    <3>2. i + 1 = j + 1
      BY <3>1, <1>6 DEF IsInjective
    <3> QED BY <3>2, <1>2
  <2>2. 1 \in DOMAIN q
    BY <1>2
  <2>3. Head(q) \notin Range(Tail(q))
    BY <1>2, <1>3, <1>6, <2>2 DEF IsInjective, Range
  <2>4. Range(q) \ {Head(q)} \subseteq Range(Tail(q))
    BY <1>2, <1>4 DEF Range
  <2> QED BY <1>5, <2>1, <2>3, <2>4 DEF IsInjective
<1> QED BY <1>1, <1>5, <1>6

(* A receive takes its item off the queue and leaves every other one on    *)
(* it, repetitions or not.                                                 *)
LEMMA TailKeepsRest ==
    ASSUME NEW S, NEW q \in Seq(S), q # <<>>
    PROVE  Range(q) = {Head(q)} \cup Range(Tail(q))
<1>1. /\ Len(Tail(q)) = Len(q) - 1 /\ Tail(q) \in Seq(S)
      /\ \A i \in 1..Len(Tail(q)) : Tail(q)[i] = q[i + 1]
  BY HeadTailProperties
<1>2. /\ Len(q) \in Nat \ {0} /\ Head(q) = q[1]
      /\ DOMAIN q = 1..Len(q) /\ DOMAIN Tail(q) = 1..(Len(q) - 1)
  BY <1>1, LenProperties, EmptySeq
<1>3. \A k \in DOMAIN q : k # 1 => (k - 1 \in DOMAIN Tail(q) /\ Tail(q)[k - 1] = q[k])
  <2> SUFFICES ASSUME NEW k \in DOMAIN q, k # 1
               PROVE  k - 1 \in DOMAIN Tail(q) /\ Tail(q)[k - 1] = q[k]
    OBVIOUS
  <2>1. k - 1 \in 1..(Len(q) - 1) /\ (k - 1) + 1 = k
    BY <1>2
  <2> QED BY <2>1, <1>1, <1>2
<1>4. Range(q) \subseteq {Head(q)} \cup Range(Tail(q))
  <2> SUFFICES ASSUME NEW k \in DOMAIN q PROVE q[k] \in {Head(q)} \cup Range(Tail(q))
    BY DEF Range
  <2> QED BY <1>2, <1>3 DEF Range
<1> QED BY <1>4, TailQueue

(* A queue without repetitions holds as many items as its length.          *)
LEMMA QueueCardinality ==
    ASSUME NEW S, NEW q \in Seq(S), IsInjective(q)
    PROVE  IsFiniteSet(Range(q)) /\ Cardinality(Range(q)) = Len(q)
<1>1. Len(q) \in Nat /\ q \in [1..Len(q) -> S]
  BY LenProperties
<1>2. q \in Bijection(1..Len(q), Range(q))
  BY <1>1 DEF Bijection, Injection, Surjection, IsInjective, Range
<1>3. ExistsBijection(1..Len(q), Range(q))
  BY <1>2 DEF ExistsBijection
<1>4. IsFiniteSet(1..Len(q)) /\ Cardinality(1..Len(q)) = Len(q)
  BY <1>1, FS_Interval
<1> QED BY <1>3, <1>4, FS_Bijection

-----------------------------------------------------------------------------
IsAscending(a) == \A i, j \in DOMAIN a : i < j => a[i] < a[j]

(* Ascending lists each member of a finite set of numbers once, in order:  *)
(* the rank of a member is a bijection onto 1..Cardinality(S).             *)
LEMMA AscendingProperties ==
    ASSUME NEW S \in SUBSET Int, IsFiniteSet(S)
    PROVE  /\ Ascending(S) \in Seq(S) /\ Len(Ascending(S)) = Cardinality(S)
           /\ IsAscending(Ascending(S))
           /\ \A x \in S : \E k \in DOMAIN Ascending(S) : Ascending(S)[k] = x
<1> DEFINE n == Cardinality(S)
           upTo(x) == {y \in S : y <= x}
           rank == [x \in S |-> Cardinality(upTo(x))]
           a == Ascending(S)
<1>0. S \subseteq Int
  OBVIOUS
<1>1. n \in Nat
  BY FS_CardinalityType
<1>2. ASSUME NEW x \in S
      PROVE  IsFiniteSet(upTo(x)) /\ rank[x] \in 1..n
  <2>1. IsFiniteSet(upTo(x)) /\ Cardinality(upTo(x)) <= n /\ Cardinality(upTo(x)) \in Nat
    BY FS_Subset, FS_CardinalityType
  <2>2. x \in upTo(x)
    OBVIOUS
  <2>3. Cardinality(upTo(x)) # 0
    BY <2>1, <2>2, FS_EmptySet
  <2> QED BY <1>1, <2>1, <2>3
<1>3. ASSUME NEW x \in S, NEW z \in S, x < z
      PROVE  rank[x] < rank[z]
  <2>0. x \in Int /\ z \in Int
    BY <1>0
  <2>1. upTo(x) \subseteq upTo(z) /\ z \in upTo(z) /\ z \notin upTo(x)
    <3>1. z \in upTo(z)
      BY <2>0
    <3>2. z \notin upTo(x)
      BY <1>3, <2>0
    <3>3. ASSUME NEW y \in S, y <= x PROVE y <= z
      BY <1>0, <1>3, <2>0, <3>3
    <3> QED BY <3>1, <3>2, <3>3
  <2>2. Cardinality(upTo(x)) <= Cardinality(upTo(z))
    BY <1>2, <2>1, FS_Subset
  <2>3. Cardinality(upTo(x)) # Cardinality(upTo(z))
    BY <1>2, <2>1, FS_Subset
  <2> QED BY <1>1, <1>2, <2>2, <2>3
<1> HIDE DEF upTo
<1>4. \A x, z \in S : rank[x] = rank[z] => x = z
  BY <1>2, <1>3
<1>5. \A k \in 1..n : \E x \in S : rank[x] = k
  <2>1. IsFiniteSet(1..n) /\ Cardinality(1..n) = n
    BY <1>1, FS_Interval
  <2>2. rank \in Injection(S, 1..n)
    BY <1>2, <1>4 DEF Injection, IsInjective
  <2>3. rank \in Surjection(S, 1..n)
    BY <2>1, <2>2, FS_Injection
  <2> QED BY <2>3 DEF Surjection
<1>6. \A k \in 1..n : \E x \in S : Cardinality({y \in S : y <= x}) = k
  BY <1>5 DEF upTo
<1>7. ASSUME NEW k \in 1..n PROVE a[k] \in S /\ rank[a[k]] = k
  <2>1. a[k] = CHOOSE x \in S : Cardinality({y \in S : y <= x}) = k
    BY DEF Ascending
  <2> QED BY <1>6, <2>1 DEF upTo
<1>a. a = [k \in 1..n |-> a[k]]
  BY DEF Ascending
<1> HIDE DEF rank, a, n
<1>8. a \in [1..n -> S] /\ a \in Seq(S) /\ Len(a) = n /\ DOMAIN a = 1..n
  <2>1. a \in [1..n -> S]
    BY <1>7, <1>a
  <2> QED BY <1>1, <2>1, IsASeq, LenProperties
<1>9. IsAscending(a)
  <2> SUFFICES ASSUME NEW i \in 1..n, NEW j \in 1..n, i < j PROVE a[i] < a[j]
    BY <1>8 DEF IsAscending
  <2>1. a[i] \in Int /\ a[j] \in Int /\ rank[a[i]] = i /\ rank[a[j]] = j
    BY <1>0, <1>7
  <2> QED BY <1>1, <1>3, <1>7, <2>1
<1>10. ASSUME NEW x \in S PROVE \E k \in DOMAIN a : a[k] = x
  BY <1>2, <1>4, <1>7, <1>8
<1> QED BY <1>8, <1>9, <1>10 DEF a, n

(* A finite set of numbers that has any has a largest one.                 *)
LEMMA MaxOfFinite ==
    ASSUME NEW S \in SUBSET Int, IsFiniteSet(S), S # {}
    PROVE  Max(S) \in S /\ \A x \in S : x <= Max(S)
<1> DEFINE a == Ascending(S)
           n == Len(a)
<1>1. /\ a \in Seq(S) /\ IsAscending(a) /\ \A x \in S : \E k \in DOMAIN a : a[k] = x
  BY AscendingProperties
<1> HIDE DEF a
<1>2. n \in Nat /\ DOMAIN a = 1..n /\ \A k \in 1..n : a[k] \in S
  BY <1>1, LenProperties, ElementOfSeq
<1>3. n # 0
  <2>1. \E x \in S : \E k \in 1..n : a[k] = x
    BY <1>1, <1>2
  <2> QED BY <1>2, <2>1
<1> HIDE DEF n
<1>4. n \in 1..n /\ a[n] \in S
  BY <1>2, <1>3
<1>5. ASSUME NEW x \in S PROVE a[n] >= x
  <2>1. PICK k \in 1..n : a[k] = x
    BY <1>1, <1>2
  <2>2. a[k] \in Int /\ a[n] \in Int
    BY <1>4, <2>1
  <2>3. k = n \/ a[k] < a[n]
    BY <1>1, <1>2, <1>4 DEF IsAscending
  <2> QED BY <2>1, <2>2, <2>3
<1>6. \E x \in S : \A y \in S : x >= y
  BY <1>4, <1>5
<1>7. Max(S) \in S /\ \A y \in S : Max(S) >= y
  BY <1>6 DEF Max
<1>8. ASSUME NEW x \in S PROVE x <= Max(S)
  <2>1. Max(S) >= x /\ x \in Int /\ Max(S) \in Int
    BY <1>7
  <2> QED BY <2>1
<1> QED BY <1>7, <1>8

(* Nothing else is ascending and has the same members.                     *)
LEMMA AscendingIsUnique ==
    ASSUME NEW S \in SUBSET Int, NEW b \in Seq(S), IsAscending(b),
           \A x \in S : \E k \in DOMAIN b : b[k] = x
    PROVE  IsFiniteSet(S) /\ b = Ascending(S)
<1> DEFINE n == Len(b)
<1>0. S \subseteq Int
  OBVIOUS
<1>1. n \in Nat /\ b \in [1..n -> S] /\ DOMAIN b = 1..n
  BY LenProperties
<1>2. \A i, j \in 1..n : i < j => b[i] < b[j]
  BY <1>1 DEF IsAscending
<1> HIDE DEF n
<1>a. ASSUME NEW i \in 1..n PROVE b[i] \in Int /\ i \in Int
  <2>1. b[i] \in S
    BY <1>1
  <2>2. n \in Nat
    BY <1>1
  <2>3. i \in Int
    BY <2>2
  <2> QED BY <1>0, <2>1, <2>3
<1>3. ASSUME NEW i \in 1..n, NEW j \in 1..n, b[i] = b[j] PROVE i = j
  <2>1. ~(i < j) /\ ~(j < i)
    BY <1>a, <1>2, <1>3
  <2> QED BY <1>a, <2>1
<1>4. b \in Bijection(1..n, S)
  BY <1>1, <1>3 DEF Bijection, Injection, Surjection, IsInjective
<1>5. IsFiniteSet(1..n) /\ Cardinality(1..n) = n
  BY <1>1, FS_Interval
<1>6. IsFiniteSet(S) /\ Cardinality(S) = n
  BY <1>4, <1>5, FS_Bijection DEF ExistsBijection
<1>7. ASSUME NEW k \in 1..n
      PROVE  Cardinality({y \in S : y <= b[k]}) = k
  <2> DEFINE below == {y \in S : y <= b[k]}
             c == [i \in 1..k |-> b[i]]
  <2>1. k \in Nat /\ 1..k \subseteq 1..n
    BY <1>1
  <2>2. \A i \in 1..k : b[i] \in below
    <3> SUFFICES ASSUME NEW i \in 1..k PROVE b[i] \in S /\ b[i] <= b[k]
      OBVIOUS
    <3>1. i \in 1..n /\ (i = k \/ i < k)
      BY <2>1
    <3> QED BY <1>1, <1>2, <1>a, <3>1
  <2>3. ASSUME NEW y \in below PROVE \E i \in 1..k : b[i] = y
    <3>1. PICK i \in 1..n : b[i] = y
      BY <1>1
    <3>2. ~(k < i)
      <4>1. k < i => b[k] < b[i]
        BY <1>2, <3>1
      <4>2. b[i] <= b[k] /\ b[i] \in Int /\ b[k] \in Int
        BY <1>a, <3>1
      <4> QED BY <4>1, <4>2
    <3> QED BY <1>1, <3>1, <3>2
  <2> HIDE DEF below
  <2>4. c \in Bijection(1..k, below)
    BY <1>3, <2>1, <2>2, <2>3 DEF Bijection, Injection, Surjection, IsInjective
  <2>5. IsFiniteSet(1..k) /\ Cardinality(1..k) = k
    BY <2>1, FS_Interval
  <2>6. Cardinality(below) = k
    BY <2>4, <2>5, FS_Bijection DEF ExistsBijection
  <2> QED BY <2>6 DEF below
<1>8. ASSUME NEW k \in 1..n PROVE Ascending(S)[k] = b[k]
  <2> DEFINE a == Ascending(S)
  <2>1. /\ a \in Seq(S) /\ Len(a) = n /\ IsAscending(a)
        /\ \A x \in S : \E j \in DOMAIN a : a[j] = x
    BY <1>6, AscendingProperties
  <2>2. a[k] = CHOOSE x \in S : Cardinality({y \in S : y <= x}) = k
    BY <1>6 DEF Ascending
  <2>3. \E x \in S : Cardinality({y \in S : y <= x}) = k
    BY <1>1, <1>7
  <2>4. a[k] \in S /\ Cardinality({y \in S : y <= a[k]}) = k
    BY <2>2, <2>3
  <2> HIDE DEF a
  <2>5. PICK j \in 1..n : b[j] = a[k]
    BY <1>1, <2>4
  <2>6. j = k
    BY <1>7, <2>4, <2>5
  <2> QED BY <2>5, <2>6 DEF a
<1>9. Ascending(S) \in Seq(S) /\ Len(Ascending(S)) = n
  BY <1>6, AscendingProperties
<1> QED BY <1>6, <1>8, <1>9, SeqEqual DEF n

(* What Filter leaves is the items in T, one for one and in order: place   *)
(* says where in s each of them is.                                        *)
IsPlacing(place, r, s, T) ==
    /\ place \in Seq(DOMAIN s) /\ Len(place) = Len(r)
    /\ IsAscending(place)
    /\ \A k \in DOMAIN r : r[k] = s[place[k]] /\ r[k] \in T
    /\ \A i \in DOMAIN s : s[i] \in T => \E k \in DOMAIN r : place[k] = i

LEMMA FilterProperties ==
    ASSUME NEW S, NEW s \in Seq(S), NEW T
    PROVE  /\ Filter(s, T) \in Seq(S)
           /\ \E place : IsPlacing(place, Filter(s, T), s, T)
<1> DEFINE ids == {i \in DOMAIN s : s[i] \in T}
           place == Ascending(ids)
           r == Filter(s, T)
           n == Len(place)
<1>1. Len(s) \in Nat /\ DOMAIN s = 1..Len(s) /\ \A i \in DOMAIN s : s[i] \in S
  BY LenProperties, ElementOfSeq
<1>2. ids \in SUBSET Int /\ IsFiniteSet(ids)
  <2>1. IsFiniteSet(DOMAIN s)
    BY <1>1, FS_Interval
  <2>2. ids \subseteq DOMAIN s /\ ids \subseteq Int
    BY <1>1
  <2> HIDE DEF ids
  <2> QED BY <2>1, <2>2, FS_Subset
<1>3. r = [k \in DOMAIN place |-> s[place[k]]]
  BY DEF Filter
<1> HIDE DEF r
<1>4. /\ place \in Seq(ids) /\ IsAscending(place)
      /\ \A x \in ids : \E k \in DOMAIN place : place[k] = x
  BY <1>2, AscendingProperties
<1> HIDE DEF place
<1>5. n \in Nat /\ DOMAIN place = 1..n /\ \A k \in 1..n : place[k] \in ids
  BY <1>4, LenProperties, ElementOfSeq
<1> HIDE DEF n
<1>6. r \in [1..n -> S] /\ \A k \in 1..n : r[k] = s[place[k]] /\ r[k] \in T
  BY <1>1, <1>3, <1>5
<1>7. r \in Seq(S) /\ Len(r) = n /\ DOMAIN r = 1..n
  BY <1>5, <1>6
<1>8. place \in Seq(DOMAIN s)
  BY <1>4, SeqMonotonic
<1>9. IsPlacing(place, r, s, T)
  BY <1>4, <1>5, <1>6, <1>7, <1>8 DEF IsPlacing, n
<1> QED BY <1>7, <1>9 DEF r

LEMMA FilterIsUnique ==
    ASSUME NEW S, NEW s \in Seq(S), NEW r \in Seq(S), NEW T, NEW place,
           IsPlacing(place, r, s, T)
    PROVE  r = Filter(s, T)
<1> DEFINE ids == {i \in DOMAIN s : s[i] \in T}
<1>1. DOMAIN s \subseteq Int /\ DOMAIN r = 1..Len(r) /\ Len(r) \in Nat
  BY LenProperties
<1>2. place \in Seq(DOMAIN s) /\ Len(place) = Len(r) /\ DOMAIN place = DOMAIN r
  BY <1>1, LenProperties DEF IsPlacing
<1>3. \A k \in DOMAIN place : place[k] \in ids
  BY <1>2, ElementOfSeq, LenProperties DEF IsPlacing
<1>4. place \in Seq(ids)
  <2>1. place \in [1..Len(r) -> ids]
    BY <1>1, <1>2, <1>3, LenProperties
  <2> QED BY <1>1, <2>1
<1>5. \A x \in ids : \E k \in DOMAIN place : place[k] = x
  BY <1>2 DEF IsPlacing
<1>6. ids \in SUBSET Int
  BY <1>1
<1> HIDE DEF ids
<1>7. place = Ascending(ids)
  BY <1>4, <1>5, <1>6, AscendingIsUnique DEF IsPlacing
<1>8. Filter(s, T) = [k \in DOMAIN place |-> s[place[k]]]
  BY <1>7 DEF Filter, ids
<1>9. r = [k \in DOMAIN r |-> r[k]]
  BY <1>1, LenProperties
<1> QED BY <1>2, <1>8, <1>9 DEF IsPlacing

(* A filter takes the items one at a time, and it is as good as any other  *)
(* that agrees on them.                                                    *)
LEMMA FilterAppend ==
    ASSUME NEW S, NEW s \in Seq(S), NEW x \in S, NEW T
    PROVE  Filter(Append(s, x), T) =
              IF x \in T THEN Append(Filter(s, T), x) ELSE Filter(s, T)
<1> DEFINE r == Filter(s, T)
           t == Append(s, x)
           n == Len(s)
           m == Len(r)
<1>1. r \in Seq(S) /\ \E place : IsPlacing(place, r, s, T)
  BY FilterProperties
<1>2. PICK place : IsPlacing(place, r, s, T)
  BY <1>1
<1> HIDE DEF r
<1>3. n \in Nat /\ m \in Nat /\ DOMAIN s = 1..n /\ DOMAIN r = 1..m
  BY <1>1, LenProperties
<1>4. /\ t \in Seq(S) /\ Len(t) = n + 1 /\ t[n + 1] = x
      /\ \A i \in 1..n : t[i] = s[i]
  BY AppendProperties
<1> HIDE DEF t, n, m
<1>5. DOMAIN t = 1..(n + 1) /\ \A i \in 1..(n + 1) : i \in 1..n \/ i = n + 1
  BY <1>3, <1>4, LenProperties
<1>6. /\ place \in Seq(1..n) /\ Len(place) = m /\ IsAscending(place)
      /\ \A k \in 1..m : r[k] = s[place[k]] /\ r[k] \in T
      /\ \A i \in 1..n : s[i] \in T => \E k \in 1..m : place[k] = i
  BY <1>2, <1>3 DEF IsPlacing, m
<1>7. DOMAIN place = 1..m /\ \A k \in 1..m : place[k] \in 1..n
  BY <1>6, LenProperties, ElementOfSeq
<1>8. place \in Seq(1..(n + 1))
  <2>1. 1..n \subseteq 1..(n + 1)
    BY <1>3
  <2> QED BY <1>6, <2>1, SeqMonotonic
<1>9. CASE x \notin T
  <2>1. \A k \in 1..m : r[k] = t[place[k]] /\ r[k] \in T
    BY <1>4, <1>6, <1>7
  <2>2. \A i \in 1..(n + 1) : t[i] \in T => \E k \in 1..m : place[k] = i
    BY <1>4, <1>5, <1>6, <1>9
  <2>3. IsPlacing(place, r, t, T)
    BY <1>3, <1>5, <1>6, <1>8, <2>1, <2>2 DEF IsPlacing, m
  <2> QED BY <1>1, <1>4, <1>9, <2>3, FilterIsUnique DEF r, t
<1>10. CASE x \in T
  <2> DEFINE q == Append(r, x)
             p == Append(place, n + 1)
  <2>1. /\ q \in Seq(S) /\ Len(q) = m + 1 /\ q[m + 1] = x
        /\ \A k \in 1..m : q[k] = r[k]
    BY <1>1, AppendProperties DEF m
  <2>2. n + 1 \in 1..(n + 1)
    BY <1>3
  <2>3. /\ p \in Seq(1..(n + 1)) /\ Len(p) = m + 1 /\ p[m + 1] = n + 1
        /\ \A k \in 1..m : p[k] = place[k]
    BY <1>6, <1>8, <2>2, AppendProperties
  <2> HIDE DEF p, q
  <2>4. /\ DOMAIN q = 1..(m + 1) /\ DOMAIN p = 1..(m + 1)
        /\ m + 1 \in 1..(m + 1) /\ \A k \in 1..(m + 1) : k \in 1..m \/ k = m + 1
        /\ \A k \in 1..m : k \in 1..(m + 1)
    BY <1>3, <2>1, <2>3, LenProperties
  <2>5. IsAscending(p)
    <3> SUFFICES ASSUME NEW i \in 1..(m + 1), NEW j \in 1..(m + 1), i < j PROVE p[i] < p[j]
      BY <2>4 DEF IsAscending
    <3>1. i \in 1..m
      BY <1>3
    <3>2. CASE j \in 1..m
      BY <1>6, <1>7, <2>3, <3>1, <3>2 DEF IsAscending
    <3>3. CASE j = m + 1
      <4>1. p[i] \in 1..n /\ p[j] = n + 1
        BY <1>7, <2>3, <3>1, <3>3
      <4> QED BY <1>3, <4>1
    <3> QED BY <2>4, <3>2, <3>3
  <2>6. \A k \in 1..(m + 1) : q[k] = t[p[k]] /\ q[k] \in T
    <3>1. \A k \in 1..m : q[k] = t[p[k]] /\ q[k] \in T
      <4> SUFFICES ASSUME NEW k \in 1..m PROVE q[k] = t[p[k]] /\ q[k] \in T
        OBVIOUS
      <4>1. q[k] = r[k] /\ r[k] = s[place[k]] /\ r[k] \in T
        BY <1>6, <2>1
      <4>2. p[k] = place[k] /\ t[place[k]] = s[place[k]]
        BY <1>4, <1>7, <2>3
      <4> QED BY <4>1, <4>2
    <3>2. q[m + 1] = t[p[m + 1]] /\ q[m + 1] \in T
      BY <1>4, <1>10, <2>1, <2>3
    <3> QED BY <2>4, <3>1, <3>2
  <2>7. \A i \in 1..(n + 1) : t[i] \in T => \E k \in 1..(m + 1) : p[k] = i
    BY <1>4, <1>5, <1>6, <2>3, <2>4
  <2>8. IsPlacing(p, q, t, T)
    BY <1>5, <2>1, <2>3, <2>4, <2>5, <2>6, <2>7 DEF IsPlacing
  <2> QED BY <1>4, <1>10, <2>1, <2>8, FilterIsUnique DEF q, r, t
<1> QED BY <1>9, <1>10 DEF r, t

LEMMA FilterAgrees ==
    ASSUME NEW s, NEW T, NEW U, \A i \in DOMAIN s : s[i] \in T <=> s[i] \in U
    PROVE  Filter(s, T) = Filter(s, U)
<1>1. {i \in DOMAIN s : s[i] \in T} = {i \in DOMAIN s : s[i] \in U}
  OBVIOUS
<1> QED BY <1>1 DEF Filter

(* To leave out also what is at the end of the result is to cut the end.   *)
IsParted(s, T, a, b) == Filter(s, T) = a \o b /\ Range(a) \cap Range(b) = {}

LEMMA FilterCut ==
    ASSUME NEW S, NEW s \in Seq(S), NEW T, NEW a \in Seq(S), NEW b \in Seq(S),
           IsParted(s, T, a, b)
    PROVE  Filter(s, T \ Range(b)) = a
<1> DEFINE r == Filter(s, T)
           U == T \ Range(b)
           m == Len(a)
           n == Len(b)
<1>0. r = a \o b /\ Range(a) \cap Range(b) = {}
  BY DEF IsParted
<1>1. PICK place : IsPlacing(place, r, s, T)
  BY FilterProperties
<1>2. /\ m \in Nat /\ n \in Nat /\ DOMAIN a = 1..m /\ DOMAIN b = 1..n
      /\ r \in Seq(S) /\ Len(r) = m + n
      /\ \A i \in 1..m+n : r[i] = IF i <= m THEN a[i] ELSE b[i - m]
  BY <1>0, LenProperties, ConcatProperties
<1> HIDE DEF r, m, n
<1>3. DOMAIN r = 1..m+n
  BY <1>2, LenProperties
<1>4. /\ place \in Seq(DOMAIN s) /\ Len(place) = m + n /\ IsAscending(place)
      /\ \A k \in 1..m+n : r[k] = s[place[k]] /\ r[k] \in T
      /\ \A i \in DOMAIN s : s[i] \in T => \E k \in 1..m+n : place[k] = i
  BY <1>1, <1>2, <1>3 DEF IsPlacing
<1>5. DOMAIN place = 1..m+n /\ \A k \in 1..m+n : place[k] \in DOMAIN s
  BY <1>2, <1>4, LenProperties, ElementOfSeq
<1>6. \A k \in 1..m : k \in 1..m+n /\ r[k] = a[k]
  BY <1>2
<1>7. \A k \in 1..m+n : k \in 1..m \/ r[k] \in Range(b)
  <2> SUFFICES ASSUME NEW k \in 1..m+n, k \notin 1..m PROVE r[k] \in Range(b)
    OBVIOUS
  <2>1. k - m \in 1..n /\ r[k] = b[k - m]
    BY <1>2
  <2> QED BY <1>2, <2>1 DEF Range
<1> DEFINE p == [k \in 1..m |-> place[k]]
<1>8. p \in Seq(DOMAIN s) /\ Len(p) = m /\ DOMAIN p = 1..m
  BY <1>2, <1>5, <1>6
<1>9. IsAscending(p)
  BY <1>4, <1>5, <1>6, <1>8 DEF IsAscending
<1>10. \A k \in 1..m : a[k] \notin Range(b)
  BY <1>0, <1>2 DEF Range
<1>11. ASSUME NEW k \in 1..m PROVE a[k] = s[p[k]] /\ a[k] \in U
  BY <1>4, <1>5, <1>6, <1>10
<1>12. ASSUME NEW i \in DOMAIN s, s[i] \in U PROVE \E k \in 1..m : p[k] = i
  <2>1. PICK k \in 1..m+n : place[k] = i
    BY <1>4, <1>12
  <2>2. k \in 1..m
    BY <1>4, <1>7, <1>12, <2>1
  <2> QED BY <2>1, <2>2
<1> HIDE DEF p
<1>13. IsPlacing(p, a, s, U)
  BY <1>2, <1>8, <1>9, <1>11, <1>12 DEF IsPlacing, m
<1> QED BY <1>13, FilterIsUnique
=============================================================================
