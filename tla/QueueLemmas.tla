---------------------------- MODULE QueueLemmas ----------------------------
(* Facts about queues (sequences) without duplicates: erasing an entry,     *)
(* taking the head, appending, and counting the entries.                    *)
EXTENDS Integers, Sequences, SequencesExt, FiniteSets, FiniteSetTheorems,
        SequenceTheorems, TLAPS

\* Erasing the k-th entry moves the later ones up by one.
LEMMA ErasedEntries ==
  ASSUME NEW S, NEW q \in Seq(S), NEW k \in 1..Len(q)
  PROVE  /\ RemoveAt(q, k) \in Seq(S)
         /\ Len(RemoveAt(q, k)) = Len(q) - 1
         /\ \A i \in 1..(Len(q) - 1) : RemoveAt(q, k)[i] = IF i < k THEN q[i] ELSE q[i+1]
<1> DEFINE n == Len(q)
           a == SubSeq(q, 1, k-1)
           b == SubSeq(q, k+1, n)
           r == a \o b
<1>0. n \in Nat /\ DOMAIN q = 1..n /\ \A i \in 1..n : q[i] \in S
  BY LenProperties, ElementOfSeq
<1>1. a \in Seq(S) /\ Len(a) = k-1
  BY <1>0
<1>1a. \A i \in 1..(k-1) : a[i] = q[i]
  BY <1>0, SubSeqProperties
<1>2. b \in Seq(S) /\ Len(b) = n-k
  <2>1. k+1 \in Int /\ n \in Int /\ \A i \in (k+1)..n : q[i] \in S
    BY <1>0
  <2>2. b \in Seq(S) /\ Len(b) = IF k+1 <= n THEN n-(k+1)+1 ELSE 0
    <3> HIDE DEF n
    <3> QED BY ONLY <2>1, SubSeqProperties, SMT DEF b
  <2>3. n-k = IF k+1 <= n THEN n-(k+1)+1 ELSE 0
    <3>1. n \in Nat /\ k \in 1..n
      BY <1>0
    <3> HIDE DEF n
    <3> QED BY ONLY <3>1
  <2> QED BY <2>2, <2>3
<1>2a. \A i \in 1..(n-k) : b[i] = q[k+i]
  BY <1>0, SubSeqProperties
<1> HIDE DEF a, b
<1>3. /\ r \in Seq(S) /\ Len(r) = Len(a) + Len(b)
      /\ \A i \in 1..(Len(a) + Len(b)) :
           r[i] = IF i <= Len(a) THEN a[i] ELSE b[i - Len(a)]
  BY ONLY <1>1, <1>2, ConcatProperties, Zenon DEF r
<1> HIDE DEF r, n
<1>4. /\ Len(r) = n-1
      /\ \A i \in 1..(n-1) : r[i] = IF i < k THEN q[i] ELSE q[i+1]
  <2>0. n \in Nat /\ k \in 1..n
    BY <1>0 DEF n
  <2>1. Len(r) = n-1
    BY <1>1, <1>2, <1>3, <2>0
  <2>2. ASSUME NEW i \in 1..(n-1), i < k PROVE r[i] = q[i]
    BY <1>1, <1>1a, <1>2, <1>3, <2>0, <2>2
  <2>3. ASSUME NEW i \in 1..(n-1), ~(i < k) PROVE r[i] = q[i+1]
    <3>1. i - (k-1) \in 1..(n-k) /\ k + (i - (k-1)) = i + 1
      BY <2>3, <2>0
    <3>2. b[i - (k-1)] = q[k + (i - (k-1))]
      BY <1>2a, <3>1
    <3>3. r[i] = b[i - (k-1)]
      BY <1>1, <1>2, <1>3, <2>0, <2>3
    <3> QED BY <3>1, <3>2, <3>3
  <2> QED BY <2>1, <2>2, <2>3, <2>0
<1> QED BY <1>3, <1>4 DEF r, a, b, n, RemoveAt

\* Erasing the k-th entry removes it and nothing else.
LEMMA EraseFromQueue ==
  ASSUME NEW S, NEW q \in Seq(S), IsInjective(q), NEW k \in 1..Len(q)
  PROVE  /\ RemoveAt(q, k) \in Seq(S)
         /\ IsInjective(RemoveAt(q, k))
         /\ Range(RemoveAt(q, k)) = Range(q) \ {q[k]}
         /\ Len(RemoveAt(q, k)) = Len(q) - 1
<1> DEFINE n == Len(q)
           r == RemoveAt(q, k)
<1>0. n \in Nat /\ DOMAIN q = 1..n
  BY LenProperties
<1>1. /\ r \in Seq(S) /\ Len(r) = n-1
      /\ \A i \in 1..(n-1) : r[i] = IF i < k THEN q[i] ELSE q[i+1]
  BY ErasedEntries
<1> HIDE DEF r, n
<1>2. DOMAIN r = 1..(n-1)
  BY <1>1, LenProperties
<1>3. IsInjective(r)
  <2> SUFFICES ASSUME NEW x \in 1..(n-1), NEW y \in 1..(n-1), r[x] = r[y]
               PROVE  x = y
    BY <1>2 DEF IsInjective
  <2> DEFINE f(i) == IF i < k THEN i ELSE i+1
  <2>1. /\ f(x) \in 1..n /\ f(y) \in 1..n
        /\ r[x] = q[f(x)] /\ r[y] = q[f(y)]
    BY <1>0, <1>1 DEF n
  <2>2. f(x) = f(y)
    BY <2>1, <1>0 DEF IsInjective
  <2> QED BY <2>2, <1>0
<1>4. Range(r) = Range(q) \ {q[k]}
  <2>1. ASSUME NEW x \in 1..(n-1) PROVE r[x] \in Range(q) \ {q[k]}
    <3> DEFINE y == IF x < k THEN x ELSE x+1
    <3>1. y \in 1..n /\ y # k /\ r[x] = q[y] /\ k \in 1..n
      BY <1>0, <1>1 DEF n
    <3> HIDE DEF y
    <3>2. q[y] # q[k]
      BY <3>1, <1>0 DEF IsInjective
    <3> QED BY <3>1, <3>2, <1>0 DEF Range
  <2>2. ASSUME NEW i \in 1..n, q[i] # q[k] PROVE \E x \in 1..(n-1) : r[x] = q[i]
    <3>1. CASE i < k
      BY <3>1, <1>0, <1>1 DEF n
    <3>2. CASE i > k
      <4>1. i-1 \in 1..(n-1) /\ r[i-1] = q[i]
        BY <3>2, <1>0, <1>1 DEF n
      <4> QED BY <4>1
    <3> QED BY <3>1, <3>2, <2>2, <1>0
  <2>3. Range(r) = {r[x] : x \in 1..(n-1)} /\ Range(q) = {q[i] : i \in 1..n}
    BY <1>0, <1>2 DEF Range
  <2> QED BY <2>1, <2>2, <2>3
<1> QED BY <1>1, <1>3, <1>4 DEF r, n

\* Taking the head off a queue removes it and nothing else.
LEMMA PopFromQueue ==
  ASSUME NEW S, NEW q \in Seq(S), IsInjective(q), q # <<>>
  PROVE  /\ Tail(q) \in Seq(S)
         /\ IsInjective(Tail(q))
         /\ Range(Tail(q)) = Range(q) \ {Head(q)}
         /\ Len(Tail(q)) = Len(q) - 1
         /\ Head(q) \in Range(q)
<1> DEFINE n == Len(q)
           r == Tail(q)
<1>0. n \in Nat \ {0} /\ DOMAIN q = 1..n
  BY LenProperties, EmptySeq
<1>1. /\ r \in Seq(S) /\ Len(r) = n-1
      /\ \A i \in 1..(n-1) : r[i] = q[i+1]
  BY HeadTailProperties
<1>2. DOMAIN r = 1..(n-1)
  BY <1>1, LenProperties
<1>3. Head(q) = q[1]
  OBVIOUS
<1> HIDE DEF n, r
<1>4. IsInjective(r)
  <2> SUFFICES ASSUME NEW x \in 1..(n-1), NEW y \in 1..(n-1), r[x] = r[y]
               PROVE  x = y
    BY <1>2 DEF IsInjective
  <2>1. x+1 \in 1..n /\ y+1 \in 1..n /\ q[x+1] = q[y+1]
    BY <1>0, <1>1
  <2> QED BY <2>1, <1>0 DEF IsInjective
<1>5. Range(r) = Range(q) \ {q[1]}
  <2>1. ASSUME NEW x \in 1..(n-1) PROVE r[x] \in Range(q) \ {q[1]}
    <3>1. x+1 \in 1..n /\ 1 \in 1..n /\ x+1 # 1 /\ r[x] = q[x+1]
      BY <1>0, <1>1
    <3>2. q[x+1] # q[1]
      BY <3>1, <1>0 DEF IsInjective
    <3> QED BY <3>1, <3>2, <1>0 DEF Range
  <2>2. ASSUME NEW i \in 1..n, q[i] # q[1]
        PROVE  \E x \in 1..(n-1) : r[x] = q[i]
    <3>1. i-1 \in 1..(n-1) /\ r[i-1] = q[i]
      BY <2>2, <1>0, <1>1
    <3> QED BY <3>1
  <2>3. /\ Range(r) = {r[x] : x \in 1..(n-1)}
        /\ Range(q) = {q[i] : i \in 1..n}
    BY <1>0, <1>2 DEF Range
  <2> QED BY <2>1, <2>2, <2>3
<1>6. q[1] \in Range(q)
  BY <1>0 DEF Range
<1> QED BY <1>1, <1>3, <1>4, <1>5, <1>6 DEF n, r

\* A new entry at the end.
LEMMA PushToQueue ==
  ASSUME NEW S, NEW q \in Seq(S), IsInjective(q), NEW e \in S, e \notin Range(q)
  PROVE  /\ Append(q, e) \in Seq(S)
         /\ IsInjective(Append(q, e))
         /\ Range(Append(q, e)) = Range(q) \cup {e}
         /\ Len(Append(q, e)) = Len(q) + 1
<1> DEFINE n == Len(q)
           r == Append(q, e)
<1>0. n \in Nat /\ DOMAIN q = 1..n
  BY LenProperties
<1>1. /\ r \in Seq(S) /\ Len(r) = n+1
      /\ \A i \in 1..n : r[i] = q[i]
      /\ r[n+1] = e
  BY AppendProperties
<1>2. DOMAIN r = 1..(n+1)
  BY <1>0, <1>1, LenProperties
<1> HIDE DEF n, r
<1>3. \A i \in 1..n : q[i] # e
  BY <1>0 DEF Range
<1>4. IsInjective(r)
  BY <1>0, <1>1, <1>2, <1>3 DEF IsInjective
<1>5. Range(r) = Range(q) \cup {e}
  <2>1. ASSUME NEW x \in 1..(n+1) PROVE r[x] \in Range(q) \cup {e}
    BY <1>0, <1>1 DEF Range
  <2>2. ASSUME NEW i \in 1..n PROVE q[i] \in Range(r)
    BY <1>0, <1>1, <1>2 DEF Range
  <2>3. e \in Range(r)
    BY <1>0, <1>1, <1>2 DEF Range
  <2> QED BY <2>1, <2>2, <2>3, <1>0, <1>2 DEF Range
<1> QED BY <1>1, <1>4, <1>5 DEF r, n

\* A queue without duplicates is as long as its set of entries.
LEMMA QueueLength ==
  ASSUME NEW S, NEW q \in Seq(S), IsInjective(q)
  PROVE  IsFiniteSet(Range(q)) /\ Cardinality(Range(q)) = Len(q)
<1>1. Len(q) \in Nat /\ q \in [1..Len(q) -> S] /\ DOMAIN q = 1..Len(q)
  BY LenProperties
<1>2. q \in Bijection(1..Len(q), Range(q))
  BY <1>1 DEF Bijection, Injection, Surjection, IsInjective, Range
<1>3. ExistsBijection(1..Len(q), Range(q))
  BY <1>2 DEF ExistsBijection
<1> QED BY <1>1, <1>3, FS_CountingElements, FS_NatBijection
=============================================================================
