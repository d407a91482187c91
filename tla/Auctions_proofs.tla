-------------------------- MODULE Auctions_proofs ---------------------------
(***************************************************************************)
(* The items and the gold of the auction house, whoever sells, bids, takes *)
(* his mail or cancels, however the worker lags and whenever the server    *)
(* stops, for any sets of players and items and any prices.  The books in  *)
(* memory are ahead of the database by the queue; the invariant says that  *)
(* the queue leads there through books each of which is good: the items in *)
(* one place each, the gold all accounted for.  So what is lost with the   *)
(* queue leaves good books too.  Sums and folds are the library's.         *)
(***************************************************************************)
EXTENDS Auctions, Integers, FiniteSetTheorems, SequenceTheorems, WellFoundedInduction, TLAPS

(* Counting, sums over finite sets, and folds.  The library's induction    *)
(* theorems take an operator; the two here take the set of the numbers, or *)
(* of the sets, for which something holds.                                 *)

LessOnNat == {p \in Nat \X Nat : p[1] < p[2]}

\* What holds of 0 and passes from each number to the next, holds up to n.
LEMMA CountUp ==
  ASSUME NEW n \in Nat, NEW C, 0 \in C,
         \A k \in 0..n : k < n /\ k \in C => k + 1 \in C
  PROVE  0..n \subseteq C
<1> DEFINE T == {k \in 0..n : k \notin C}
<1>1. SUFFICES ASSUME T # {} PROVE FALSE
  OBVIOUS
<1>2. PICK k \in T : \A j \in T : ~(<<j, k>> \in LessOnNat)
  <2>1. IsWellFoundedOn(LessOnNat, Nat)
    BY NatLessThanWellFounded DEF OpToRel, LessOnNat
  <2>2. T \subseteq Nat
    OBVIOUS
  <2> HIDE DEF T
  <2> QED BY <1>1, <2>1, <2>2, WFMin, Zenon
<1>3. k # 0 /\ k - 1 \in 0..n /\ k - 1 < k /\ k - 1 < n /\ k = (k - 1) + 1
  BY <1>2
<1>4. <<k - 1, k>> \in LessOnNat
  BY <1>3 DEF LessOnNat
<1>5. k - 1 \in C
  BY <1>2, <1>3, <1>4
<1>6. k \in C
  BY <1>3, <1>5
<1> QED BY <1>6

\* C has a set if it has the set without any one element.
Inherits(C, S) == \A T \in SUBSET S : (\A x \in T : T \ {x} \in C) => T \in C

\* What all finite sets inherit holds of all.
LEMMA CountDown ==
  ASSUME NEW S, IsFiniteSet(S), NEW C, Inherits(C, S)
  PROVE  SUBSET S \subseteq C
<1> DEFINE n == Cardinality(S)
           Small(k) == {T \in SUBSET S : Cardinality(T) <= k}
           D == {k \in Nat : Small(k) \subseteq C}
<1>1. n \in Nat
  BY FS_CardinalityType
<1>2. ASSUME NEW T \in SUBSET S
      PROVE  /\ IsFiniteSet(T) /\ Cardinality(T) \in Nat /\ Cardinality(T) <= n
             /\ \A x \in T : T \ {x} \in SUBSET S /\ Cardinality(T \ {x}) = Cardinality(T) - 1
             /\ Cardinality(T) = 0 => T = {}
  BY FS_Subset, FS_RemoveElement, FS_CardinalityType, FS_EmptySet
<1>3. 0 \in D
  <2>1. ASSUME NEW T \in Small(0) PROVE T \in C
    <3>1. T = {}
      BY <1>2
    <3> QED BY <3>1 DEF Inherits
  <2> QED BY <2>1
<1>4. ASSUME NEW k \in 0..n, k \in D PROVE k + 1 \in D
  <2>1. ASSUME NEW T \in Small(k + 1) PROVE T \in C
    <3>1. ASSUME NEW x \in T PROVE T \ {x} \in C
      <4>1. T \in SUBSET S /\ Cardinality(T) <= k + 1
        OBVIOUS
      <4>2. T \ {x} \in SUBSET S /\ Cardinality(T \ {x}) = Cardinality(T) - 1 /\ Cardinality(T) \in Nat
        BY <1>2, <4>1
      <4>3. Cardinality(T \ {x}) <= k
        BY <4>1, <4>2
      <4> QED BY <1>4, <4>2, <4>3
    <3> QED BY <3>1 DEF Inherits
  <2> QED BY <2>1
<1>5. 0..n \subseteq D
  <2> HIDE DEF D, n
  <2> QED BY <1>1, <1>3, <1>4, CountUp
<1>6. n \in D
  <2> HIDE DEF D, n
  <2> QED BY <1>1, <1>5
<1>7. ASSUME NEW T \in SUBSET S PROVE T \in C
  BY <1>2, <1>6
<1> QED BY <1>7

\* it[s] is the fold over s, for each subset s of S.
FoldsUp(it, S, base, step, pick) ==
  \A s \in SUBSET S :
    it[s] = IF s = {} THEN base ELSE step[<<pick[s], it[s \ {pick[s]}]>>]
Picks(pick, S) == \A s \in SUBSET S : s # {} => pick[s] \in s

\* A fold over the subsets of a finite set is a function: there is one that
\* satisfies its recursive equation.
LEMMA FoldExists ==
  ASSUME NEW S, IsFiniteSet(S), NEW V, NEW base \in V, NEW step \in [S \X V -> V],
         NEW pick, Picks(pick, S)
  PROVE  \E it \in [SUBSET S -> V] : FoldsUp(it, S, base, step, pick)
<1> USE DEF Picks
<1> DEFINE n == Cardinality(S)
           Next1(it) == [s \in SUBSET S |-> IF s = {} THEN base
                                            ELSE step[<<pick[s], it[s \ {pick[s]}]>>]]
           Upto(it, k) == \A s \in SUBSET S : Cardinality(s) <= k => it[s] = Next1(it)[s]
           D == {k \in Nat : \E it \in [SUBSET S -> V] : Upto(it, k)}
<1>1. n \in Nat
  BY FS_CardinalityType
<1>2. ASSUME NEW s \in SUBSET S
      PROVE  /\ Cardinality(s) \in Nat /\ Cardinality(s) <= n
             /\ Cardinality(s) = 0 => s = {}
             /\ s # {} => /\ pick[s] \in S /\ s \ {pick[s]} \in SUBSET S
                          /\ Cardinality(s \ {pick[s]}) = Cardinality(s) - 1
  <2>1. IsFiniteSet(s) /\ Cardinality(s) \in Nat /\ Cardinality(s) <= n
    BY FS_Subset, FS_CardinalityType
  <2>2. Cardinality(s) = 0 => s = {}
    BY <2>1, FS_EmptySet
  <2>3. s # {} => Cardinality(s \ {pick[s]}) = Cardinality(s) - 1
    BY <2>1, FS_RemoveElement
  <2> QED BY <2>1, <2>2, <2>3
<1>3. ASSUME NEW it \in [SUBSET S -> V] PROVE Next1(it) \in [SUBSET S -> V]
  <2>1. ASSUME NEW s \in SUBSET S, s # {}
        PROVE  step[<<pick[s], it[s \ {pick[s]}]>>] \in V
    <3>1. pick[s] \in S /\ it[s \ {pick[s]}] \in V
      BY <1>2, <2>1
    <3> QED BY <3>1
  <2> QED BY <2>1
<1>4. 0 \in D
  <2> DEFINE it == [s \in SUBSET S |-> base]
  <2>1. it \in [SUBSET S -> V]
    OBVIOUS
  <2>2. Upto(it, 0)
    <3>1. ASSUME NEW s \in SUBSET S, Cardinality(s) <= 0 PROVE s = {}
      <4>1. Cardinality(s) \in Nat /\ (Cardinality(s) = 0 => s = {})
        BY <1>2
      <4> QED BY <3>1, <4>1
    <3> QED BY <3>1
  <2>3. \E jt \in [SUBSET S -> V] : Upto(jt, 0)
    <3> HIDE DEF it, Upto
    <3> QED BY <2>1, <2>2
  <2> HIDE DEF Upto
  <2> QED BY <2>3
<1>5. ASSUME NEW k \in 0..n, k \in D PROVE k + 1 \in D
  <2>1. PICK it \in [SUBSET S -> V] : Upto(it, k)
    BY <1>5
  <2> DEFINE jt == Next1(it)
  <2>2. jt \in [SUBSET S -> V]
    BY <1>3
  <2>3. ASSUME NEW s \in SUBSET S, Cardinality(s) <= k + 1 PROVE jt[s] = Next1(jt)[s]
    <3>1. CASE s = {}
      BY <3>1
    <3>2. CASE s # {}
      <4> DEFINE u == s \ {pick[s]}
      <4>1. u \in SUBSET S /\ Cardinality(u) <= k
        BY <1>2, <2>3, <3>2
      <4>2. it[u] = jt[u]
        BY <2>1, <4>1
      <4>3. jt[s] = step[<<pick[s], it[u]>>] /\ Next1(jt)[s] = step[<<pick[s], jt[u]>>]
        BY <3>2
      <4> QED BY <4>2, <4>3
    <3> QED BY <3>1, <3>2
  <2>4. Upto(jt, k + 1)
    BY <2>3
  <2>5. k + 1 \in Nat
    BY <1>1
  <2> HIDE DEF jt, Upto
  <2> QED BY <2>2, <2>4, <2>5
<1>6. 0..n \subseteq D
  <2> HIDE DEF D, n
  <2> QED BY <1>1, <1>4, <1>5, CountUp
<1>7. n \in D
  <2> HIDE DEF D, n
  <2> QED BY <1>1, <1>6
<1>8. PICK it \in [SUBSET S -> V] : Upto(it, n)
  BY <1>7
<1>9. FoldsUp(it, S, base, step, pick)
  BY <1>2, <1>8 DEF FoldsUp
<1> QED BY <1>9

-----------------------------------------------------------------------------
(* Sums.                                                                   *)

Sum(f, S) == SumFunctionOnSet(f, S)

Pick(s) == CHOOSE x \in s : TRUE

LEMMA PickOne == ASSUME NEW s, s # {} PROVE Pick(s) \in s
BY DEF Pick

\* it[s] is the sum over s, for each subset s of S.
SumsUp(it, f, S) ==
  \A s \in SUBSET S : it[s] = IF s = {} THEN 0 ELSE f[Pick(s)] + it[s \ {Pick(s)}]

LEMMA SumsUpUnfolded ==
  ASSUME NEW S, NEW f, NEW it, SumsUp(it, f, S), NEW s \in SUBSET S
  PROVE  /\ s = {} => it[s] = 0
         /\ s # {} => it[s] = f[Pick(s)] + it[s \ {Pick(s)}]
BY DEF SumsUp

\* The library's sum is the value of such a function.
LEMMA SumFold ==
  ASSUME NEW S, IsFiniteSet(S), NEW f, \A x \in S : f[x] \in Int
  PROVE  \E it \in [SUBSET S -> Int] : SumsUp(it, f, S) /\ Sum(f, S) = it[S]
<1> DEFINE Fold(it) == [s \in SUBSET S |-> IF s = {} THEN 0
                                           ELSE f[Pick(s)] + it[s \ {Pick(s)}]]
           step == [q \in S \X Int |-> f[q[1]] + q[2]]
           pick == [s \in SUBSET S |-> Pick(s)]
           it == CHOOSE it : it = Fold(it)
<1>1. \E jt : jt = Fold(jt)
  <2>1. step \in [S \X Int -> Int]
    OBVIOUS
  <2>1a. Picks(pick, S)
    BY PickOne DEF Picks
  <2>2. PICK jt \in [SUBSET S -> Int] : FoldsUp(jt, S, 0, step, pick)
    <3>1. 0 \in Int
      OBVIOUS
    <3> HIDE DEF step, pick
    <3> QED BY <2>1, <2>1a, <3>1, FoldExists
  <2>3. ASSUME NEW s \in SUBSET S PROVE jt[s] = Fold(jt)[s]
    <3>1. CASE s = {}
      BY <2>2, <3>1 DEF FoldsUp
    <3>2. CASE s # {}
      <4>1. Pick(s) \in S /\ pick[s] = Pick(s)
        BY <3>2, PickOne
      <4>2. jt[s \ {Pick(s)}] \in Int
        BY <4>1
      <4>3. jt[s] = step[<<Pick(s), jt[s \ {Pick(s)}]>>]
        BY <2>2, <3>2, <4>1 DEF FoldsUp
      <4>4. jt[s] = f[Pick(s)] + jt[s \ {Pick(s)}]
        BY <4>1, <4>2, <4>3
      <4> QED BY <3>2, <4>4
    <3> QED BY <3>1, <3>2
  <2>4. jt = Fold(jt)
    BY <2>3
  <2> QED BY <2>4
<1>2. it = Fold(it)
  <2> HIDE DEF Fold
  <2> QED BY <1>1
<1>3. Sum(f, S) = it[S]
  BY DEF Sum, SumFunctionOnSet, FoldFunctionOnSet, MapThenFoldSet, Pick
<1> HIDE DEF it
<1>4. SumsUp(it, f, S)
  BY <1>2 DEF SumsUp
<1> DEFINE C == {s \in SUBSET S : it[s] \in Int}
<1>5. ASSUME NEW s \in SUBSET S, \A x \in s : s \ {x} \in C PROVE s \in C
  <2>1. CASE s = {}
    <3>1. it[s] = 0
      BY <1>4, <2>1, SumsUpUnfolded
    <3> QED BY <3>1
  <2>2. CASE s # {}
    <3>1. it[s \ {Pick(s)}] \in Int /\ f[Pick(s)] \in Int
      BY <1>5, <2>2, PickOne
    <3>2. it[s] = f[Pick(s)] + it[s \ {Pick(s)}]
      BY <1>4, <2>2, SumsUpUnfolded
    <3> QED BY <3>1, <3>2
  <2> QED BY <2>1, <2>2
<1>6. SUBSET S \subseteq C
  <2>1. Inherits(C, S)
    BY <1>5 DEF Inherits
  <2> HIDE DEF C
  <2> QED BY <2>1, CountDown
<1>7. it \in [SUBSET S -> Int]
  <2>1. it = [s \in SUBSET S |-> it[s]]
    BY <1>2
  <2>2. \A s \in SUBSET S : it[s] \in Int
    BY <1>6
  <2> HIDE DEF C, Fold
  <2> QED BY <2>1, <2>2
<1> QED BY <1>3, <1>4, <1>7

\* It does not matter over which set the function is defined.
LEMMA SumIsUnique ==
  ASSUME NEW S0, IsFiniteSet(S0), NEW S \in SUBSET S0, NEW f, NEW g,
         \A x \in S0 : f[x] \in Int, \A x \in S : g[x] = f[x],
         NEW it, SumsUp(it, f, S0)
  PROVE  Sum(g, S) = it[S]
<1>1. IsFiniteSet(S) /\ \A x \in S : g[x] \in Int
  BY FS_Subset
<1>2. PICK jt \in [SUBSET S -> Int] : SumsUp(jt, g, S) /\ Sum(g, S) = jt[S]
  BY <1>1, SumFold
<1> DEFINE C == {s \in SUBSET S : jt[s] = it[s]}
<1>3. ASSUME NEW s \in SUBSET S, \A x \in s : s \ {x} \in C PROVE s \in C
  <2>0. s \in SUBSET S0
    OBVIOUS
  <2>1. CASE s = {}
    <3>1. jt[s] = 0
      BY <1>2, <2>1, SumsUpUnfolded
    <3>2. it[s] = 0
      BY <2>0, <2>1, SumsUpUnfolded
    <3> QED BY <3>1, <3>2
  <2>2. CASE s # {}
    <3>1. it[s \ {Pick(s)}] = jt[s \ {Pick(s)}] /\ f[Pick(s)] = g[Pick(s)]
      BY <1>3, <2>2, PickOne
    <3>2. jt[s] = g[Pick(s)] + jt[s \ {Pick(s)}]
      BY <1>2, <2>2, SumsUpUnfolded
    <3>3. it[s] = f[Pick(s)] + it[s \ {Pick(s)}]
      <4>1. SumsUp(it, f, S0)
        OBVIOUS
      <4> QED BY ONLY <4>1, <2>0, <2>2, SumsUpUnfolded
    <3> QED BY <3>1, <3>2, <3>3
  <2> QED BY <2>1, <2>2
<1>4. SUBSET S \subseteq C
  <2>1. IsFiniteSet(S)
    BY <1>1
  <2>2. Inherits(C, S)
    BY <1>3 DEF Inherits
  <2> HIDE DEF C
  <2> QED BY <2>1, <2>2, CountDown
<1> QED BY <1>2, <1>4

LEMMA SumOfNothing == ASSUME NEW f PROVE Sum(f, {}) = 0
<1>1. IsFiniteSet({}) /\ \A x \in {} : f[x] \in Int
  BY FS_EmptySet
<1>2. PICK it \in [SUBSET {} -> Int] : SumsUp(it, f, {}) /\ Sum(f, {}) = it[{}]
  BY <1>1, SumFold
<1> QED BY <1>2, SumsUpUnfolded

LEMMA SumSame ==
  ASSUME NEW S, IsFiniteSet(S), NEW f, NEW g, \A x \in S : f[x] \in Int /\ g[x] = f[x]
  PROVE  Sum(g, S) = Sum(f, S) /\ Sum(f, S) \in Int
<1>1. PICK it \in [SUBSET S -> Int] : SumsUp(it, f, S) /\ Sum(f, S) = it[S]
  BY SumFold
<1>2. Sum(g, S) = it[S]
  BY <1>1, SumIsUnique
<1> QED BY <1>1, <1>2

LEMMA SumPicked ==
  ASSUME NEW S, IsFiniteSet(S), S # {}, NEW f, \A x \in S : f[x] \in Int
  PROVE  Pick(S) \in S /\ Sum(f, S) = f[Pick(S)] + Sum(f, S \ {Pick(S)})
<1>1. PICK it \in [SUBSET S -> Int] : SumsUp(it, f, S) /\ Sum(f, S) = it[S]
  BY SumFold
<1>2. Sum(f, S \ {Pick(S)}) = it[S \ {Pick(S)}]
  BY <1>1, SumIsUnique
<1>3. it[S] = f[Pick(S)] + it[S \ {Pick(S)}]
  BY <1>1, SumsUpUnfolded
<1> QED BY <1>1, <1>2, <1>3, PickOne

\* Any element can be taken out.
LEMMA SumWithout ==
  ASSUME NEW S, IsFiniteSet(S), NEW f, \A x \in S : f[x] \in Int, NEW y \in S
  PROVE  Sum(f, S) = f[y] + Sum(f, S \ {y}) /\ Sum(f, S \ {y}) \in Int
<1> DEFINE C == {T \in SUBSET S : \A x \in T : Sum(f, T) = f[x] + Sum(f, T \ {x})}
<1>1. ASSUME NEW T \in SUBSET S
      PROVE  IsFiniteSet(T) /\ Sum(f, T) \in Int
  <2>1. IsFiniteSet(T)
    BY FS_Subset
  <2> QED BY <2>1, SumSame
<1>2. ASSUME NEW T \in SUBSET S, \A x \in T : T \ {x} \in C PROVE T \in C
  <2>1. ASSUME NEW x \in T PROVE Sum(f, T) = f[x] + Sum(f, T \ {x})
    <3>1. PICK c : c = Pick(T)
      OBVIOUS
    <3>2. c \in T /\ Sum(f, T) = f[c] + Sum(f, T \ {c})
      BY <1>1, <3>1, SumPicked
    <3>3. CASE x = c
      BY <3>2, <3>3
    <3>4. CASE x # c
      <4>1. Sum(f, T \ {c}) = f[x] + Sum(f, (T \ {c}) \ {x})
        BY <1>2, <3>2, <3>4
      <4>2. Sum(f, T \ {x}) = f[c] + Sum(f, (T \ {x}) \ {c})
        BY <1>2, <3>2, <3>4
      <4>3. (T \ {x}) \ {c} = (T \ {c}) \ {x}
        OBVIOUS
      <4>4. Sum(f, (T \ {c}) \ {x}) \in Int /\ f[x] \in Int /\ f[c] \in Int
        BY <1>1, <3>2
      <4>5. Sum(f, (T \ {x}) \ {c}) = Sum(f, (T \ {c}) \ {x})
        BY <4>3
      <4> QED BY ONLY <3>2, <4>1, <4>2, <4>4, <4>5
    <3> QED BY <3>3, <3>4
  <2> QED BY <2>1
<1>3. SUBSET S \subseteq C
  <2>1. Inherits(C, S)
    BY <1>2 DEF Inherits
  <2> HIDE DEF C
  <2> QED BY <2>1, CountDown
<1> QED BY <1>1, <1>3

LEMMA SumNat ==
  ASSUME NEW S, IsFiniteSet(S), NEW f, \A x \in S : f[x] \in Nat
  PROVE  Sum(f, S) \in Nat
<1> DEFINE C == {T \in SUBSET S : Sum(f, T) \in Nat}
<1>1. ASSUME NEW T \in SUBSET S, \A x \in T : T \ {x} \in C PROVE T \in C
  <2>1. CASE T = {}
    BY <2>1, SumOfNothing
  <2>2. CASE T # {}
    <3>1. IsFiniteSet(T) /\ \A x \in T : f[x] \in Int
      BY FS_Subset
    <3>2. Pick(T) \in T /\ Sum(f, T) = f[Pick(T)] + Sum(f, T \ {Pick(T)})
      BY <2>2, <3>1, SumPicked
    <3>3. Sum(f, T \ {Pick(T)}) \in Nat /\ f[Pick(T)] \in Nat
      BY <1>1, <3>2
    <3> QED BY <3>2, <3>3
  <2> QED BY <2>1, <2>2
<1>2. SUBSET S \subseteq C
  <2>1. Inherits(C, S)
    BY <1>1 DEF Inherits
  <2> HIDE DEF C
  <2> QED BY <2>1, CountDown
<1> QED BY <1>2

\* One summand changes.
Differ(f, g, S, y) ==
  /\ y \in S
  /\ \A x \in S : f[x] \in Int /\ g[x] \in Int
  /\ \A x \in S \ {y} : g[x] = f[x]

LEMMA SumUpdate ==
  ASSUME NEW S, IsFiniteSet(S), NEW f, NEW g, NEW y, Differ(f, g, S, y)
  PROVE  Sum(g, S) = Sum(f, S) - f[y] + g[y] /\ Sum(f, S) \in Int
<1> USE DEF Differ
<1>1. Sum(f, S) = f[y] + Sum(f, S \ {y}) /\ Sum(f, S \ {y}) \in Int
  BY SumWithout
<1>2. Sum(g, S) = g[y] + Sum(g, S \ {y})
  BY SumWithout
<1>3. IsFiniteSet(S \ {y})
  BY FS_RemoveElement
<1>4. Sum(g, S \ {y}) = Sum(f, S \ {y})
  BY <1>3, SumSame
<1>5. f[y] \in Int /\ g[y] \in Int
  OBVIOUS
<1> QED BY <1>1, <1>2, <1>4, <1>5
-----------------------------------------------------------------------------
(* The gold in the mail.                                                   *)

Coins(mails) == [m \in mails |-> m.gold]
Total(mails) == Sum(Coins(mails), mails)

LEMMA TotalOfNone == Total({}) = 0
BY SumOfNothing DEF Total

LEMMA TotalOfOneMore ==
  ASSUME NEW mails, IsFiniteSet(mails), NEW m, m \notin mails,
         \A x \in mails \cup {m} : x.gold \in Int
  PROVE  Total(mails \cup {m}) = Total(mails) + m.gold /\ Total(mails) \in Int
<1> DEFINE all == mails \cup {m}
           f == Coins(all)
           g == Coins(mails)
<1>1. IsFiniteSet(all)
  BY FS_AddElement
<1>2. \A x \in all : f[x] \in Int
  BY DEF Coins
<1>3. Sum(f, all) = f[m] + Sum(f, all \ {m})
  <2> HIDE DEF f, all
  <2>1. m \in all
    BY DEF all
  <2> QED BY <1>1, <1>2, <2>1, SumWithout
<1>4. all \ {m} = mails /\ f[m] = m.gold
  BY DEF Coins
<1>5. \A x \in mails : g[x] \in Int /\ f[x] = g[x]
  BY DEF Coins
<1>6. Sum(f, mails) = Sum(g, mails) /\ Sum(g, mails) \in Int
  <2> HIDE DEF f, g
  <2> QED BY <1>5, SumSame
<1>7. m.gold \in Int
  OBVIOUS
<1>8. Total(all) = Sum(f, all) /\ Total(mails) = Sum(g, mails)
  BY DEF Total
<1>8a. Sum(f, all) = m.gold + Sum(g, mails)
  <2> HIDE DEF f, g, all
  <2> QED BY <1>3, <1>4, <1>6
<1> HIDE DEF f, g
<1>9. Total(all) = Total(mails) + m.gold /\ Total(mails) \in Int
  <2> HIDE DEF all
  <2> QED BY ONLY <1>8a, <1>6, <1>7, <1>8
<1> QED BY <1>9

LEMMA GoldToIsNat ==
  ASSUME NEW mails, IsFiniteSet(mails), \A m \in mails : m.gold \in Nat, NEW p
  PROVE  GoldTo(mails, p) \in Nat
<1> DEFINE T == {m \in mails : m.to = p}
<1>1. IsFiniteSet(T)
  BY FS_Subset
<1>2. \A m \in T : Coins(mails)[m] \in Nat
  BY DEF Coins
<1>3. Sum(Coins(mails), T) \in Nat
  <2> HIDE DEF T
  <2> QED BY <1>1, <1>2, SumNat
<1> QED BY <1>3 DEF GoldTo, Sum, Coins

\* What is posted arrives: all of it, with the players.
LEMMA PostedGold ==
  ASSUME NEW P, IsFiniteSet(P), NEW mails, IsFiniteSet(mails),
         \A m \in mails : m.to \in P /\ m.gold \in Int,
         NEW base, \A p \in P : base[p] \in Int
  PROVE  Sum([p \in P |-> base[p] + GoldTo(mails, p)], P) = Sum(base, P) + Total(mails)
<1> DEFINE f == Coins(mails)
           To(T, p) == {m \in T : m.to = p}
           Posted1(T) == [p \in P |-> base[p] + Sum(f, To(T, p))]
           C == {T \in SUBSET mails : Sum(Posted1(T), P) = Sum(base, P) + Sum(f, T)}
<1>1. \A m \in mails : f[m] \in Int
  BY DEF Coins
<1>2. ASSUME NEW T \in SUBSET mails, NEW p
      PROVE  IsFiniteSet(T) /\ IsFiniteSet(To(T, p)) /\ Sum(f, T) \in Int /\ Sum(f, To(T, p)) \in Int
  <2>1. IsFiniteSet(T) /\ IsFiniteSet(To(T, p))
    BY FS_Subset
  <2>2. (\A m \in T : f[m] \in Int) /\ (\A m \in To(T, p) : f[m] \in Int)
    BY <1>1
  <2>3. Sum(f, T) \in Int /\ Sum(f, To(T, p)) \in Int
    <3> HIDE DEF f, To
    <3> QED BY <2>1, <2>2, SumSame
  <2> QED BY <2>1, <2>3
<1>3. Sum(base, P) \in Int
  BY SumSame
<1>4. ASSUME NEW T \in SUBSET mails, \A m \in T : T \ {m} \in C PROVE T \in C
  <2>1. CASE T = {}
    <3>1. \A p \in P : To(T, p) = {}
      BY <2>1
    <3>2. \A p \in P : Posted1(T)[p] = base[p]
      <4> HIDE DEF f, To
      <4> QED BY <3>1, SumOfNothing
    <3>3. Sum(Posted1(T), P) = Sum(base, P)
      <4> HIDE DEF Posted1
      <4> QED BY <3>2, SumSame
    <3>4. Sum(f, T) = 0
      BY <2>1, SumOfNothing
    <3> QED BY <1>3, <3>3, <3>4
  <2>2. CASE T # {}
    <3>1. PICK m \in T : TRUE
      BY <2>2
    <3> DEFINE U == T \ {m}
    <3>2. Sum(Posted1(U), P) = Sum(base, P) + Sum(f, U)
      BY <1>4, <3>1
    <3>3. Sum(f, T) = f[m] + Sum(f, U)
      <4>1. \A x \in T : f[x] \in Int
        BY <1>1
      <4> HIDE DEF f
      <4> QED BY <1>2, <3>1, <4>1, SumWithout
    <3>4. m.to \in P
      BY <3>1
    <3>5. \A p \in P \ {m.to} : To(T, p) = To(U, p)
      BY <3>1
    <3>6. Sum(f, To(T, m.to)) = f[m] + Sum(f, To(U, m.to))
      <4>1. \A x \in To(T, m.to) : f[x] \in Int
        BY <1>1
      <4>2. m \in To(T, m.to) /\ To(T, m.to) \ {m} = To(U, m.to)
        BY <3>1
      <4>3. IsFiniteSet(To(T, m.to))
        BY <1>2
      <4> HIDE DEF f, To, U
      <4> QED BY <4>1, <4>2, <4>3, SumWithout
    <3>7. \A p \in P : Posted1(T)[p] \in Int /\ Posted1(U)[p] \in Int
      <4>1. \A p \in P : Sum(f, To(T, p)) \in Int /\ Sum(f, To(U, p)) \in Int /\ base[p] \in Int
        BY <1>2
      <4> HIDE DEF f, To, U
      <4> QED BY <4>1
    <3>8. \A p \in P \ {m.to} : Posted1(T)[p] = Posted1(U)[p]
      <4> HIDE DEF f, To, U
      <4> QED BY <3>5
    <3>9. Posted1(T)[m.to] = Posted1(U)[m.to] + f[m]
      <4>1. base[m.to] \in Int /\ f[m] \in Int /\ Sum(f, To(U, m.to)) \in Int
        BY <1>1, <1>2, <3>1, <3>4
      <4> HIDE DEF f, To, U
      <4> QED BY <3>4, <3>6, <4>1
    <3>10. Sum(Posted1(T), P) = Sum(Posted1(U), P) - Posted1(U)[m.to] + Posted1(T)[m.to]
           /\ Sum(Posted1(U), P) \in Int
      <4>1. PICK q \in P : q = m.to
        BY <3>4
      <4>2. \A p \in P \ {q} : Posted1(T)[p] = Posted1(U)[p]
        BY <3>8, <4>1
      <4> HIDE DEF Posted1, U
      <4>3. Sum(Posted1(T), P) = Sum(Posted1(U), P) - Posted1(U)[q] + Posted1(T)[q]
            /\ Sum(Posted1(U), P) \in Int
        <5>1. Differ(Posted1(U), Posted1(T), P, q)
          BY <3>7, <4>2 DEF Differ
        <5> QED BY <5>1, SumUpdate
      <4> QED BY <4>1, <4>3
    <3>11. Sum(Posted1(T), P) = Sum(base, P) + Sum(f, T)
      <4>1. f[m] \in Int /\ Sum(f, U) \in Int
        BY <1>1, <1>2, <3>1
      <4>2. Posted1(U)[m.to] \in Int
        BY <3>4, <3>7
      <4> HIDE DEF Posted1, U, f
      <4> QED BY ONLY <1>3, <3>2, <3>3, <3>9, <3>10, <4>1, <4>2
    <3> QED BY <3>11
  <2> QED BY <2>1, <2>2
<1>5. mails \in C
  <2>1. Inherits(C, mails)
    BY <1>4 DEF Inherits
  <2> HIDE DEF C
  <2> QED BY <2>1, CountDown
<1>6. Posted1(mails) = [p \in P |-> base[p] + GoldTo(mails, p)]
  BY DEF GoldTo, Sum, Coins
<1> QED BY <1>5, <1>6 DEF Total
-----------------------------------------------------------------------------
(* Transactions one after another.                                         *)

LEMMA MaxOf ==
  ASSUME NEW n \in Nat, NEW s \in SUBSET (1..n), s # {}
  PROVE  Max(s) \in s /\ \A y \in s : Max(s) >= y
<1> DEFINE C == {k \in Nat : \A t \in SUBSET (1..k) : t # {} => \E x \in t : \A y \in t : x >= y}
<1>1. 0 \in C
  <2>1. 1..0 = {}
    OBVIOUS
  <2> QED BY <2>1
<1>2. ASSUME NEW k \in 0..n, k \in C PROVE k + 1 \in C
  <2>1. ASSUME NEW t \in SUBSET (1..(k + 1)), t # {} PROVE \E x \in t : \A y \in t : x >= y
    <3>1. CASE k + 1 \in t
      BY <3>1
    <3>2. CASE k + 1 \notin t
      <4>1. t \in SUBSET (1..k)
        BY <3>2
      <4> QED BY <1>2, <2>1, <4>1
    <3> QED BY <3>1, <3>2
  <2> QED BY <2>1
<1>3. n \in C
  <2> HIDE DEF C
  <2>1. 0..n \subseteq C
    BY <1>1, <1>2, CountUp
  <2> QED BY <2>1
<1>4. \E x \in s : \A y \in s : x >= y
  BY <1>3
<1> QED BY <1>4 DEF Max

\* r[k] is what the first k transactions of ts make of b.
Run(r, b, ts) == r[0] = b /\ \A k \in DOMAIN ts : r[k] = Apply(r[k - 1], ts[k])

\* FoldLeft(Apply, b, ts) is the end of a run from b.
LEMMA FoldRun ==
  ASSUME NEW n \in Nat, NEW ts, DOMAIN ts = 1..n, NEW b \in Books,
         \A c \in Books, k \in 1..n : Apply(c, ts[k]) \in Books
  PROVE  \E r \in [0..n -> Books] : Run(r, b, ts) /\ r[n] = FoldLeft(Apply, b, ts)
<1> DEFINE S == 1..n
           step == [q \in S \X Books |-> Apply(q[2], ts[q[1]])]
           pick == [s \in SUBSET S |-> Max(s)]
           Fold(it) == [s \in SUBSET S |-> IF s = {} THEN b
                                           ELSE Apply(it[s \ {Max(s)}], ts[Max(s)])]
           it == CHOOSE it : it = Fold(it)
<1>1. \E jt : jt = Fold(jt)
  <2>1. step \in [S \X Books -> Books]
    OBVIOUS
  <2>2. Picks(pick, S)
    BY MaxOf DEF Picks
  <2>3. IsFiniteSet(S)
    BY FS_Interval
  <2>4. PICK jt \in [SUBSET S -> Books] : FoldsUp(jt, S, b, step, pick)
    <3> HIDE DEF step, pick, S
    <3> QED BY <2>1, <2>2, <2>3, FoldExists
  <2>5. ASSUME NEW s \in SUBSET S PROVE jt[s] = Fold(jt)[s]
    <3>1. CASE s = {}
      BY <2>4, <3>1 DEF FoldsUp
    <3>2. CASE s # {}
      <4>1. Max(s) \in S /\ pick[s] = Max(s)
        BY <3>2, MaxOf
      <4>2. jt[s \ {Max(s)}] \in Books
        BY <4>1
      <4>3. jt[s] = step[<<Max(s), jt[s \ {Max(s)}]>>]
        BY <2>4, <3>2, <4>1 DEF FoldsUp
      <4>4. jt[s] = Apply(jt[s \ {Max(s)}], ts[Max(s)])
        <5> HIDE DEF S
        <5> QED BY <4>1, <4>2, <4>3
      <4> QED BY <3>2, <4>4
    <3> QED BY <3>1, <3>2
  <2>6. jt = Fold(jt)
    BY <2>5
  <2> QED BY <2>6
<1>2. it = Fold(it)
  <2> HIDE DEF Fold
  <2> QED BY <1>1
<1>3. FoldLeft(Apply, b, ts) = it[S]
  BY DEF FoldLeft, MapThenFoldSet
<1> HIDE DEF it
<1>4. \A s \in SUBSET S : it[s] = IF s = {} THEN b ELSE Apply(it[s \ {Max(s)}], ts[Max(s)])
  BY <1>2
<1>5. it[{}] = b
  BY <1>4
<1>6. ASSUME NEW k \in 1..n PROVE it[1..k] = Apply(it[1..(k - 1)], ts[k])
  <2>0. k \in 1..k /\ \A j \in 1..k : j \in 1..n
    OBVIOUS
  <2>1. 1..k \in SUBSET S /\ 1..k # {} /\ k \in 1..k
    BY <2>0
  <2>2. Max(1..k) = k
    <3>1. Max(1..k) \in 1..k /\ \A y \in 1..k : Max(1..k) >= y
      BY <2>1, MaxOf
    <3>2. Max(1..k) >= k
      BY <2>1, <3>1
    <3> QED BY <3>1, <3>2
  <2>3. (1..k) \ {k} = 1..(k - 1)
    OBVIOUS
  <2> QED BY <1>4, <2>1, <2>2, <2>3
<1> DEFINE r == [k \in 0..n |-> it[1..k]]
           C == {k \in 0..n : it[1..k] \in Books}
<1>7. 1..0 = {}
  OBVIOUS
<1>8. 0 \in C
  BY <1>5, <1>7
<1>9. ASSUME NEW k \in 0..n, k < n, k \in C PROVE k + 1 \in C
  <2>1. k + 1 \in 1..n /\ (k + 1) - 1 = k
    BY <1>9
  <2>2. it[1..(k + 1)] = Apply(it[1..k], ts[k + 1])
    BY <1>6, <2>1
  <2> QED BY <1>9, <2>1, <2>2
<1>10. 0..n \subseteq C
  <2> HIDE DEF C
  <2> QED BY <1>8, <1>9, CountUp
<1>11. r \in [0..n -> Books]
  BY <1>10
<1>12. Run(r, b, ts)
  BY <1>5, <1>6, <1>7 DEF Run
<1>13. r[n] = FoldLeft(Apply, b, ts)
  BY <1>3
<1> QED BY <1>11, <1>12, <1>13

\* SetToSeq lists a finite set: each element once.
LEMMA Listed ==
  ASSUME NEW S, IsFiniteSet(S)
  PROVE  /\ Cardinality(S) \in Nat
         /\ SetToSeq(S) \in [1..Cardinality(S) -> S]
         /\ \A j, k \in 1..Cardinality(S) : SetToSeq(S)[j] = SetToSeq(S)[k] => j = k
         /\ \A x \in S : \E k \in 1..Cardinality(S) : SetToSeq(S)[k] = x
<1> DEFINE n == Cardinality(S)
           f == SetToSeq(S)
<1>1. n \in Nat /\ ExistsBijection(1..n, S)
  BY FS_CardinalityType
<1>2. \E g \in [1..n -> S] : IsInjective(g)
  BY <1>1 DEF ExistsBijection, Bijection, Injection
<1>3. f \in [1..n -> S] /\ IsInjective(f)
  BY <1>2 DEF SetToSeq
<1>4. IsFiniteSet(1..n) /\ Cardinality(1..n) = n
  BY <1>1, FS_Interval
<1>5. f \in Injection(1..n, S)
  BY <1>3 DEF Injection
<1>6. f \in Surjection(1..n, S)
  <2> HIDE DEF f
  <2> QED BY <1>4, <1>5, FS_Injection
<1> QED BY <1>1, <1>3, <1>6 DEF IsInjective, Surjection
-----------------------------------------------------------------------------
(* What a transaction does.                                                *)

Mail == [to : Player, gold : Nat, items : SUBSET Item, about : Item]

Writes ==
  [by : Player \cup {NoPlayer}, gold : Nat, bag : SUBSET Item,
   took : [gold : Nat, items : SUBSET Item], mails : SUBSET Mail,
   rows : UNION {[D -> Auction \cup {NoAuction}] : D \in SUBSET Item},
   sunk : Nat]

LEMMA WritesTyped ==
  ASSUME NEW t \in Writes
  PROVE  /\ t.by \in Player \cup {NoPlayer} /\ t.gold \in Nat /\ t.bag \in SUBSET Item
         /\ t.took.gold \in Nat /\ t.took.items \in SUBSET Item
         /\ t.mails \in SUBSET Mail /\ t.sunk \in Nat
         /\ DOMAIN t.rows \subseteq Item
         /\ \A i \in DOMAIN t.rows : t.rows[i] \in Auction \cup {NoAuction}
<1>1. t.rows \in UNION {[D -> Auction \cup {NoAuction}] : D \in SUBSET Item}
  BY DEF Writes
<1>2. PICK D \in SUBSET Item : t.rows \in [D -> Auction \cup {NoAuction}]
  BY <1>1
<1>3. t.took \in [gold : Nat, items : SUBSET Item]
  BY DEF Writes
<1>4. DOMAIN t.rows \subseteq Item /\ \A i \in DOMAIN t.rows : t.rows[i] \in Auction \cup {NoAuction}
  BY <1>2
<1>5. t.took.gold \in Nat /\ t.took.items \in SUBSET Item
  BY <1>3
<1> QED BY <1>4, <1>5 DEF Writes

\* The books after a transaction, entry by entry.
LEMMA Applied ==
  ASSUME NEW b \in Books, NEW t \in Writes
  PROVE  /\ Apply(b, t) = [gold |-> Apply(b, t).gold, bag |-> Apply(b, t).bag,
                           mail |-> Apply(b, t).mail, parcel |-> Apply(b, t).parcel,
                           row |-> Apply(b, t).row, sunk |-> Apply(b, t).sunk]
         /\ Apply(b, t).gold = [p \in Player |-> IF p = t.by THEN t.gold ELSE b.gold[p]]
         /\ Apply(b, t).bag = [p \in Player |-> IF p = t.by THEN t.bag ELSE b.bag[p]]
         /\ Apply(b, t).mail =
              [p \in Player |-> (IF p = t.by THEN b.mail[p] - t.took.gold ELSE b.mail[p])
                                + GoldTo(t.mails, p)]
         /\ Apply(b, t).parcel =
              [p \in Player |-> (IF p = t.by THEN b.parcel[p] \ t.took.items ELSE b.parcel[p])
                                \cup ItemsTo(t.mails, p)]
         /\ Apply(b, t).row =
              [i \in Item |-> IF i \in DOMAIN t.rows THEN t.rows[i] ELSE b.row[i]]
         /\ Apply(b, t).sunk = b.sunk + t.sunk
<1> DEFINE s == Saved(b, t)
           q == Posted(s, t.mails)
           c == Filed(q, t)
<1>1. /\ b = [gold |-> b.gold, bag |-> b.bag, mail |-> b.mail, parcel |-> b.parcel,
              row |-> b.row, sunk |-> b.sunk]
      /\ b.gold \in [Player -> Nat] /\ b.bag \in [Player -> SUBSET Item]
      /\ b.mail \in [Player -> Nat] /\ b.parcel \in [Player -> SUBSET Item]
  BY DEF Books
<1>2. t.by \in Player \cup {NoPlayer} /\ NoPlayer \notin Player
  BY WritesTyped, AuctionAssumption
<1>3. s = [gold |-> [p \in Player |-> IF p = t.by THEN t.gold ELSE b.gold[p]],
           bag |-> [p \in Player |-> IF p = t.by THEN t.bag ELSE b.bag[p]],
           mail |-> [p \in Player |-> IF p = t.by THEN b.mail[p] - t.took.gold ELSE b.mail[p]],
           parcel |-> [p \in Player |-> IF p = t.by THEN b.parcel[p] \ t.took.items
                                                   ELSE b.parcel[p]],
           row |-> b.row, sunk |-> b.sunk]
  <2> DEFINE g == [p \in Player |-> IF p = t.by THEN t.gold ELSE b.gold[p]]
             a == [p \in Player |-> IF p = t.by THEN t.bag ELSE b.bag[p]]
             m == [p \in Player |-> IF p = t.by THEN b.mail[p] - t.took.gold ELSE b.mail[p]]
             l == [p \in Player |-> IF p = t.by THEN b.parcel[p] \ t.took.items ELSE b.parcel[p]]
  <2>1. CASE t.by = NoPlayer
    <3>1. g = b.gold /\ a = b.bag /\ m = b.mail /\ l = b.parcel
      BY <1>1, <1>2, <2>1
    <3>2. s = b
      BY <2>1 DEF Saved
    <3> HIDE DEF s, g, a, m, l
    <3>3. s = [gold |-> g, bag |-> a, mail |-> m, parcel |-> l, row |-> b.row,
               sunk |-> b.sunk]
      BY <1>1, <3>1, <3>2
    <3> QED BY <3>3 DEF g, a, m, l
  <2>2. CASE t.by # NoPlayer
    <3>1. /\ g = [b.gold EXCEPT ![t.by] = t.gold] /\ a = [b.bag EXCEPT ![t.by] = t.bag]
          /\ m = [b.mail EXCEPT ![t.by] = @ - t.took.gold]
          /\ l = [b.parcel EXCEPT ![t.by] = @ \ t.took.items]
      BY <1>1
    <3>2. s = [gold |-> [b.gold EXCEPT ![t.by] = t.gold],
               bag |-> [b.bag EXCEPT ![t.by] = t.bag],
               mail |-> [b.mail EXCEPT ![t.by] = @ - t.took.gold],
               parcel |-> [b.parcel EXCEPT ![t.by] = @ \ t.took.items],
               row |-> b.row, sunk |-> b.sunk]
      BY <1>1, <2>2 DEF Saved
    <3> HIDE DEF s, g, a, m, l
    <3>3. s = [gold |-> g, bag |-> a, mail |-> m, parcel |-> l, row |-> b.row,
               sunk |-> b.sunk]
      BY <3>1, <3>2
    <3> QED BY <3>3 DEF g, a, m, l
  <2> QED BY <2>1, <2>2
<1> HIDE DEF s
<1>4. q = [gold |-> s.gold, bag |-> s.bag,
           mail |-> [p \in Player |-> s.mail[p] + GoldTo(t.mails, p)],
           parcel |-> [p \in Player |-> s.parcel[p] \cup ItemsTo(t.mails, p)],
           row |-> s.row, sunk |-> s.sunk]
  <2>1. s = [gold |-> s.gold, bag |-> s.bag, mail |-> s.mail, parcel |-> s.parcel,
             row |-> s.row, sunk |-> s.sunk]
    BY <1>3
  <2> DEFINE m == [p \in Player |-> s.mail[p] + GoldTo(t.mails, p)]
             l == [p \in Player |-> s.parcel[p] \cup ItemsTo(t.mails, p)]
  <2>2. q = [s EXCEPT !.mail = m, !.parcel = l]
    BY DEF q, Posted
  <2> HIDE DEF m, l
  <2>3. q = [gold |-> s.gold, bag |-> s.bag, mail |-> m, parcel |-> l,
             row |-> s.row, sunk |-> s.sunk]
    BY ONLY <2>1, <2>2
  <2> QED BY <2>3 DEF m, l
<1> HIDE DEF q
<1>5. c = [gold |-> q.gold, bag |-> q.bag, mail |-> q.mail, parcel |-> q.parcel,
           row |-> [i \in Item |-> IF i \in DOMAIN t.rows THEN t.rows[i] ELSE q.row[i]],
           sunk |-> q.sunk + t.sunk]
  <2>1. q = [gold |-> q.gold, bag |-> q.bag, mail |-> q.mail, parcel |-> q.parcel,
             row |-> q.row, sunk |-> q.sunk]
    BY <1>4
  <2> DEFINE m == [i \in Item |-> IF i \in DOMAIN t.rows THEN t.rows[i] ELSE q.row[i]]
             l == q.sunk + t.sunk
  <2>2. c = [q EXCEPT !.row = m, !.sunk = l]
    BY DEF c, Filed
  <2> HIDE DEF m, l
  <2>3. c = [gold |-> q.gold, bag |-> q.bag, mail |-> q.mail, parcel |-> q.parcel,
             row |-> m, sunk |-> l]
    BY ONLY <2>1, <2>2
  <2> QED BY <2>3 DEF m, l
<1>6. Apply(b, t) = c
  BY DEF Apply, s, q
<1> HIDE DEF c
<1>7. /\ s.gold = [p \in Player |-> IF p = t.by THEN t.gold ELSE b.gold[p]]
      /\ s.bag = [p \in Player |-> IF p = t.by THEN t.bag ELSE b.bag[p]]
      /\ s.mail = [p \in Player |-> IF p = t.by THEN b.mail[p] - t.took.gold ELSE b.mail[p]]
      /\ s.parcel = [p \in Player |-> IF p = t.by THEN b.parcel[p] \ t.took.items
                                                 ELSE b.parcel[p]]
      /\ s.row = b.row /\ s.sunk = b.sunk
  BY <1>3
<1>8. /\ q.gold = s.gold /\ q.bag = s.bag /\ q.row = s.row /\ q.sunk = s.sunk
      /\ q.mail = [p \in Player |-> s.mail[p] + GoldTo(t.mails, p)]
      /\ q.parcel = [p \in Player |-> s.parcel[p] \cup ItemsTo(t.mails, p)]
  BY <1>4
<1>9. /\ c = [gold |-> c.gold, bag |-> c.bag, mail |-> c.mail, parcel |-> c.parcel,
              row |-> c.row, sunk |-> c.sunk]
      /\ c.gold = q.gold /\ c.bag = q.bag /\ c.mail = q.mail /\ c.parcel = q.parcel
      /\ c.row = [i \in Item |-> IF i \in DOMAIN t.rows THEN t.rows[i] ELSE q.row[i]]
      /\ c.sunk = q.sunk + t.sunk
  BY <1>5
<1>10. q.mail = [p \in Player |-> (IF p = t.by THEN b.mail[p] - t.took.gold ELSE b.mail[p])
                                  + GoldTo(t.mails, p)]
  BY <1>7, <1>8
<1>11. q.parcel = [p \in Player |-> (IF p = t.by THEN b.parcel[p] \ t.took.items
                                     ELSE b.parcel[p]) \cup ItemsTo(t.mails, p)]
  BY <1>7, <1>8
<1> QED BY <1>6, <1>7, <1>8, <1>9, <1>10, <1>11

LEMMA AppliedTyped ==
  ASSUME NEW b \in Books, NEW t \in Writes, IsFiniteSet(t.mails),
         t.by \in Player => t.took.gold <= b.mail[t.by]
  PROVE  Apply(b, t) \in Books
<1> DEFINE c == Apply(b, t)
<1>1. /\ b.gold \in [Player -> Nat] /\ b.bag \in [Player -> SUBSET Item]
      /\ b.mail \in [Player -> Nat] /\ b.parcel \in [Player -> SUBSET Item]
      /\ b.row \in [Item -> Auction \cup {NoAuction}] /\ b.sunk \in Nat
  BY DEF Books
<1>1a. /\ c = [gold |-> c.gold, bag |-> c.bag, mail |-> c.mail, parcel |-> c.parcel,
               row |-> c.row, sunk |-> c.sunk]
       /\ c.gold = [p \in Player |-> IF p = t.by THEN t.gold ELSE b.gold[p]]
       /\ c.bag = [p \in Player |-> IF p = t.by THEN t.bag ELSE b.bag[p]]
       /\ c.mail = [p \in Player |-> (IF p = t.by THEN b.mail[p] - t.took.gold ELSE b.mail[p])
                                     + GoldTo(t.mails, p)]
       /\ c.parcel = [p \in Player |-> (IF p = t.by THEN b.parcel[p] \ t.took.items
                                        ELSE b.parcel[p]) \cup ItemsTo(t.mails, p)]
       /\ c.row = [i \in Item |-> IF i \in DOMAIN t.rows THEN t.rows[i] ELSE b.row[i]]
       /\ c.sunk = b.sunk + t.sunk
  BY Applied
<1>1b. /\ t.gold \in Nat /\ t.bag \in SUBSET Item /\ t.sunk \in Nat
       /\ \A i \in DOMAIN t.rows : t.rows[i] \in Auction \cup {NoAuction}
  BY WritesTyped
<1> HIDE DEF c
<1>2. c.gold \in [Player -> Nat]
  BY <1>1, <1>1a, <1>1b
<1>3. c.bag \in [Player -> SUBSET Item]
  BY <1>1, <1>1a, <1>1b
<1>4. c.mail \in [Player -> Nat]
  <2>1. ASSUME NEW p \in Player
        PROVE  (IF p = t.by THEN b.mail[p] - t.took.gold ELSE b.mail[p]) + GoldTo(t.mails, p) \in Nat
    <3>1. \A m \in t.mails : m.gold \in Nat
      BY WritesTyped DEF Mail
    <3>2. GoldTo(t.mails, p) \in Nat
      BY <3>1, GoldToIsNat
    <3>3. b.mail[p] \in Nat /\ t.took.gold \in Nat
      BY <1>1, WritesTyped
    <3>4. p = t.by => t.took.gold <= b.mail[p]
      OBVIOUS
    <3> QED BY <3>2, <3>3, <3>4
  <2> QED BY <2>1, <1>1a
<1>5. c.parcel \in [Player -> SUBSET Item]
  <2>1. ASSUME NEW p \in Player PROVE ItemsTo(t.mails, p) \in SUBSET Item
    BY WritesTyped DEF ItemsTo, Mail
  <2>2. \A p \in Player : b.parcel[p] \in SUBSET Item
    BY <1>1
  <2> QED BY <2>1, <2>2, <1>1a
<1>6. c.row \in [Item -> Auction \cup {NoAuction}]
  BY <1>1, <1>1a, <1>1b
<1>7. c.sunk \in Nat
  BY <1>1, <1>1a, <1>1b
<1>9. c \in Books
  BY <1>2, <1>3, <1>4, <1>5, <1>6, <1>7, <1>1a DEF Books
<1> QED BY <1>9 DEF c

\* The gold in the books after a transaction about one auction, or none.
Earned(b, t) == IF t.by \in Player THEN t.gold - b.gold[t.by] - t.took.gold ELSE 0
Escrowed(b, t, i) == IF i \in DOMAIN t.rows THEN Held(t.rows[i]) - Held(b.row[i]) ELSE 0

LEMMA GoldIs ==
  ASSUME NEW b \in Books
  PROVE  /\ Gold(b) = Sum(b.gold, Player) + Sum(b.mail, Player) + b.sunk
                      + Sum([i \in Item |-> Held(b.row[i])], Item)
         /\ Sum(b.gold, Player) \in Int /\ Sum(b.mail, Player) \in Int /\ b.sunk \in Int
         /\ Sum([i \in Item |-> Held(b.row[i])], Item) \in Int
         /\ \A p \in Player : b.gold[p] \in Int /\ b.mail[p] \in Int
         /\ \A i \in Item : Held(b.row[i]) \in Int
<1>1. /\ b.gold \in [Player -> Nat] /\ b.mail \in [Player -> Nat]
      /\ b.row \in [Item -> Auction \cup {NoAuction}] /\ b.sunk \in Nat
  BY DEF Books
<1>2. IsFiniteSet(Player) /\ IsFiniteSet(Item) /\ Deposit \in Nat
  BY AuctionAssumption
<1>3. (\A p \in Player : b.gold[p] \in Int) /\ (\A p \in Player : b.mail[p] \in Int)
  BY <1>1
<1>4. ASSUME NEW i \in Item PROVE Held(b.row[i]) \in Int
  <2>1. b.row[i] \in Auction \cup {NoAuction}
    BY <1>1
  <2>2. b.row[i] # NoAuction => b.row[i].bid \in Nat
    BY <2>1 DEF Auction
  <2> QED BY <1>2, <2>2 DEF Held
<1> DEFINE f == [i \in Item |-> Held(b.row[i])]
<1>5. \A i \in Item : f[i] \in Int
  BY <1>4
<1>6. Sum(b.gold, Player) \in Int /\ Sum(b.mail, Player) \in Int /\ Sum(f, Item) \in Int
  <2> HIDE DEF f
  <2> QED BY <1>2, <1>3, <1>5, SumSame
<1>7. DOMAIN b.gold = Player /\ DOMAIN b.mail = Player /\ DOMAIN f = Item
  BY <1>1
<1>8. Gold(b) = Sum(b.gold, Player) + Sum(b.mail, Player) + b.sunk + Sum(f, Item)
  BY <1>7 DEF Gold, SumFunction, Sum
<1> QED BY <1>1, <1>3, <1>4, <1>6, <1>8

LEMMA GoldOfApplied ==
  ASSUME NEW b \in Books, NEW t \in Writes, IsFiniteSet(t.mails),
         t.by \in Player => t.took.gold <= b.mail[t.by],
         NEW i, DOMAIN t.rows \subseteq {i}
  PROVE  /\ Gold(Apply(b, t)) = Gold(b) + Earned(b, t) + Total(t.mails) + t.sunk
                                + Escrowed(b, t, i)
         /\ Gold(b) \in Int
<1> DEFINE c == Apply(b, t)
           rows(x) == [j \in Item |-> Held(x.row[j])]
           base == [p \in Player |-> IF p = t.by THEN b.mail[p] - t.took.gold ELSE b.mail[p]]
<1>0. IsFiniteSet(Player) /\ IsFiniteSet(Item)
  BY AuctionAssumption
<1>1. c \in Books
  BY AppliedTyped
<1>2. /\ Gold(b) = Sum(b.gold, Player) + Sum(b.mail, Player) + b.sunk + Sum(rows(b), Item)
      /\ Sum(b.gold, Player) \in Int /\ Sum(b.mail, Player) \in Int /\ b.sunk \in Int
      /\ Sum(rows(b), Item) \in Int
      /\ \A p \in Player : b.gold[p] \in Int /\ b.mail[p] \in Int
      /\ \A j \in Item : Held(b.row[j]) \in Int
  BY GoldIs
<1>3. /\ Gold(c) = Sum(c.gold, Player) + Sum(c.mail, Player) + c.sunk + Sum(rows(c), Item)
      /\ \A p \in Player : c.gold[p] \in Int /\ c.mail[p] \in Int
      /\ \A j \in Item : Held(c.row[j]) \in Int
  <2> HIDE DEF c
  <2> QED BY <1>1, GoldIs
<1>4. /\ c.gold = [p \in Player |-> IF p = t.by THEN t.gold ELSE b.gold[p]]
      /\ c.mail = [p \in Player |-> (IF p = t.by THEN b.mail[p] - t.took.gold ELSE b.mail[p])
                                     + GoldTo(t.mails, p)]
      /\ c.row = [j \in Item |-> IF j \in DOMAIN t.rows THEN t.rows[j] ELSE b.row[j]]
      /\ c.sunk = b.sunk + t.sunk
  BY Applied
<1>5. /\ t.gold \in Nat /\ t.took.gold \in Nat /\ t.sunk \in Nat /\ t.mails \in SUBSET Mail
  BY WritesTyped
<1> HIDE DEF c
<1>6. Sum(c.gold, Player) = Sum(b.gold, Player)
                            + (IF t.by \in Player THEN t.gold - b.gold[t.by] ELSE 0)
  <2>1. CASE t.by \in Player
    <3>3. PICK q \in Player : q = t.by
      BY <2>1
    <3>1. \A p \in Player \ {q} : c.gold[p] = b.gold[p]
      BY <1>4, <3>3
    <3>2. \A p \in Player : b.gold[p] \in Int /\ c.gold[p] \in Int
      BY <1>2, <1>3
    <3>4. Sum(c.gold, Player) = Sum(b.gold, Player) - b.gold[q] + c.gold[q]
      <4>1. Differ(b.gold, c.gold, Player, q)
        BY <3>1, <3>2, <3>3 DEF Differ
      <4> QED BY <1>0, <4>1, SumUpdate
    <3>5. c.gold[q] = t.gold
      BY <1>4, <3>3
    <3>6. b.gold[q] \in Int
      BY <1>2
    <3> QED BY <1>2, <1>5, <2>1, <3>3, <3>4, <3>5, <3>6
  <2>2. CASE t.by \notin Player
    <3>1. \A p \in Player : b.gold[p] \in Int /\ c.gold[p] = b.gold[p]
      BY <1>2, <1>4, <2>2
    <3>2. Sum(c.gold, Player) = Sum(b.gold, Player)
      BY <1>0, <3>1, SumSame
    <3> QED BY <1>2, <2>2, <3>2
  <2> QED BY <2>1, <2>2
<1>7. \A p \in Player : base[p] \in Int
  BY <1>2, <1>5
<1>8. Sum(base, Player) = Sum(b.mail, Player) - (IF t.by \in Player THEN t.took.gold ELSE 0)
  <2>1. CASE t.by \in Player
    <3>1. PICK q \in Player : q = t.by
      BY <2>1
    <3>2. \A p \in Player \ {q} : base[p] = b.mail[p]
      BY <3>1
    <3>3. base[q] = b.mail[q] - t.took.gold
      BY <3>1
    <3>4. Sum(base, Player) = Sum(b.mail, Player) - b.mail[q] + base[q]
      <4>1. \A p \in Player : b.mail[p] \in Int /\ base[p] \in Int
        BY <1>2, <1>7
      <4> HIDE DEF base
      <4>2. Differ(b.mail, base, Player, q)
        BY <3>2, <4>1 DEF Differ
      <4> QED BY <1>0, <4>2, SumUpdate
    <3>5. b.mail[q] \in Int
      BY <1>2
    <3> HIDE DEF base
    <3> QED BY <1>2, <1>5, <2>1, <3>3, <3>4, <3>5
  <2>2. CASE t.by \notin Player
    <3>1. \A p \in Player : b.mail[p] \in Int /\ base[p] = b.mail[p]
      BY <1>2, <2>2
    <3>2. Sum(base, Player) = Sum(b.mail, Player)
      <4> HIDE DEF base
      <4> QED BY <1>0, <3>1, SumSame
    <3> QED BY <1>2, <2>2, <3>2
  <2> QED BY <2>1, <2>2
<1>9. Sum(c.mail, Player) = Sum(base, Player) + Total(t.mails)
  <2>1. \A m \in t.mails : m.to \in Player /\ m.gold \in Int
    BY <1>5 DEF Mail
  <2>2. c.mail = [p \in Player |-> base[p] + GoldTo(t.mails, p)]
    BY <1>4
  <2> HIDE DEF base
  <2>3. Sum([p \in Player |-> base[p] + GoldTo(t.mails, p)], Player)
        = Sum(base, Player) + Total(t.mails)
    BY <1>0, <1>7, <2>1, PostedGold
  <2> QED BY <2>2, <2>3
<1>10. /\ Sum(rows(c), Item) = Sum(rows(b), Item) + Escrowed(b, t, i)
       /\ Escrowed(b, t, i) \in Int
  <2>1. CASE i \in Item
    <3>1. \A j \in Item : rows(b)[j] \in Int /\ rows(c)[j] \in Int
      BY <1>2, <1>3
    <3>2. \A j \in Item \ {i} : rows(c)[j] = rows(b)[j]
      BY <1>4
    <3>3. rows(b)[i] = Held(b.row[i])
          /\ rows(c)[i] = IF i \in DOMAIN t.rows THEN Held(t.rows[i]) ELSE Held(b.row[i])
      BY <1>4, <2>1
    <3>4. Sum(rows(c), Item) = Sum(rows(b), Item) - rows(b)[i] + rows(c)[i]
      <4> HIDE DEF rows
      <4>1. Differ(rows(b), rows(c), Item, i)
        BY <2>1, <3>1, <3>2 DEF Differ
      <4> QED BY <1>0, <4>1, SumUpdate
    <3>5. rows(b)[i] \in Int /\ rows(c)[i] \in Int /\ Sum(rows(b), Item) \in Int
      BY <1>2, <2>1, <3>1
    <3> HIDE DEF rows
    <3> QED BY <3>3, <3>4, <3>5 DEF Escrowed
  <2>2. CASE i \notin Item
    <3>1. i \notin DOMAIN t.rows /\ DOMAIN t.rows = {}
      BY <2>2, WritesTyped
    <3>2. \A j \in Item : rows(b)[j] \in Int /\ rows(c)[j] = rows(b)[j]
      BY <1>2, <1>4, <3>1
    <3>3. Sum(rows(c), Item) = Sum(rows(b), Item) /\ Sum(rows(b), Item) \in Int
      <4> HIDE DEF rows
      <4> QED BY <1>0, <3>2, SumSame
    <3>4. Escrowed(b, t, i) = 0
      BY <3>1 DEF Escrowed
    <3> HIDE DEF rows
    <3> QED BY <3>3, <3>4
  <2> QED BY <2>1, <2>2
<1>11. Total(t.mails) \in Int
  <2>1. \A m \in t.mails : Coins(t.mails)[m] \in Int
    BY <1>5 DEF Mail, Coins
  <2> QED BY <2>1, SumSame DEF Total
<1>13. t.by \in Player => b.gold[t.by] \in Int
  BY <1>2
<1> HIDE DEF base, rows
<1>14. Gold(c) = Gold(b) + Earned(b, t) + Total(t.mails) + t.sunk + Escrowed(b, t, i)
  <2> QED BY <1>2, <1>3, <1>4, <1>5, <1>6, <1>8, <1>9, <1>10, <1>11, <1>13 DEF Earned
<1> QED BY <1>2, <1>14 DEF c
-----------------------------------------------------------------------------
(* The history that leads from the database to the memory.                 *)

\* Item i is in one bag, or in the mail of one player, or in an auction.
Located(b, i) ==
  \/ /\ \E p \in Player : \A q \in Player : i \in b.bag[q] <=> q = p
     /\ \A q \in Player : i \notin b.parcel[q]
     /\ b.row[i] = NoAuction
  \/ /\ \E p \in Player : \A q \in Player : i \in b.parcel[q] <=> q = p
     /\ \A q \in Player : i \notin b.bag[q]
     /\ b.row[i] = NoAuction
  \/ /\ \A q \in Player : i \notin b.bag[q] /\ i \notin b.parcel[q]
     /\ b.row[i] # NoAuction

\* Item i is where it was.
Unmoved(b, c, i) ==
  /\ \A q \in Player : /\ i \in b.bag[q] <=> i \in c.bag[q]
                       /\ i \in b.parcel[q] <=> i \in c.parcel[q]
  /\ b.row[i] = c.row[i]

LEMMA UnmovedIsLocated ==
  ASSUME NEW b, NEW c, NEW i, Unmoved(b, c, i), Located(b, i)
  PROVE  Located(c, i)
BY DEF Unmoved, Located

\* An auction nobody has bid on has no price; nobody bids on his own.
Sound(a) ==
  a # NoAuction => a.bidder # a.owner /\ (a.bidder = NoPlayer => a.bid = 0)
RowsSound(b) == \A i \in Item : Sound(b.row[i])

\* The books hold every item once, except those in L, and all the gold, unless
\* there is something in R.
Good(b, L, R) ==
  /\ RowsSound(b)
  /\ LogTrade => \A i \in Item \ L : Located(b, i)
  /\ R = {} => Gold(b) = SumFunction(Purse)

\* Two books differ at most in the auctions of the items in R.
Agree(b, m, R) ==
  /\ b.gold = m.gold /\ b.bag = m.bag /\ b.mail = m.mail /\ b.parcel = m.parcel
  /\ b.sunk = m.sunk
  /\ \A i \in Item \ R : b.row[i] = m.row[i]

\* The transactions ts lead from d to m, through good books.
History(d, ts, m, L, R) ==
  \E h \in [0..Len(ts) -> Books] :
    /\ Run(h, d, ts)
    /\ \A k \in 0..Len(ts) : Good(h[k], L, R)
    /\ Agree(h[Len(ts)], m, R)

\* A transaction that keeps good books good.
Proper(t, m, L) ==
  /\ IsFiniteSet(t.mails)
  /\ t.by \in Player => t.took.gold <= m.mail[t.by]
  /\ \A i \in DOMAIN t.rows : Sound(t.rows[i])
  /\ LogTrade => \A i \in Item \ L : Located(m, i) => Located(Apply(m, t), i)
  /\ Gold(Apply(m, t)) = Gold(m)

LEMMA AgreeWhole ==
  ASSUME NEW b \in Books, NEW m \in Books, Agree(b, m, {})
  PROVE  b = m
<1>1. b.row \in [Item -> Auction \cup {NoAuction}] /\ m.row \in [Item -> Auction \cup {NoAuction}]
  BY DEF Books
<1>2. \A i \in Item : b.row[i] = m.row[i]
  BY DEF Agree
<1>3. b.row = m.row
  BY <1>1, <1>2
<1>4. /\ b = [gold |-> b.gold, bag |-> b.bag, mail |-> b.mail, parcel |-> b.parcel,
              row |-> b.row, sunk |-> b.sunk]
      /\ m = [gold |-> m.gold, bag |-> m.bag, mail |-> m.mail, parcel |-> m.parcel,
              row |-> m.row, sunk |-> m.sunk]
  BY DEF Books
<1>5. /\ b.gold = m.gold /\ b.bag = m.bag /\ b.mail = m.mail /\ b.parcel = m.parcel
      /\ b.sunk = m.sunk
  BY DEF Agree
<1> QED BY <1>3, <1>4, <1>5

LEMMA AgreeUnmoved ==
  ASSUME NEW b, NEW m, NEW R, Agree(b, m, R), NEW i \in Item \ R
  PROVE  Unmoved(b, m, i) /\ Unmoved(m, b, i)
BY DEF Agree, Unmoved

LEMMA AppliedAgree ==
  ASSUME NEW b \in Books, NEW m \in Books, NEW t \in Writes, NEW R, Agree(b, m, R)
  PROVE  Agree(Apply(b, t), Apply(m, t), R)
<1> DEFINE c == Apply(b, t)
           n == Apply(m, t)
<1>1. /\ c.gold = [p \in Player |-> IF p = t.by THEN t.gold ELSE b.gold[p]]
      /\ c.bag = [p \in Player |-> IF p = t.by THEN t.bag ELSE b.bag[p]]
      /\ c.mail = [p \in Player |-> (IF p = t.by THEN b.mail[p] - t.took.gold ELSE b.mail[p])
                                    + GoldTo(t.mails, p)]
      /\ c.parcel = [p \in Player |-> (IF p = t.by THEN b.parcel[p] \ t.took.items
                                       ELSE b.parcel[p]) \cup ItemsTo(t.mails, p)]
      /\ c.row = [i \in Item |-> IF i \in DOMAIN t.rows THEN t.rows[i] ELSE b.row[i]]
      /\ c.sunk = b.sunk + t.sunk
  BY Applied
<1>2. /\ n.gold = [p \in Player |-> IF p = t.by THEN t.gold ELSE m.gold[p]]
      /\ n.bag = [p \in Player |-> IF p = t.by THEN t.bag ELSE m.bag[p]]
      /\ n.mail = [p \in Player |-> (IF p = t.by THEN m.mail[p] - t.took.gold ELSE m.mail[p])
                                    + GoldTo(t.mails, p)]
      /\ n.parcel = [p \in Player |-> (IF p = t.by THEN m.parcel[p] \ t.took.items
                                       ELSE m.parcel[p]) \cup ItemsTo(t.mails, p)]
      /\ n.row = [i \in Item |-> IF i \in DOMAIN t.rows THEN t.rows[i] ELSE m.row[i]]
      /\ n.sunk = m.sunk + t.sunk
  BY Applied
<1>3. /\ b.gold = m.gold /\ b.bag = m.bag /\ b.mail = m.mail /\ b.parcel = m.parcel
      /\ b.sunk = m.sunk
      /\ \A i \in Item \ R : b.row[i] = m.row[i]
  BY DEF Agree
<1> HIDE DEF c, n
<1>4. c.gold = n.gold /\ c.bag = n.bag /\ c.mail = n.mail /\ c.parcel = n.parcel
      /\ c.sunk = n.sunk
  BY <1>1, <1>2, <1>3
<1>5. \A i \in Item \ R : c.row[i] = n.row[i]
  BY <1>1, <1>2, <1>3
<1>6. Agree(c, n, R)
  BY <1>4, <1>5 DEF Agree
<1> QED BY <1>6 DEF c, n

\* A proper transaction keeps the books at the end of the history good.
LEMMA ProperKeepsGood ==
  ASSUME NEW L, NEW R, R \subseteq L, NEW b \in Books, NEW m \in Books, NEW t \in Writes,
         Good(b, L, R), Agree(b, m, R), Proper(t, m, L)
  PROVE  /\ Apply(b, t) \in Books /\ Good(Apply(b, t), L, R)
         /\ Agree(Apply(b, t), Apply(m, t), R)
<1> DEFINE c == Apply(b, t)
           n == Apply(m, t)
<1>1. c \in Books
  <2>1. b.mail = m.mail
    BY DEF Agree
  <2> QED BY <2>1, AppliedTyped DEF Proper
<1>2. Agree(c, n, R)
  BY AppliedAgree
<1>3. RowsSound(c)
  <2>1. c.row = [i \in Item |-> IF i \in DOMAIN t.rows THEN t.rows[i] ELSE b.row[i]]
    BY Applied
  <2> HIDE DEF c
  <2> QED BY <2>1 DEF RowsSound, Good, Proper
<1>4. ASSUME LogTrade, NEW i \in Item \ L PROVE Located(c, i)
  <2>1. Located(b, i) /\ i \in Item \ R
    BY <1>4 DEF Good
  <2>2. Located(m, i)
    BY <2>1, AgreeUnmoved, UnmovedIsLocated
  <2>3. Located(n, i)
    BY <1>4, <2>2 DEF Proper
  <2> HIDE DEF c, n
  <2> QED BY <1>2, <2>1, <2>3, AgreeUnmoved, UnmovedIsLocated
<1>5. ASSUME R = {} PROVE Gold(c) = SumFunction(Purse)
  <2>1. b = m
    BY <1>5, AgreeWhole
  <2>2. Gold(c) = Gold(b)
    BY <2>1 DEF Proper
  <2> QED BY <1>5, <2>2 DEF Good
<1> QED BY <1>1, <1>2, <1>3, <1>4, <1>5 DEF Good

\* A handler adds its transaction to the end.
LEMMA HistoryGrows ==
  ASSUME NEW L, NEW R, R \subseteq L, NEW d, NEW ts \in Seq(Writes), NEW m \in Books,
         NEW t \in Writes, History(d, ts, m, L, R), Proper(t, m, L)
  PROVE  Apply(m, t) \in Books /\ History(d, Append(ts, t), Apply(m, t), L, R)
<1> DEFINE n == Len(ts)
           us == Append(ts, t)
<1>1. n \in Nat /\ DOMAIN ts = 1..n
  BY LenProperties
<1>2. Len(us) = n + 1 /\ DOMAIN us = 1..(n + 1) /\ us[n + 1] = t
      /\ \A k \in 1..n : us[k] = ts[k]
  BY AppendProperties
<1>3. PICK h \in [0..n -> Books] :
        /\ h[0] = d /\ \A k \in 1..n : h[k] = Apply(h[k - 1], ts[k])
        /\ \A k \in 0..n : Good(h[k], L, R)
        /\ Agree(h[n], m, R)
  BY <1>1 DEF History, Run
<1> HIDE DEF n, us
<1> DEFINE c == Apply(h[n], t)
<1>4. h[n] \in Books
  BY <1>1, <1>3
<1>5. c \in Books /\ Good(c, L, R) /\ Agree(c, Apply(m, t), R)
  <2>1. PICK b \in Books : b = h[n]
    BY <1>4
  <2>2. Good(b, L, R) /\ Agree(b, m, R)
    BY <1>1, <1>3, <2>1
  <2>3. Apply(b, t) \in Books /\ Good(Apply(b, t), L, R) /\ Agree(Apply(b, t), Apply(m, t), R)
    BY <2>2, ProperKeepsGood
  <2> QED BY <2>1, <2>3
<1>6. Apply(m, t) \in Books
  BY AppliedTyped DEF Proper
<1> HIDE DEF c
<1> DEFINE g == [k \in 0..(n + 1) |-> IF k = n + 1 THEN c ELSE h[k]]
<1>7. g \in [0..(n + 1) -> Books]
  BY <1>1, <1>3, <1>5
<1>8. g[0] = d
  BY <1>1, <1>3
<1>9. ASSUME NEW k \in 1..(n + 1) PROVE g[k] = Apply(g[k - 1], us[k])
  <2>1. CASE k = n + 1
    <3>1. g[k] = c /\ g[k - 1] = h[n]
      BY <1>1, <2>1
    <3> QED BY <1>2, <2>1, <3>1 DEF c
  <2>2. CASE k # n + 1
    <3>1. k \in 1..n /\ g[k] = h[k] /\ g[k - 1] = h[k - 1]
      BY <1>1, <2>2
    <3> QED BY <1>2, <1>3, <3>1
  <2> QED BY <2>1, <2>2
<1>10. ASSUME NEW k \in 0..(n + 1) PROVE Good(g[k], L, R)
  <2>1. CASE k = n + 1
    BY <1>5, <2>1
  <2>2. CASE k # n + 1
    BY <1>1, <1>3, <2>2
  <2> QED BY <2>1, <2>2
<1>11. Agree(g[n + 1], Apply(m, t), R)
  BY <1>1, <1>5
<1> HIDE DEF g
<1>12. Run(g, d, us)
  BY <1>2, <1>8, <1>9 DEF Run
<1>13. History(d, us, Apply(m, t), L, R)
  BY <1>2, <1>7, <1>10, <1>11, <1>12 DEF History
<1> QED BY <1>6, <1>13 DEF us

\* The worker takes a transaction from its front.
LEMMA HistoryShrinks ==
  ASSUME NEW L, NEW R, NEW d, NEW ts \in Seq(Writes), ts # <<>>, NEW m,
         History(d, ts, m, L, R)
  PROVE  /\ Apply(d, Head(ts)) \in Books
         /\ History(Apply(d, Head(ts)), Tail(ts), m, L, R)
<1> DEFINE n == Len(ts)
           us == Tail(ts)
           e == Apply(d, Head(ts))
<1>1. n \in Nat /\ n # 0 /\ DOMAIN ts = 1..n /\ Head(ts) = ts[1]
  BY LenProperties, EmptySeq
<1>2. us \in Seq(Writes) /\ Len(us) = n - 1 /\ DOMAIN us = 1..(n - 1)
      /\ \A k \in 1..(n - 1) : us[k] = ts[k + 1]
  BY HeadTailProperties
<1>3. PICK h \in [0..n -> Books] :
        /\ h[0] = d /\ \A k \in 1..n : h[k] = Apply(h[k - 1], ts[k])
        /\ \A k \in 0..n : Good(h[k], L, R)
        /\ Agree(h[n], m, R)
  BY <1>1 DEF History, Run
<1> HIDE DEF n, us
<1> DEFINE g == [k \in 0..(n - 1) |-> h[k + 1]]
<1>4. g \in [0..(n - 1) -> Books]
  BY <1>1, <1>3
<1>5. 1 \in 1..n /\ 1 - 1 = 0
  BY <1>1
<1>6. h[1] = e
  BY <1>1, <1>3, <1>5
<1>7. e \in Books /\ g[0] = e
  BY <1>1, <1>3, <1>6
<1>8. ASSUME NEW k \in 1..(n - 1) PROVE g[k] = Apply(g[k - 1], us[k])
  <2>1. g[k] = h[k + 1] /\ g[k - 1] = h[k] /\ k + 1 \in 1..n /\ (k + 1) - 1 = k
    BY <1>1
  <2> QED BY <1>2, <1>3, <2>1
<1>9. \A k \in 0..(n - 1) : Good(g[k], L, R)
  BY <1>1, <1>3
<1>10. Agree(g[n - 1], m, R)
  BY <1>1, <1>3
<1> HIDE DEF g, e
<1>11. Run(g, e, us)
  BY <1>2, <1>7, <1>8 DEF Run
<1>12. History(e, us, m, L, R)
  BY <1>2, <1>4, <1>9, <1>10, <1>11 DEF History
<1> QED BY <1>7, <1>12 DEF e, us

\* Without transactions the database is what the server would load.
LEMMA HistoryStarts ==
  ASSUME NEW L, NEW R, NEW d \in Books, Good(d, L, R)
  PROVE  History(d, <<>>, d, L, R)
<1> DEFINE h == [k \in 0..0 |-> d]
<1>1. Len(<<>>) = 0 /\ DOMAIN <<>> = {} /\ h \in [0..0 -> Books] /\ h[0] = d
  BY EmptySeq
<1>2. Run(h, d, <<>>)
  BY <1>1 DEF Run
<1>3. \A k \in 0..0 : Good(h[k], L, R)
  OBVIOUS
<1>4. Agree(h[0], d, R)
  BY DEF Agree
<1> HIDE DEF h
<1> QED BY <1>1, <1>2, <1>3, <1>4 DEF History

\* What the database has now is good too.
LEMMA HistoryIsGood ==
  ASSUME NEW L, NEW R, NEW d, NEW ts \in Seq(Writes), NEW m, History(d, ts, m, L, R)
  PROVE  d \in Books /\ Good(d, L, R)
<1>1. Len(ts) \in Nat
  BY LenProperties
<1> QED BY <1>1 DEF History, Run

\* Once an item is given up it stays so.
LEMMA HistoryForgets ==
  ASSUME NEW L, NEW R, NEW L1, NEW R1, L \subseteq L1, R \subseteq R1,
         NEW d, NEW ts, NEW m, History(d, ts, m, L, R)
  PROVE  History(d, ts, m, L1, R1)
<1>1. ASSUME NEW b, Good(b, L, R) PROVE Good(b, L1, R1)
  BY <1>1 DEF Good
<1>2. ASSUME NEW b, Agree(b, m, R) PROVE Agree(b, m, R1)
  BY <1>2 DEF Agree
<1> QED BY <1>1, <1>2 DEF History
-----------------------------------------------------------------------------
(* Proper transactions.                                                    *)

LEMMA MailTyped ==
  ASSUME NEW p \in Player, NEW gold \in Nat, NEW i \in Item
  PROVE  /\ GoldMail(p, gold, i) \in Mail /\ ItemMail(p, i) \in Mail
         /\ GoldMail(p, gold, i).gold = gold /\ GoldMail(p, gold, i).to = p
         /\ GoldMail(p, gold, i).items = {}
         /\ ItemMail(p, i).gold = 0 /\ ItemMail(p, i).to = p /\ ItemMail(p, i).items = {i}
BY DEF GoldMail, ItemMail, Mail

\* A transaction about the auction of item i.
Typed(p, gold, bag, mails, i, x, sunk) ==
  /\ p \in Player \cup {NoPlayer} /\ gold \in Nat /\ bag \in SUBSET Item
  /\ mails \in SUBSET Mail /\ i \in Item /\ x \in Auction \cup {NoAuction}
  /\ sunk \in Nat

LEMMA TransactionTyped ==
  ASSUME NEW p, NEW gold, NEW bag, NEW mails, NEW i, NEW x, NEW sunk,
         Typed(p, gold, bag, mails, i, x, sunk),
         NEW t, t = Transaction(p, gold, bag, mails, Row(i, x), sunk)
  PROVE  /\ t \in Writes
         /\ t.by = p /\ t.gold = gold /\ t.bag = bag /\ t.mails = mails
         /\ t.sunk = sunk /\ t.took.gold = 0 /\ t.took.items = {}
         /\ DOMAIN t.rows = {i} /\ t.rows[i] = x
<1> DEFINE r == Row(i, x)
<1> USE DEF Typed
<1>1. r \in [{i} -> Auction \cup {NoAuction}] /\ DOMAIN r = {i} /\ r[i] = x
  BY DEF Row
<1>2. r \in UNION {[D -> Auction \cup {NoAuction}] : D \in SUBSET Item}
  <2>1. {i} \in SUBSET Item
    OBVIOUS
  <2> HIDE DEF r
  <2> QED BY <1>1, <2>1
<1>3. t = [by |-> p, gold |-> gold, bag |-> bag, took |-> [gold |-> 0, items |-> {}],
           mails |-> mails, rows |-> r, sunk |-> sunk]
  BY DEF Transaction
<1>4. [gold |-> 0, items |-> {}] \in [gold : Nat, items : SUBSET Item]
  OBVIOUS
<1> HIDE DEF r
<1>5. t \in Writes
  BY <1>2, <1>3, <1>4 DEF Writes
<1>6. /\ t.by = p /\ t.gold = gold /\ t.bag = bag /\ t.mails = mails
      /\ t.sunk = sunk /\ t.took.gold = 0 /\ t.took.items = {} /\ t.rows = r
  BY <1>3
<1> QED BY <1>1, <1>5, <1>6

\* A transaction that is not about item i leaves it where it is.
LEMMA Elsewhere ==
  ASSUME NEW b \in Books, NEW t \in Writes, NEW i \in Item, i \notin DOMAIN t.rows,
         \A m \in t.mails : i \notin m.items,
         t.by \in Player => /\ i \in t.bag <=> i \in b.bag[t.by]
                            /\ i \notin t.took.items
  PROVE  Unmoved(b, Apply(b, t), i)
<1> DEFINE c == Apply(b, t)
<1>1. /\ c.bag = [p \in Player |-> IF p = t.by THEN t.bag ELSE b.bag[p]]
      /\ c.parcel = [p \in Player |-> (IF p = t.by THEN b.parcel[p] \ t.took.items
                                       ELSE b.parcel[p]) \cup ItemsTo(t.mails, p)]
      /\ c.row = [j \in Item |-> IF j \in DOMAIN t.rows THEN t.rows[j] ELSE b.row[j]]
  BY Applied
<1> HIDE DEF c
<1>2. c.row[i] = b.row[i]
  BY <1>1
<1>3. ASSUME NEW q \in Player PROVE i \in b.bag[q] <=> i \in c.bag[q]
  BY <1>1
<1>4. ASSUME NEW q \in Player PROVE i \in b.parcel[q] <=> i \in c.parcel[q]
  <2>1. i \notin ItemsTo(t.mails, q)
    BY DEF ItemsTo
  <2> QED BY <1>1, <2>1
<1>5. Unmoved(b, c, i)
  BY <1>2, <1>3, <1>4 DEF Unmoved
<1> QED BY <1>5 DEF c

\* The auction of item i ends and the item is sent to a player.
LEMMA Delivered ==
  ASSUME NEW b \in Books, NEW t \in Writes, NEW i \in Item, Located(b, i),
         b.row[i] # NoAuction, i \in DOMAIN t.rows, t.rows[i] = NoAuction,
         t.by \in Player => (i \notin t.bag),
         NEW w \in Player, \E m \in t.mails : m.to = w /\ i \in m.items,
         \A m \in t.mails : m.to = w \/ i \notin m.items
  PROVE  Located(Apply(b, t), i)
<1> DEFINE c == Apply(b, t)
<1>1. /\ c.bag = [p \in Player |-> IF p = t.by THEN t.bag ELSE b.bag[p]]
      /\ c.parcel = [p \in Player |-> (IF p = t.by THEN b.parcel[p] \ t.took.items
                                       ELSE b.parcel[p]) \cup ItemsTo(t.mails, p)]
      /\ c.row = [j \in Item |-> IF j \in DOMAIN t.rows THEN t.rows[j] ELSE b.row[j]]
  BY Applied
<1> HIDE DEF c
<1>2. \A q \in Player : i \notin b.bag[q] /\ i \notin b.parcel[q]
  BY DEF Located
<1>3. ASSUME NEW q \in Player PROVE i \in c.parcel[q] <=> q = w
  <2>1. i \in ItemsTo(t.mails, q) <=> \E m \in t.mails : m.to = q /\ i \in m.items
    BY DEF ItemsTo
  <2>2. i \in ItemsTo(t.mails, q) <=> q = w
    BY <2>1
  <2> QED BY <1>1, <1>2, <2>2
<1>4. \A q \in Player : i \notin c.bag[q]
  BY <1>1, <1>2
<1>5. c.row[i] = NoAuction
  BY <1>1
<1>6. Located(c, i)
  BY <1>3, <1>4, <1>5 DEF Located
<1> QED BY <1>6 DEF c

\* The auction of item i begins or goes on, and the item is in no bag.
LEMMA Auctioned ==
  ASSUME NEW b \in Books, NEW t \in Writes, NEW i \in Item, Located(b, i),
         i \in DOMAIN t.rows, t.rows[i] # NoAuction,
         t.by \in Player, i \notin t.bag,
         b.row[i] # NoAuction \/ i \in b.bag[t.by],
         \A m \in t.mails : i \notin m.items
  PROVE  Located(Apply(b, t), i)
<1> DEFINE c == Apply(b, t)
<1>1. /\ c.bag = [p \in Player |-> IF p = t.by THEN t.bag ELSE b.bag[p]]
      /\ c.parcel = [p \in Player |-> (IF p = t.by THEN b.parcel[p] \ t.took.items
                                       ELSE b.parcel[p]) \cup ItemsTo(t.mails, p)]
      /\ c.row = [j \in Item |-> IF j \in DOMAIN t.rows THEN t.rows[j] ELSE b.row[j]]
  BY Applied
<1> HIDE DEF c
<1>2. \A q \in Player : i \in b.bag[q] => q = t.by
  BY DEF Located
<1>3. \A q \in Player : i \notin b.parcel[q]
  BY DEF Located
<1>4. ASSUME NEW q \in Player PROVE i \notin c.bag[q]
  BY <1>1, <1>2
<1>5. ASSUME NEW q \in Player PROVE i \notin c.parcel[q]
  <2>1. i \notin ItemsTo(t.mails, q)
    BY DEF ItemsTo
  <2> QED BY <1>1, <1>3, <2>1
<1>6. c.row[i] # NoAuction
  BY <1>1
<1>7. Located(c, i)
  BY <1>4, <1>5, <1>6 DEF Located
<1> QED BY <1>7 DEF c

\* What p gets, what is sent, taken and held adds up to nothing.
Balanced(b, p, gold, mails, i, x, sunk) ==
  (IF p \in Player THEN gold - b.gold[p] ELSE 0) + Total(mails) + sunk
    + Held(x) - Held(b.row[i]) = 0

\* A transaction about an auction is proper if its item stays in one place and
\* its gold adds up.
LEMMA AuctionIsProper ==
  ASSUME NEW b \in Books, NEW L,
         NEW p, NEW gold, NEW bag, NEW mails, NEW i, NEW x, NEW sunk,
         Typed(p, gold, bag, mails, i, x, sunk),
         NEW t, t = Transaction(p, gold, bag, mails, Row(i, x), sunk),
         IsFiniteSet(mails), Sound(x), \A m \in mails : m.items \subseteq {i},
         p \in Player => bag \cup {i} = b.bag[p] \cup {i},
         LogTrade /\ i \notin L /\ Located(b, i) => Located(Apply(b, t), i),
         Balanced(b, p, gold, mails, i, x, sunk)
  PROVE  t \in Writes /\ Proper(t, b, L)
<1>1. /\ t \in Writes
      /\ t.by = p /\ t.gold = gold /\ t.bag = bag /\ t.mails = mails
      /\ t.sunk = sunk /\ t.took.gold = 0 /\ t.took.items = {}
      /\ DOMAIN t.rows = {i} /\ t.rows[i] = x
  BY TransactionTyped
<1> USE DEF Typed
<1>2. b.gold \in [Player -> Nat] /\ b.mail \in [Player -> Nat] /\ b.bag \in [Player -> SUBSET Item]
  BY DEF Books
<1>3. t.by \in Player => t.took.gold <= b.mail[t.by]
  BY <1>1, <1>2
<1>4. \A j \in DOMAIN t.rows : Sound(t.rows[j])
  BY <1>1
<1>5. ASSUME LogTrade, NEW j \in Item \ L, Located(b, j) PROVE Located(Apply(b, t), j)
  <2>1. CASE j = i
    BY <1>5, <2>1
  <2>2. CASE j # i
    <3>1. j \notin DOMAIN t.rows /\ \A m \in t.mails : j \notin m.items
      BY <1>1, <2>2
    <3>2. t.by \in Player => (j \in t.bag <=> j \in b.bag[t.by]) /\ j \notin t.took.items
      BY <1>1, <2>2
    <3>3. Unmoved(b, Apply(b, t), j)
      BY <1>1, <3>1, <3>2, Elsewhere
    <3> QED BY <1>5, <3>3, UnmovedIsLocated
  <2> QED BY <2>1, <2>2
<1>6. Gold(Apply(b, t)) = Gold(b)
  <2>1. Gold(Apply(b, t)) = Gold(b) + Earned(b, t) + Total(t.mails) + t.sunk
                            + Escrowed(b, t, i)
        /\ Gold(b) \in Int
    <3>1. DOMAIN t.rows \subseteq {i} /\ IsFiniteSet(t.mails)
      BY <1>1
    <3> QED BY <1>1, <1>3, <3>1, GoldOfApplied
  <2>2. Earned(b, t) = IF p \in Player THEN gold - b.gold[p] ELSE 0
    BY <1>1, <1>2 DEF Earned
  <2>3. Escrowed(b, t, i) = Held(x) - Held(b.row[i])
    BY <1>1 DEF Escrowed
  <2>4. (IF p \in Player THEN gold - b.gold[p] ELSE 0) \in Int
    BY <1>2
  <2>5. Total(mails) \in Int
    <3>1. \A m \in mails : Coins(mails)[m] \in Int
      BY DEF Mail, Coins
    <3> QED BY <3>1, SumSame DEF Total
  <2>6. Held(x) \in Int /\ Held(b.row[i]) \in Int
    <3>1. x # NoAuction => x.bid \in Nat
      BY DEF Auction
    <3>2. Deposit \in Nat
      BY AuctionAssumption
    <3>3. Held(x) \in Int
      BY <3>1, <3>2 DEF Held
    <3>4. Held(b.row[i]) \in Int
      BY GoldIs
    <3> QED BY <3>3, <3>4
  <2> DEFINE e == IF p \in Player THEN gold - b.gold[p] ELSE 0
             k == Held(x)
             l == Held(b.row[i])
  <2>7. e + Total(mails) + sunk + k - l = 0 /\ sunk \in Nat
    BY DEF Balanced
  <2>8. Earned(b, t) = e /\ Escrowed(b, t, i) = k - l /\ t.mails = mails /\ t.sunk = sunk
    BY <1>1, <2>2, <2>3
  <2>8a. Gold(Apply(b, t)) = Gold(b) + e + Total(mails) + sunk + (k - l)
    <3> HIDE DEF e, k, l
    <3> QED BY ONLY <2>1, <2>8
  <2>9. e \in Int /\ k \in Int /\ l \in Int
    BY <2>4, <2>6
  <2> HIDE DEF e, k, l
  <2>10. Gold(b) \in Int
    BY <2>1
  <2> QED BY ONLY <2>5, <2>7, <2>8a, <2>9, <2>10
<1> QED BY <1>1, <1>3, <1>4, <1>5, <1>6 DEF Proper
-----------------------------------------------------------------------------
(* The handlers, while the server is up.                                   *)

LEMMA Percent ==
  ASSUME NEW n \in Nat, NEW k \in Nat, NEW c \in 0..100, n = k * c
  PROVE  n \div 100 \in Nat /\ n \div 100 <= k
<1>1. n <= k * 100
  OBVIOUS
<1>2. n \div 100 \in Nat
  OBVIOUS
<1>3. n \div 100 <= k
  <2>1. n \in Nat /\ k \in Nat
    OBVIOUS
  <2> QED BY ONLY <1>1, <2>1
<1> QED BY <1>2, <1>3

LEMMA CutTyped ==
  ASSUME NEW a, a.bid \in Nat
  PROVE  /\ GetAuctionCut(a) \in Nat /\ GetAuctionCut(a) <= a.bid
         /\ Profit(a) \in Nat /\ Profit(a) + GetAuctionCut(a) = a.bid + Deposit
<1>1. PICK n \in Nat : n = a.bid * CutPercent
  BY AuctionAssumption
<1>2. n \div 100 \in Nat /\ n \div 100 <= a.bid
  BY <1>1, Percent, AuctionAssumption
<1>3. GetAuctionCut(a) = n \div 100
  BY <1>1 DEF GetAuctionCut
<1>4. PICK cut \in Nat : cut = GetAuctionCut(a) /\ cut <= a.bid
  BY <1>2, <1>3
<1>5. Profit(a) = (a.bid + Deposit) - cut /\ Deposit \in Nat
  BY <1>4, AuctionAssumption DEF Profit
<1> QED BY <1>4, <1>5

LEMMA RowTyped ==
  ASSUME NEW b \in Books, NEW i \in Item, b.row[i] # NoAuction
  PROVE  /\ b.row[i] \in Auction
         /\ b.row[i].owner \in Player /\ b.row[i].bidder \in Player \cup {NoPlayer}
         /\ b.row[i].bid \in Nat /\ b.row[i].startbid \in Nat /\ b.row[i].buyout \in Nat
<1>1. b.row \in [Item -> Auction \cup {NoAuction}]
  BY DEF Books
<1>2. b.row[i] \in Auction
  BY <1>1
<1> QED BY <1>2 DEF Auction

LEMMA HeldIs ==
  /\ Held(NoAuction) = 0
  /\ \A a \in Auction : Held(a) = a.bid + Deposit
BY RowAssumption DEF Held

\* The totals of the mails the handlers send.
LEMMA TotalOfOne ==
  ASSUME NEW m \in Mail
  PROVE  IsFiniteSet({m}) /\ Total({m}) = m.gold
<1>1. IsFiniteSet({}) /\ IsFiniteSet({m}) /\ m \notin {} /\ {} \cup {m} = {m}
  BY FS_EmptySet, FS_Singleton
<1>2. \A x \in {} \cup {m} : x.gold \in Int
  BY DEF Mail
<1>3. Total({} \cup {m}) = Total({}) + m.gold
  BY <1>1, <1>2, TotalOfOneMore
<1>4. m.gold \in Nat
  BY DEF Mail
<1> QED BY <1>1, <1>3, <1>4, TotalOfNone

LEMMA TotalOfMore ==
  ASSUME NEW mails \in SUBSET Mail, IsFiniteSet(mails), NEW m \in Mail, m \notin mails
  PROVE  /\ IsFiniteSet(mails \cup {m}) /\ Total(mails \cup {m}) = Total(mails) + m.gold
         /\ Total(mails) \in Int /\ m.gold \in Nat
<1>1. IsFiniteSet(mails \cup {m})
  BY FS_AddElement
<1>2. \A x \in mails \cup {m} : x.gold \in Int
  BY DEF Mail
<1>3. Total(mails \cup {m}) = Total(mails) + m.gold /\ Total(mails) \in Int
  BY <1>2, TotalOfOneMore
<1> QED BY <1>1, <1>3 DEF Mail

LEMMA RefundIs ==
  ASSUME NEW b \in Books, NEW i \in Item, b.row[i] # NoAuction, Sound(b.row[i]),
         NEW p \in Player \cup {NoPlayer}
  PROVE  /\ Refund(b.row[i], p, i) \in SUBSET Mail /\ IsFiniteSet(Refund(b.row[i], p, i))
         /\ \A m \in Refund(b.row[i], p, i) : m.items = {} /\ m.to # b.row[i].owner
         /\ Refund(b.row[i], p, i) = {} \/ \E m \in Mail : Refund(b.row[i], p, i) = {m}
         /\ Total(Refund(b.row[i], p, i))
            = IF b.row[i].bidder = p THEN 0 ELSE b.row[i].bid
<1> DEFINE a == b.row[i]
<1>1. /\ a.owner \in Player /\ a.bidder \in Player \cup {NoPlayer} /\ a.bid \in Nat
      /\ a.bidder # a.owner /\ (a.bidder = NoPlayer => a.bid = 0)
  BY RowTyped DEF Sound
<1> HIDE DEF a
<1>2. CASE a.bidder \in {NoPlayer, p}
  <2>1. Refund(a, p, i) = {}
    BY <1>2 DEF Refund
  <2>2. Total(Refund(a, p, i)) = 0 /\ IsFiniteSet(Refund(a, p, i))
    BY <2>1, TotalOfNone, FS_EmptySet
  <2> QED BY <1>1, <1>2, <2>1, <2>2 DEF a
<1>3. CASE a.bidder \notin {NoPlayer, p}
  <2> DEFINE m == GoldMail(a.bidder, a.bid, i)
  <2>1. Refund(a, p, i) = {m}
    BY <1>3 DEF Refund
  <2>2. a.bidder \in Player
    BY <1>1, <1>3
  <2>3. m \in Mail /\ m.gold = a.bid /\ m.to = a.bidder /\ m.items = {}
    BY <1>1, <2>2, MailTyped
  <2> HIDE DEF m
  <2>4. IsFiniteSet({m}) /\ Total({m}) = m.gold
    BY <2>3, TotalOfOne
  <2> QED BY <1>1, <1>3, <2>1, <2>3, <2>4 DEF a
<1> QED BY <1>2, <1>3

\* In memory every auction has its item, and can be settled.
Up ==
  /\ mem \in Books
  /\ RowsSound(mem)
  /\ Open(mem) \subseteq aitems

\* What a handler does to the auctions agrees with what it does to aitems.
Covers(t) ==
  /\ aitems' \subseteq Item /\ due' \subseteq Item
  /\ \A i \in Item : IF i \in DOMAIN t.rows
                     THEN t.rows[i] # NoAuction => i \in aitems'
                     ELSE i \in aitems => i \in aitems'

\* The item of an open auction is in no bag.
LEMMA NotInBag ==
  ASSUME NEW b, NEW i, Located(b, i), b.row[i] # NoAuction, NEW p \in Player
  PROVE  i \notin b.bag[p]
BY DEF Located

LEMMA SellIsProper ==
  ASSUME Up, aitems \subseteq Item, due \subseteq Item,
         NEW p \in Player, NEW i \in Item, NEW o \in Offer, HandleAuctionSellItem(p, i, o)
  PROVE  \E t \in Writes : Commit(t) /\ Proper(t, mem, lapsed) /\ Covers(t)
<1> DEFINE x == [owner |-> p, bidder |-> NoPlayer, bid |-> 0,
                 startbid |-> o.startbid, buyout |-> o.buyout]
           gold == mem.gold[p] - Deposit
           bag == mem.bag[p] \ {i}
<1>1. PICK t : t = Transaction(p, gold, bag, {}, Row(i, x), 0)
  OBVIOUS
<1>2. /\ Commit(t) /\ i \in mem.bag[p] /\ i \notin aitems /\ mem.gold[p] >= Deposit
      /\ aitems' = aitems \cup {i} /\ due' = due \ {i}
  BY <1>1 DEF HandleAuctionSellItem
<1>3. /\ mem \in Books /\ mem.gold[p] \in Nat /\ mem.bag[p] \in SUBSET Item /\ Deposit \in Nat
      /\ NoPlayer \notin Player
  BY AuctionAssumption DEF Up, Books
<1>4. x \in Auction /\ x # NoAuction /\ x.bid = 0 /\ x.bidder = NoPlayer /\ x.owner = p
  <2>1. o.startbid \in Nat /\ o.buyout \in Nat
    BY AuctionAssumption
  <2>2. x \in Auction
    BY <2>1 DEF Auction
  <2> QED BY <2>2, RowAssumption
<1>5. mem.row[i] = NoAuction
  BY <1>2 DEF Up, Open
<1>6. gold \in Nat /\ bag \in SUBSET Item /\ i \notin bag
  BY <1>2, <1>3
<1> HIDE DEF x
<1>7. Typed(p, gold, bag, {}, i, x, 0)
  BY <1>4, <1>6 DEF Typed
<1>8. IsFiniteSet({}) /\ Sound(x) /\ \A m \in {} : m.items \subseteq {i}
  BY <1>3, <1>4, FS_EmptySet DEF Sound
<1>9. p \in Player => bag \cup {i} = mem.bag[p] \cup {i}
  OBVIOUS
<1>10. Balanced(mem, p, gold, {}, i, x, 0)
  <2>1. Total({}) = 0 /\ Held(x) = Deposit /\ Held(mem.row[i]) = 0
    BY <1>3, <1>4, <1>5, HeldIs, TotalOfNone
  <2> QED BY <1>3, <2>1 DEF Balanced
<1>11. /\ t \in Writes /\ t.by = p /\ t.bag = bag /\ t.mails = {}
       /\ DOMAIN t.rows = {i} /\ t.rows[i] = x
  <2> HIDE DEF gold, bag
  <2> QED BY <1>1, <1>7, TransactionTyped
<1>12. ASSUME LogTrade, i \notin lapsed, Located(mem, i) PROVE Located(Apply(mem, t), i)
  <2>1. i \in DOMAIN t.rows /\ t.rows[i] # NoAuction /\ t.by \in Player /\ i \notin t.bag
        /\ i \in mem.bag[t.by] /\ \A m \in t.mails : i \notin m.items
    BY <1>2, <1>4, <1>6, <1>11
  <2> QED BY <1>3, <1>11, <1>12, <2>1, Auctioned
<1>13. Proper(t, mem, lapsed)
  <2> HIDE DEF gold, bag
  <2> QED BY <1>1, <1>3, <1>7, <1>8, <1>9, <1>10, <1>12, AuctionIsProper
<1>14. Covers(t)
  BY <1>2, <1>11 DEF Covers
<1> QED BY <1>2, <1>11, <1>13, <1>14

LEMMA BidIsProper ==
  ASSUME Up, aitems \subseteq Item, due \subseteq Item,
         NEW p \in Player, NEW i \in Item, NEW price \in Price,
         HandleAuctionPlaceBid(p, i, price), Bid(p, i, price)
  PROVE  \E t \in Writes : Commit(t) /\ Proper(t, mem, lapsed) /\ Covers(t)
<1> DEFINE a == mem.row[i]
           x == [a EXCEPT !.bidder = p, !.bid = price]
           gold == mem.gold[p] - Cost(a, p, price)
           mails == Refund(a, p, i)
<1>1. PICK t : t = Transaction(p, gold, mem.bag[p], mails, Row(i, x), 0)
  OBVIOUS
<1>2. /\ Commit(t) /\ a # NoAuction /\ a.owner # p /\ price > a.bid /\ mem.gold[p] >= price
      /\ aitems' = aitems /\ due' = due
  BY <1>1 DEF HandleAuctionPlaceBid, Bid, Acceptable
<1>3. /\ mem \in Books /\ mem.gold[p] \in Nat /\ mem.bag[p] \in SUBSET Item
      /\ Deposit \in Nat /\ price \in Nat /\ NoPlayer \notin Player
  BY AuctionAssumption DEF Up, Books
<1>4. /\ a \in Auction /\ a.owner \in Player /\ a.bid \in Nat /\ Sound(a)
      /\ i \in aitems
  <2>1. a \in Auction /\ a.owner \in Player /\ a.bid \in Nat
    BY <1>2, <1>3, RowTyped
  <2>2. Sound(a)
    BY DEF Up, RowsSound
  <2>3. i \in aitems
    BY <1>2 DEF Up, Open
  <2> QED BY <2>1, <2>2, <2>3
<1>5. x \in Auction /\ x # NoAuction /\ x.bid = price /\ x.bidder = p /\ x.owner = a.owner
  <2>1. x \in Auction /\ x.bid = price /\ x.bidder = p /\ x.owner = a.owner
    BY <1>3, <1>4 DEF Auction
  <2> QED BY <2>1, RowAssumption
<1>6. /\ mails \in SUBSET Mail /\ IsFiniteSet(mails) /\ \A m \in mails : m.items = {}
      /\ Total(mails) = IF a.bidder = p THEN 0 ELSE a.bid
  BY <1>2, <1>3, <1>4, RefundIs
<1>7. gold \in Nat /\ gold = mem.gold[p] - (IF a.bidder = p THEN price - a.bid ELSE price)
  BY <1>2, <1>3, <1>4 DEF Cost
<1>8. Balanced(mem, p, gold, mails, i, x, 0)
  <2>1. Held(x) = price + Deposit /\ Held(a) = a.bid + Deposit
    BY <1>4, <1>5, HeldIs
  <2> HIDE DEF a, x, mails, gold
  <2>2. gold - mem.gold[p] + Total(mails) + 0 + Held(x) - Held(a) = 0
    BY <1>3, <1>4, <1>6, <1>7, <2>1
  <2> QED BY <2>2 DEF Balanced, a
<1> HIDE DEF x, mails, gold
<1>9. Typed(p, gold, mem.bag[p], mails, i, x, 0)
  BY <1>3, <1>5, <1>6, <1>7 DEF Typed
<1>10. Sound(x) /\ \A m \in mails : m.items \subseteq {i}
  BY <1>2, <1>3, <1>5, <1>6 DEF Sound
<1>11. p \in Player => mem.bag[p] \cup {i} = mem.bag[p] \cup {i}
  OBVIOUS
<1>12. /\ t \in Writes /\ t.by = p /\ t.bag = mem.bag[p] /\ t.mails = mails
       /\ DOMAIN t.rows = {i} /\ t.rows[i] = x
  BY <1>1, <1>9, TransactionTyped
<1>13. ASSUME LogTrade, i \notin lapsed, Located(mem, i) PROVE Located(Apply(mem, t), i)
  <2>1. i \notin mem.bag[p]
    BY <1>2, <1>13, NotInBag
  <2>2. i \in DOMAIN t.rows /\ t.rows[i] # NoAuction /\ t.by \in Player /\ i \notin t.bag
        /\ mem.row[i] # NoAuction /\ \A m \in t.mails : i \notin m.items
    BY <1>2, <1>5, <1>6, <1>12, <2>1
  <2> QED BY <1>3, <1>12, <1>13, <2>2, Auctioned
<1>14. Proper(t, mem, lapsed)
  BY <1>1, <1>3, <1>6, <1>8, <1>9, <1>10, <1>11, <1>13, AuctionIsProper
<1>15. Covers(t)
  BY <1>2, <1>4, <1>12 DEF Covers
<1> QED BY <1>2, <1>12, <1>14, <1>15

\* The mails with which an auction is settled, to a winner or to nobody.
LEMMA SettlementIs ==
  ASSUME NEW a \in Auction, Sound(a), NEW i \in Item, NEW online
  PROVE  /\ SettlementMails(a, i, online) \in SUBSET Mail
         /\ IsFiniteSet(SettlementMails(a, i, online))
         /\ \A m \in SettlementMails(a, i, online) : m.items \subseteq {i}
         /\ \A m \in SettlementMails(a, i, online) : m.to = a.owner \/ m.items = {i}
         /\ Total(SettlementMails(a, i, online)) + SettlementTakings(a) = a.bid + Deposit
         /\ SettlementTakings(a) \in Nat
         /\ i \in aitems /\ (LogTrade \/ a.bidder \in online) =>
              LET w == IF a.bidder = NoPlayer THEN a.owner ELSE a.bidder
              IN  /\ w \in Player
                  /\ \E m \in SettlementMails(a, i, online) : m.to = w /\ i \in m.items
                  /\ \A m \in SettlementMails(a, i, online) : m.to = w \/ i \notin m.items
<1> DEFINE mails == SettlementMails(a, i, online)
<1>1. /\ a.owner \in Player /\ a.bidder \in Player \cup {NoPlayer} /\ a.bid \in Nat
      /\ Deposit \in Nat /\ NoPlayer \notin Player
      /\ a # NoAuction /\ (a.bidder = NoPlayer => a.bid = 0)
  BY RowAssumption, AuctionAssumption DEF Auction, Sound
<1>2. CASE a.bidder = NoPlayer
  <2> DEFINE m == ItemMail(a.owner, i)
  <2>1. mails = IF i \in aitems THEN {m} ELSE {}
    BY <1>2 DEF SettlementMails
  <2>2. m \in Mail /\ m.gold = 0 /\ m.to = a.owner /\ m.items = {i}
    BY <1>1, MailTyped
  <2> HIDE DEF m, mails
  <2>3. IsFiniteSet({m}) /\ Total({m}) = m.gold /\ IsFiniteSet({}) /\ Total({}) = 0
    BY <2>2, TotalOfOne, TotalOfNone, FS_EmptySet
  <2>4. SettlementTakings(a) = Deposit
    BY <1>2 DEF SettlementTakings
  <2>5. Total(mails) + SettlementTakings(a) = a.bid + Deposit
    BY <1>1, <1>2, <2>1, <2>2, <2>3, <2>4
  <2>6. mails \in SUBSET Mail /\ IsFiniteSet(mails) /\ \A n \in mails : n.items = {i}
    BY <2>1, <2>2, <2>3
  <2>7. /\ a.owner \in Player /\ (i \in aitems => \E n \in mails : n.to = a.owner /\ i \in n.items)
        /\ \A n \in mails : n.to = a.owner \/ i \notin n.items
    BY <1>1, <2>1, <2>2
  <2> QED BY <1>1, <1>2, <2>4, <2>5, <2>6, <2>7 DEF mails
<1>3. CASE a.bidder # NoPlayer
  <2> DEFINE m == GoldMail(a.owner, Profit(a), i)
             n == ItemMail(a.bidder, i)
  <2>0. a.bidder \in Player
    BY <1>1, <1>3
  <2>1. mails = {m} \cup (IF i \in aitems /\ (a.bidder \in online \/ LogTrade) THEN {n} ELSE {})
    BY <1>3 DEF SettlementMails, WonMail
  <2>2. GetAuctionCut(a) \in Nat /\ Profit(a) \in Nat
        /\ Profit(a) + GetAuctionCut(a) = a.bid + Deposit
    BY <1>1, CutTyped
  <2>3. m \in Mail /\ m.gold = Profit(a) /\ m.to = a.owner /\ m.items = {}
    BY <1>1, <2>2, MailTyped
  <2>4. n \in Mail /\ n.gold = 0 /\ n.to = a.bidder /\ n.items = {i}
    BY <1>1, <2>0, MailTyped
  <2> HIDE DEF m, n, mails
  <2>5. IsFiniteSet({m}) /\ Total({m}) = Profit(a)
    BY <2>3, TotalOfOne
  <2>6. IsFiniteSet({m} \cup {n}) /\ Total({m} \cup {n}) = Profit(a)
    <3>1. {m} \in SUBSET Mail /\ n \notin {m}
      BY <2>3, <2>4
    <3>2. IsFiniteSet({m} \cup {n}) /\ Total({m} \cup {n}) = Total({m}) + n.gold
      BY <2>4, <2>5, <3>1, TotalOfMore
    <3>3. Profit(a) + 0 = Profit(a)
      BY <2>2
    <3>4. Total({m} \cup {n}) = Profit(a) + 0
      BY ONLY <2>4, <2>5, <3>2
    <3> QED BY ONLY <3>2, <3>3, <3>4, Zenon
  <2>7. SettlementTakings(a) = GetAuctionCut(a)
    BY <1>3 DEF SettlementTakings
  <2>8. IsFiniteSet(mails) /\ Total(mails) = Profit(a)
    BY <2>1, <2>5, <2>6
  <2>9. /\ mails \in SUBSET Mail /\ \A k \in mails : k.items \subseteq {i}
        /\ \A k \in mails : k.to = a.owner \/ k.items = {i}
    BY <2>1, <2>3, <2>4
  <2>10. ASSUME i \in aitems, LogTrade \/ a.bidder \in online
         PROVE  /\ \E k \in mails : k.to = a.bidder /\ i \in k.items
                /\ \A k \in mails : k.to = a.bidder \/ i \notin k.items
    BY <2>1, <2>3, <2>4, <2>10
  <2> QED BY <1>3, <2>0, <2>2, <2>7, <2>8, <2>9, <2>10 DEF mails
<1> QED BY <1>2, <1>3

LEMMA BuyoutIsProper ==
  ASSUME Up, aitems \subseteq Item, due \subseteq Item,
         NEW p \in Player, NEW i \in Item, NEW price \in Price,
         HandleAuctionPlaceBid(p, i, price), Buyout(p, i, price)
  PROVE  \E t \in Writes : Commit(t) /\ Proper(t, mem, lapsed) /\ Covers(t)
<1> DEFINE a == mem.row[i]
           b == [a EXCEPT !.bidder = p, !.bid = a.buyout]
           gold == mem.gold[p] - Cost(a, p, a.buyout)
           back == Refund(a, p, i)
           settled == SettlementMails(b, i, {p})
           mails == back \cup settled
           sunk == GetAuctionCut(b)
<1>1. PICK t : t = Transaction(p, gold, mem.bag[p], mails, Row(i, NoAuction), sunk)
  OBVIOUS
<1>2. /\ Commit(t) /\ a # NoAuction /\ a.owner # p /\ price > a.bid /\ mem.gold[p] >= price
      /\ price >= a.buyout
      /\ aitems' = aitems \ {i} /\ due' = due
  BY <1>1 DEF HandleAuctionPlaceBid, Buyout, Acceptable, IsBuyout
<1>3. /\ mem \in Books /\ mem.gold[p] \in Nat /\ mem.bag[p] \in SUBSET Item
      /\ Deposit \in Nat /\ price \in Nat /\ NoPlayer \notin Player
  BY AuctionAssumption DEF Up, Books
<1>4. /\ a \in Auction /\ a.owner \in Player /\ a.bid \in Nat /\ a.buyout \in Nat /\ Sound(a)
      /\ i \in aitems
  <2>1. a \in Auction /\ a.owner \in Player /\ a.bid \in Nat /\ a.buyout \in Nat
    BY <1>2, <1>3, RowTyped
  <2>2. Sound(a)
    BY DEF Up, RowsSound
  <2>3. i \in aitems
    BY <1>2 DEF Up, Open
  <2> QED BY <2>1, <2>2, <2>3
<1>5. b \in Auction /\ b.bid = a.buyout /\ b.bidder = p /\ b.owner = a.owner /\ Sound(b)
  <2>1. b \in Auction /\ b.bid = a.buyout /\ b.bidder = p /\ b.owner = a.owner
    BY <1>3, <1>4 DEF Auction
  <2> HIDE DEF b
  <2> QED BY <1>2, <1>3, <2>1 DEF Sound
<1>6. /\ back \in SUBSET Mail /\ IsFiniteSet(back)
      /\ \A m \in back : m.items = {} /\ m.to # a.owner
      /\ back = {} \/ \E m \in Mail : back = {m}
      /\ Total(back) = IF a.bidder = p THEN 0 ELSE a.bid
  BY <1>2, <1>3, <1>4, RefundIs
<1>7. gold \in Nat /\ gold = mem.gold[p] - (IF a.bidder = p THEN a.buyout - a.bid ELSE a.buyout)
  BY <1>2, <1>3, <1>4 DEF Cost
<1> HIDE DEF b
<1>8. /\ settled \in SUBSET Mail /\ IsFiniteSet(settled)
      /\ \A m \in settled : m.items \subseteq {i}
      /\ \A m \in settled : m.to = b.owner \/ m.items = {i}
      /\ Total(settled) + SettlementTakings(b) = b.bid + Deposit
      /\ SettlementTakings(b) \in Nat
      /\ \E m \in settled : m.to = p /\ i \in m.items
      /\ \A m \in settled : m.to = p \/ i \notin m.items
  <2>1. b.bidder \in {p} /\ p # NoPlayer
    BY <1>3, <1>5
  <2> QED BY <1>4, <1>5, <2>1, SettlementIs
<1>9. sunk = SettlementTakings(b)
  BY <1>3, <1>5 DEF SettlementTakings
<1> HIDE DEF a, gold, back, settled, sunk
<1>10. IsFiniteSet(mails) /\ Total(mails) = Total(back) + Total(settled) /\ Total(settled) \in Int
  <2>0. Total(settled) \in Int
    <3>1. \A m \in settled : Coins(settled)[m] \in Int
      BY <1>8 DEF Mail, Coins
    <3> QED BY <1>8, <3>1, SumSame DEF Total
  <2>1. CASE back = {}
    <3>1. mails = settled
      BY <2>1
    <3> QED BY <1>8, <2>0, <2>1, <3>1, TotalOfNone
  <2>2. CASE back # {}
    <3>1. PICK m \in Mail : back = {m}
      BY <1>6, <2>2
    <3>2. m \notin settled
      BY <1>5, <1>6, <1>8, <3>1
    <3>3. IsFiniteSet(settled \cup {m}) /\ Total(settled \cup {m}) = Total(settled) + m.gold
          /\ m.gold \in Nat
      BY <1>8, <3>2, TotalOfMore
    <3>4. Total(back) = m.gold
      BY <3>1, TotalOfOne
    <3>5. mails = settled \cup {m}
      BY <3>1
    <3> HIDE DEF mails
    <3> QED BY <2>0, <3>3, <3>4, <3>5
  <2> QED BY <2>1, <2>2
<1>11. mails \in SUBSET Mail /\ \A m \in mails : m.items \subseteq {i}
  BY <1>6, <1>8
<1>12. /\ \E m \in mails : m.to = p /\ i \in m.items
       /\ \A m \in mails : m.to = p \/ i \notin m.items
  BY <1>6, <1>8
<1> HIDE DEF mails
<1>13. Balanced(mem, p, gold, mails, i, NoAuction, sunk)
  <2>1. Held(NoAuction) = 0 /\ Held(a) = a.bid + Deposit
    BY <1>4, HeldIs
  <2>2. gold - mem.gold[p] + Total(mails) + sunk + Held(NoAuction) - Held(a) = 0
    BY <1>3, <1>4, <1>5, <1>6, <1>7, <1>8, <1>9, <1>10, <2>1
  <2> QED BY <2>2 DEF Balanced, a
<1>14. Typed(p, gold, mem.bag[p], mails, i, NoAuction, sunk)
  BY <1>3, <1>7, <1>8, <1>9, <1>11 DEF Typed
<1>15. Sound(NoAuction) /\ p \in Player => mem.bag[p] \cup {i} = mem.bag[p] \cup {i}
  OBVIOUS
<1>16. /\ t \in Writes /\ t.by = p /\ t.bag = mem.bag[p] /\ t.mails = mails
       /\ DOMAIN t.rows = {i} /\ t.rows[i] = NoAuction
  BY <1>1, <1>14, TransactionTyped
<1>17. ASSUME LogTrade, i \notin lapsed, Located(mem, i) PROVE Located(Apply(mem, t), i)
  <2>0. mem.row[i] # NoAuction
    BY <1>2 DEF a
  <2>1. i \notin mem.bag[p]
    BY <1>17, <2>0, NotInBag
  <2>2. i \in DOMAIN t.rows /\ t.rows[i] = NoAuction /\ (t.by \in Player => i \notin t.bag)
    BY <1>16, <2>1
  <2>3. /\ \E m \in t.mails : m.to = p /\ i \in m.items
        /\ \A m \in t.mails : m.to = p \/ i \notin m.items
    BY <1>12, <1>16
  <2> QED BY <1>3, <1>16, <1>17, <2>0, <2>2, <2>3, Delivered
<1>18. Sound(NoAuction)
  BY DEF Sound
<1>19. Proper(t, mem, lapsed)
  BY <1>1, <1>3, <1>10, <1>11, <1>13, <1>14, <1>17, <1>18, AuctionIsProper
<1>20. Covers(t)
  BY <1>2, <1>16 DEF Covers
<1> QED BY <1>2, <1>16, <1>19, <1>20

LEMMA RemoveIsProper ==
  ASSUME Up, aitems \subseteq Item, due \subseteq Item,
         NEW p \in Player, NEW i \in Item, HandleAuctionRemoveItem(p, i)
  PROVE  \E t \in Writes : Commit(t) /\ Proper(t, mem, lapsed) /\ Covers(t)
<1> DEFINE a == mem.row[i]
           cut == IF a.bidder = NoPlayer THEN 0 ELSE GetAuctionCut(a)
           gold == mem.gold[p] - cut
           back == Refund(a, NoPlayer, i)
           m == ItemMail(p, i)
           mails == back \cup {m}
<1>1. PICK t : t = Transaction(p, gold, mem.bag[p], mails, Row(i, NoAuction), cut + Deposit)
  OBVIOUS
<1>2. /\ Commit(t) /\ a # NoAuction /\ a.owner = p /\ mem.gold[p] >= cut
      /\ aitems' = aitems \ {i} /\ due' = due
  BY <1>1 DEF HandleAuctionRemoveItem
<1>3. /\ mem \in Books /\ mem.gold[p] \in Nat /\ mem.bag[p] \in SUBSET Item
      /\ Deposit \in Nat /\ NoPlayer \notin Player
  BY AuctionAssumption DEF Up, Books
<1>4. /\ a \in Auction /\ a.bid \in Nat /\ Sound(a) /\ (a.bidder = NoPlayer => a.bid = 0)
  <2>1. a \in Auction /\ a.bid \in Nat
    BY <1>2, <1>3, RowTyped
  <2>2. Sound(a)
    BY DEF Up, RowsSound
  <2> QED BY <1>2, <2>1, <2>2 DEF Sound
<1>5. cut \in Nat
  BY <1>4, CutTyped
<1>6. /\ back \in SUBSET Mail /\ IsFiniteSet(back) /\ \A n \in back : n.items = {}
      /\ Total(back) = IF a.bidder = NoPlayer THEN 0 ELSE a.bid
  BY <1>2, <1>3, <1>4, RefundIs
<1>7. m \in Mail /\ m.gold = 0 /\ m.to = p /\ m.items = {i}
  BY MailTyped
<1>8. gold \in Nat /\ cut + Deposit \in Nat
  BY <1>2, <1>3, <1>5
<1> HIDE DEF a, cut, back, m
<1>9. IsFiniteSet(mails) /\ Total(mails) = Total(back)
  <2>1. m \notin back
    BY <1>6, <1>7
  <2>2. IsFiniteSet(back \cup {m}) /\ Total(back \cup {m}) = Total(back) + m.gold
        /\ Total(back) \in Int
    BY <1>6, <1>7, <2>1, TotalOfMore
  <2> QED BY <1>7, <2>2
<1>10. mails \in SUBSET Mail /\ \A n \in mails : n.items \subseteq {i}
  BY <1>6, <1>7
<1>11. /\ \E n \in mails : n.to = p /\ i \in n.items
       /\ \A n \in mails : n.to = p \/ i \notin n.items
  BY <1>6, <1>7
<1> HIDE DEF mails
<1>12. Balanced(mem, p, gold, mails, i, NoAuction, cut + Deposit)
  <2>1. Held(NoAuction) = 0 /\ Held(a) = a.bid + Deposit
    BY <1>4, HeldIs
  <2>2. gold - mem.gold[p] + Total(mails) + (cut + Deposit) + Held(NoAuction) - Held(a) = 0
    BY <1>3, <1>4, <1>5, <1>6, <1>9, <2>1
  <2> QED BY <2>2 DEF Balanced, a
<1> HIDE DEF gold
<1>13. PICK sunk \in Nat : sunk = cut + Deposit
  BY <1>8
<1>14. Typed(p, gold, mem.bag[p], mails, i, NoAuction, sunk)
  BY <1>3, <1>8, <1>10 DEF Typed
<1>15. t = Transaction(p, gold, mem.bag[p], mails, Row(i, NoAuction), sunk)
  BY <1>1, <1>13
<1>16. /\ t \in Writes /\ t.by = p /\ t.bag = mem.bag[p] /\ t.mails = mails
       /\ DOMAIN t.rows = {i} /\ t.rows[i] = NoAuction
  BY <1>14, <1>15, TransactionTyped
<1>17. ASSUME LogTrade, i \notin lapsed, Located(mem, i) PROVE Located(Apply(mem, t), i)
  <2>0. mem.row[i] # NoAuction
    BY <1>2 DEF a
  <2>1. i \notin mem.bag[p]
    BY <1>17, <2>0, NotInBag
  <2>2. i \in DOMAIN t.rows /\ t.rows[i] = NoAuction /\ (t.by \in Player => i \notin t.bag)
    BY <1>16, <2>1
  <2>3. /\ \E n \in t.mails : n.to = p /\ i \in n.items
        /\ \A n \in t.mails : n.to = p \/ i \notin n.items
    BY <1>11, <1>16
  <2> QED BY <1>3, <1>16, <1>17, <2>0, <2>2, <2>3, Delivered
<1>18. Sound(NoAuction)
  BY DEF Sound
<1>19. Proper(t, mem, lapsed)
  <2>1. Balanced(mem, p, gold, mails, i, NoAuction, sunk)
    BY <1>12, <1>13
  <2> QED BY <1>3, <1>9, <1>10, <1>14, <1>15, <1>17, <1>18, <2>1, AuctionIsProper
<1>20. Covers(t)
  BY <1>2, <1>16 DEF Covers
<1> QED BY <1>2, <1>16, <1>19, <1>20

\* A player takes gold or items from his mail; some of the gold may be lost.
Taking(p, gold, bag, g, items, lost) ==
  [Transaction(p, gold, bag, {}, <<>>, lost)
     EXCEPT !.took = [gold |-> g, items |-> items]]
Took(p, gold, bag, g, items, lost) ==
  /\ p \in Player /\ gold \in Nat /\ bag \in SUBSET Item
  /\ g \in Nat /\ items \in SUBSET Item /\ lost \in Nat

\* The gold of a player stays a natural number, and so does what he loses.
LEMMA ExcessTyped ==
  ASSUME NEW gold \in Nat, NEW d \in Nat
  PROVE  /\ ModifyMoney(gold, d) \in Nat /\ Excess(gold, d) \in Nat
         /\ ModifyMoney(gold, d) + Excess(gold, d) = gold + d
<1>1. MaxMoney \in Nat
  BY AuctionAssumption
<1>2. CASE gold + d < MaxMoney
  BY <1>1, <1>2 DEF ModifyMoney, Excess
<1>3. CASE ~(gold + d < MaxMoney)
  BY <1>1, <1>3 DEF ModifyMoney, Excess
<1> QED BY <1>2, <1>3

LEMMA TakingTyped ==
  ASSUME NEW p, NEW gold, NEW bag, NEW g, NEW items, NEW lost,
         Took(p, gold, bag, g, items, lost),
         NEW t, t = Taking(p, gold, bag, g, items, lost)
  PROVE  /\ t \in Writes
         /\ t.by = p /\ t.gold = gold /\ t.bag = bag /\ t.mails = {} /\ t.sunk = lost
         /\ t.took.gold = g /\ t.took.items = items /\ DOMAIN t.rows = {}
<1> DEFINE took == [gold |-> g, items |-> items]
<1> USE DEF Took
<1>0. PICK r : r = <<>>
  OBVIOUS
<1>1. t = [by |-> p, gold |-> gold, bag |-> bag, took |-> took,
           mails |-> {}, rows |-> r, sunk |-> lost]
  BY <1>0 DEF Taking, Transaction
<1>2. DOMAIN r = {} /\ r \in [{} -> Auction \cup {NoAuction}]
  BY <1>0
<1>3. r \in UNION {[D -> Auction \cup {NoAuction}] : D \in SUBSET Item}
  <2>1. {} \in SUBSET Item
    OBVIOUS
  <2> QED BY <1>2, <2>1
<1>4. took \in [gold : Nat, items : SUBSET Item] /\ took.gold = g /\ took.items = items
  OBVIOUS
<1> HIDE DEF took
<1>5. t \in Writes
  BY ONLY <1>1, <1>3, <1>4, p \in Player, gold \in Nat, bag \in SUBSET Item,
          lost \in Nat DEF Writes
<1>6. /\ t.by = p /\ t.gold = gold /\ t.bag = bag /\ t.mails = {} /\ t.sunk = lost
      /\ t.took = took /\ t.rows = r
  BY <1>1
<1> QED BY <1>2, <1>4, <1>5, <1>6

\* What he takes he has, except for the gold he loses; nothing else moves.
LEMMA TakingIsProper ==
  ASSUME NEW b \in Books, NEW t \in Writes, NEW L, NEW p \in Player,
         t.by = p, t.mails = {}, DOMAIN t.rows = {},
         t.gold + t.sunk = b.gold[p] + t.took.gold, t.took.gold <= b.mail[p],
         t.bag = b.bag[p] \cup t.took.items, t.took.items \subseteq b.parcel[p]
  PROVE  Proper(t, b, L)
<1>1. IsFiniteSet(t.mails) /\ (t.by \in Player => t.took.gold <= b.mail[t.by])
      /\ \A i \in DOMAIN t.rows : Sound(t.rows[i])
  BY FS_EmptySet
<1>2. b.gold[p] \in Nat /\ t.took.gold \in Nat /\ t.gold \in Nat /\ t.sunk \in Nat
  BY WritesTyped DEF Books
<1>3. Gold(Apply(b, t)) = Gold(b)
  <2>1. Gold(Apply(b, t)) = Gold(b) + Earned(b, t) + Total(t.mails) + t.sunk
                            + Escrowed(b, t, NoPlayer)
        /\ Gold(b) \in Int
    BY <1>1, GoldOfApplied
  <2>2. Earned(b, t) = t.gold - b.gold[p] - t.took.gold
    BY DEF Earned
  <2>3. Total(t.mails) = 0
    BY TotalOfNone
  <2>4. Escrowed(b, t, NoPlayer) = 0
    BY DEF Escrowed
  <2>5. Earned(b, t) + t.sunk = 0
    BY <1>2, <2>2
  <2>6. Earned(b, t) \in Int
    BY <1>2, <2>2
  <2> QED BY ONLY <1>2, <2>1, <2>3, <2>4, <2>5, <2>6
<1>4. ASSUME NEW i \in Item, Located(b, i) PROVE Located(Apply(b, t), i)
  <2> DEFINE c == Apply(b, t)
  <2>1. CASE i \notin t.took.items
    <3>1. /\ i \notin DOMAIN t.rows /\ \A m \in t.mails : i \notin m.items
          /\ t.by \in Player => (i \in t.bag <=> i \in b.bag[t.by]) /\ i \notin t.took.items
      BY <2>1
    <3>2. Unmoved(b, c, i)
      BY <3>1, Elsewhere
    <3> QED BY <1>4, <3>2, UnmovedIsLocated
  <2>2. CASE i \in t.took.items
    <3>1. /\ c.bag = [q \in Player |-> IF q = t.by THEN t.bag ELSE b.bag[q]]
          /\ c.parcel = [q \in Player |-> (IF q = t.by THEN b.parcel[q] \ t.took.items
                                           ELSE b.parcel[q]) \cup ItemsTo(t.mails, q)]
          /\ c.row = [j \in Item |-> IF j \in DOMAIN t.rows THEN t.rows[j] ELSE b.row[j]]
      BY Applied
    <3> HIDE DEF c
    <3>2. \A q \in Player : ItemsTo(t.mails, q) = {}
      BY DEF ItemsTo
    <3>3. i \in b.parcel[p]
      BY <2>2
    <3>4. /\ \A q \in Player : i \in b.parcel[q] <=> q = p
          /\ \A q \in Player : i \notin b.bag[q]
          /\ b.row[i] = NoAuction
      BY <1>4, <3>3 DEF Located
    <3>5. \A q \in Player : i \in c.bag[q] <=> q = p
      BY <2>2, <3>1, <3>4
    <3>6. \A q \in Player : i \notin c.parcel[q]
      BY <2>2, <3>1, <3>2, <3>4
    <3>7. c.row[i] = NoAuction
      BY <3>1, <3>4
    <3>8. Located(c, i)
      BY <3>5, <3>6, <3>7 DEF Located
    <3> QED BY <3>8 DEF c
  <2> QED BY <2>1, <2>2
<1> QED BY <1>1, <1>3, <1>4 DEF Proper

LEMMA TakeMoneyIsProper ==
  ASSUME Up, aitems \subseteq Item, due \subseteq Item,
         NEW p \in Player, HandleMailTakeMoney(p)
  PROVE  \E t \in Writes : Commit(t) /\ Proper(t, mem, lapsed) /\ Covers(t)
<1>1. mem \in Books /\ mem.gold[p] \in Nat /\ mem.mail[p] \in Nat /\ mem.bag[p] \in SUBSET Item
  BY DEF Up, Books
<1> DEFINE gold == ModifyMoney(mem.gold[p], mem.mail[p])
           lost == Excess(mem.gold[p], mem.mail[p])
<1>2. PICK t : t = Taking(p, gold, mem.bag[p], mem.mail[p], {}, lost)
  OBVIOUS
<1>3. t = [Transaction(p, gold, mem.bag[p], {}, <<>>, lost) EXCEPT !.took.gold = mem.mail[p]]
  BY <1>2 DEF Taking, Transaction
<1>4. Commit(t) /\ aitems' = aitems /\ due' = due
  BY <1>3 DEF HandleMailTakeMoney
<1>5. /\ gold \in Nat /\ lost \in Nat /\ {} \in SUBSET Item
      /\ gold + lost = mem.gold[p] + mem.mail[p]
  BY <1>1, ExcessTyped
<1> HIDE DEF gold, lost
<1>6. /\ t \in Writes
      /\ t.by = p /\ t.gold = gold /\ t.bag = mem.bag[p] /\ t.mails = {} /\ t.sunk = lost
      /\ t.took.gold = mem.mail[p] /\ t.took.items = {} /\ DOMAIN t.rows = {}
  <2>1. Took(p, gold, mem.bag[p], mem.mail[p], {}, lost)
    BY <1>1, <1>5 DEF Took
  <2> QED BY <1>2, <2>1, TakingTyped
<1>7. Proper(t, mem, lapsed)
  <2>1. t.gold + t.sunk = mem.gold[p] + t.took.gold /\ t.took.gold <= mem.mail[p]
    BY <1>1, <1>5, <1>6
  <2> QED BY <1>1, <1>6, <2>1, TakingIsProper
<1>8. Covers(t)
  BY <1>4, <1>6 DEF Covers
<1> QED BY <1>4, <1>6, <1>7, <1>8

LEMMA TakeItemIsProper ==
  ASSUME Up, aitems \subseteq Item, due \subseteq Item,
         NEW p \in Player, NEW i \in Item, HandleMailTakeItem(p, i)
  PROVE  \E t \in Writes : Commit(t) /\ Proper(t, mem, lapsed) /\ Covers(t)
<1>1. mem \in Books /\ mem.gold[p] \in Nat /\ mem.mail[p] \in Nat /\ mem.bag[p] \in SUBSET Item
  BY DEF Up, Books
<1> DEFINE bag == mem.bag[p] \cup {i}
<1>2. PICK t : t = Taking(p, mem.gold[p], bag, 0, {i}, 0)
  OBVIOUS
<1>3. t = [Transaction(p, mem.gold[p], bag, {}, <<>>, 0) EXCEPT !.took.items = {i}]
  BY <1>2 DEF Taking, Transaction
<1>4. Commit(t) /\ aitems' = aitems /\ due' = due /\ i \in mem.parcel[p]
  BY <1>3 DEF HandleMailTakeItem
<1>5. bag \in SUBSET Item /\ {i} \in SUBSET Item /\ 0 \in Nat
  BY <1>1
<1>6. /\ t \in Writes
      /\ t.by = p /\ t.gold = mem.gold[p] /\ t.bag = bag /\ t.mails = {} /\ t.sunk = 0
      /\ t.took.gold = 0 /\ t.took.items = {i} /\ DOMAIN t.rows = {}
  <2>1. Took(p, mem.gold[p], bag, 0, {i}, 0)
    BY <1>1, <1>5 DEF Took
  <2> HIDE DEF bag
  <2> QED BY <1>2, <2>1, TakingTyped
<1>7. Proper(t, mem, lapsed)
  <2>1. t.gold + t.sunk = mem.gold[p] + t.took.gold /\ t.took.gold <= mem.mail[p]
    BY <1>1, <1>6
  <2> QED BY <1>1, <1>4, <1>6, <2>1, TakingIsProper
<1>8. Covers(t)
  BY <1>4, <1>6 DEF Covers
<1> QED BY <1>4, <1>6, <1>7, <1>8

-----------------------------------------------------------------------------
(* The auction house settles some auctions, one after another.             *)

\* The first k of them are queued behind ts.
LEMMA FirstOnes ==
  ASSUME NEW ts \in Seq(Writes), NEW us \in Seq(Writes)
  PROVE  /\ ts \o SubSeq(us, 1, 0) = ts /\ ts \o SubSeq(us, 1, Len(us)) = ts \o us
         /\ \A k \in 0..Len(us) : ts \o SubSeq(us, 1, k) \in Seq(Writes)
         /\ \A k \in 0..Len(us) : k < Len(us) =>
              us[k + 1] \in Writes
              /\ ts \o SubSeq(us, 1, k + 1) = Append(ts \o SubSeq(us, 1, k), us[k + 1])
<1>1. Len(us) \in Nat
  BY LenProperties
<1>2. ts \o SubSeq(us, 1, 0) = ts
  BY SubSeqEmpty, ConcatEmptySeq
<1>3. ts \o SubSeq(us, 1, Len(us)) = ts \o us
  BY SubSeqFull
<1>4. ASSUME NEW k \in 0..Len(us)
      PROVE  SubSeq(us, 1, k) \in Seq(Writes) /\ ts \o SubSeq(us, 1, k) \in Seq(Writes)
  <2>1. \A j \in 1..k : us[j] \in Writes
    BY <1>1, ElementOfSeq
  <2>2. k \in Int /\ 1 \in Int
    BY <1>1
  <2>3. SubSeq(us, 1, k) \in Seq(Writes)
    BY <2>1, <2>2, SubSeqProperties
  <2> QED BY <2>3, ConcatProperties
<1>5. ASSUME NEW k \in 0..Len(us), k < Len(us)
      PROVE  us[k + 1] \in Writes
             /\ ts \o SubSeq(us, 1, k + 1) = Append(ts \o SubSeq(us, 1, k), us[k + 1])
  <2>1. PICK j : j = k + 1
    OBVIOUS
  <2>2. 1 \in 1..Len(us) /\ j \in 1..Len(us) /\ j - 1 = k
    BY <1>1, <1>5, <2>1
  <2>3. us[j] \in Writes
    BY <2>2, ElementOfSeq
  <2>4. SubSeq(us, 1, j) = SubSeq(us, 1, k) \o <<us[j]>>
    BY <2>2, SubSeqRecursiveSecond
  <2> DEFINE s == SubSeq(us, 1, k)
             e == us[j]
  <2>5. s \in Seq(Writes) /\ ts \o s \in Seq(Writes) /\ e \in Writes
    BY <1>4, <2>3
  <2> HIDE DEF s, e
  <2>6. <<e>> \in Seq(Writes)
    BY <2>5
  <2>7. ts \o (s \o <<e>>) = (ts \o s) \o <<e>>
    BY <2>5, <2>6, ConcatAssociative
  <2>8. Append(ts \o s, e) = (ts \o s) \o <<e>>
    BY <2>5, AppendIsConcat
  <2> QED BY <2>1, <2>3, <2>4, <2>7, <2>8 DEF s, e
<1> QED BY <1>2, <1>3, <1>4, <1>5

\* Transaction t of the auction house ends the auction of item i.
Closes(t, i) ==
  /\ t \in Writes /\ t.by = NoPlayer /\ IsFiniteSet(t.mails)
  /\ DOMAIN t.rows = {i} /\ t.rows[i] = NoAuction

LEMMA ClosesTyped ==
  ASSUME NEW b \in Books, NEW t, NEW i, Closes(t, i)
  PROVE  /\ t \in Writes /\ Apply(b, t) \in Books
         /\ \A j \in Item : Apply(b, t).row[j] = IF j = i THEN NoAuction ELSE b.row[j]
<1>1. t.by \notin Player
  BY AuctionAssumption DEF Closes
<1>2. t \in Writes /\ IsFiniteSet(t.mails) /\ DOMAIN t.rows = {i} /\ t.rows[i] = NoAuction
  BY DEF Closes
<1>3. Apply(b, t) \in Books
  BY <1>1, <1>2, AppliedTyped
<1>4. Apply(b, t).row = [j \in Item |-> IF j \in DOMAIN t.rows THEN t.rows[j] ELSE b.row[j]]
  BY <1>2, Applied
<1> QED BY <1>2, <1>3, <1>4

\* The items that are not given up are sent, or the house knows nothing of them.
Sends(b, i, L) ==
  /\ i \in Item /\ b.row[i] # NoAuction /\ Sound(b.row[i])
  /\ LogTrade /\ i \notin L => i \in aitems

LEMMA SettlementIsProper ==
  ASSUME NEW b \in Books, NEW i, NEW L, Sends(b, i, L), NEW online,
         NEW t, t = Settlement(i, b.row[i], online)
  PROVE  Closes(t, i) /\ Proper(t, b, L)
<1> DEFINE a == b.row[i]
           mails == SettlementMails(a, i, online)
           sunk == SettlementTakings(a)
<1>1. i \in Item /\ a # NoAuction /\ Sound(a) /\ (LogTrade /\ i \notin L => i \in aitems)
  BY DEF Sends
<1>2. a \in Auction /\ a.bid \in Nat /\ Deposit \in Nat /\ NoPlayer \notin Player
  BY <1>1, RowTyped, AuctionAssumption
<1>3. /\ mails \in SUBSET Mail /\ IsFiniteSet(mails)
      /\ \A m \in mails : m.items \subseteq {i}
      /\ Total(mails) + sunk = a.bid + Deposit /\ sunk \in Nat
      /\ i \in aitems /\ (LogTrade \/ a.bidder \in online) =>
           LET w == IF a.bidder = NoPlayer THEN a.owner ELSE a.bidder
           IN  /\ w \in Player
               /\ \E m \in mails : m.to = w /\ i \in m.items
               /\ \A m \in mails : m.to = w \/ i \notin m.items
  BY <1>1, <1>2, SettlementIs
<1>4. t = Transaction(NoPlayer, 0, {}, mails, Row(i, NoAuction), sunk)
  BY DEF Settlement
<1> HIDE DEF a, mails, sunk
<1>5. Typed(NoPlayer, 0, {}, mails, i, NoAuction, sunk)
  BY <1>1, <1>3 DEF Typed
<1>6. /\ t \in Writes /\ t.by = NoPlayer /\ t.mails = mails
      /\ DOMAIN t.rows = {i} /\ t.rows[i] = NoAuction
  BY <1>4, <1>5, TransactionTyped
<1>7. Closes(t, i)
  BY <1>3, <1>6 DEF Closes
<1>8. Balanced(b, NoPlayer, 0, mails, i, NoAuction, sunk)
  <2>1. Held(NoAuction) = 0 /\ Held(a) = a.bid + Deposit
    BY <1>2, HeldIs
  <2>2. Total(mails) \in Int
    <3>1. \A m \in mails : Coins(mails)[m] \in Int
      BY <1>3 DEF Mail, Coins
    <3> QED BY <1>3, <3>1, SumSame DEF Total
  <2>3. 0 + Total(mails) + sunk + Held(NoAuction) - Held(a) = 0
    BY <1>2, <1>3, <2>1, <2>2
  <2> QED BY <1>2, <2>3 DEF Balanced, a
<1>9. ASSUME LogTrade, i \notin L, Located(b, i) PROVE Located(Apply(b, t), i)
  <2>1. PICK w \in Player : /\ \E m \in mails : m.to = w /\ i \in m.items
                            /\ \A m \in mails : m.to = w \/ i \notin m.items
    BY <1>1, <1>3, <1>9
  <2>2. /\ \E m \in t.mails : m.to = w /\ i \in m.items
        /\ \A m \in t.mails : m.to = w \/ i \notin m.items
    BY <1>6, <2>1
  <2>3. i \in DOMAIN t.rows /\ t.rows[i] = NoAuction /\ (t.by \in Player => i \notin t.bag)
    BY <1>2, <1>6
  <2>4. b.row[i] # NoAuction
    BY <1>1 DEF a
  <2> QED BY <1>1, <1>6, <1>9, <2>2, <2>3, <2>4, Delivered
<1>10. Sound(NoAuction) /\ (NoPlayer \in Player => {} \cup {i} = b.bag[NoPlayer] \cup {i})
  BY <1>2 DEF Sound
<1>11. Proper(t, b, L)
  BY <1>3, <1>4, <1>5, <1>8, <1>9, <1>10, AuctionIsProper
<1> QED BY <1>7, <1>11

\* s lists the elements of S, each once.
Lists(s, n, S) ==
  /\ s \in [1..n -> S]
  /\ \A j, k \in 1..n : s[j] = s[k] => j = k
  /\ \A x \in S : \E k \in 1..n : s[k] = x

\* us settles the auctions s lists, as they are in b.
Settles(us, b, s, n, online) == us = [k \in 1..n |-> Settlement(s[k], b.row[s[k]], online)]

AllSent(b, S, L) == \A i \in S : Sends(b, i, L)

LEMMA SettlesTyped ==
  ASSUME NEW L, NEW b \in Books, NEW S, NEW n \in Nat, NEW s, Lists(s, n, S),
         AllSent(b, S, L), NEW online, NEW us, Settles(us, b, s, n, online)
  PROVE  /\ us \in Seq(Writes) /\ Len(us) = n /\ DOMAIN us = 1..n
         /\ \A k \in 1..n : Closes(us[k], s[k])
<1>1. DOMAIN us = 1..n /\ \A k \in 1..n : us[k] = Settlement(s[k], b.row[s[k]], online)
  BY DEF Settles
<1>2. us = [k \in 1..n |-> us[k]]
  BY <1>1 DEF Settles
<1>3. ASSUME NEW k \in 1..n PROVE Closes(us[k], s[k])
  <2>1. PICK i, t : i = s[k] /\ t = us[k]
    OBVIOUS
  <2>2. Sends(b, i, L)
    BY <2>1 DEF Lists, AllSent
  <2>3. t = Settlement(i, b.row[i], online)
    BY <1>1, <2>1
  <2>4. Closes(t, i)
    BY <2>2, <2>3, SettlementIsProper
  <2> QED BY <2>1, <2>4
<1>4. \A k \in 1..n : us[k] \in Writes
  BY <1>3 DEF Closes
<1>5. us \in [1..n -> Writes]
  BY <1>2, <1>4
<1>6. us \in Seq(Writes) /\ Len(us) = n
  BY <1>5
<1> QED BY <1>1, <1>3, <1>6

\* c is b without the auctions in S.
Ended(c, b, S) == \A j \in Item : c.row[j] = IF j \in S THEN NoAuction ELSE b.row[j]

LEMMA SettledOneByOne ==
  ASSUME NEW L, NEW R, R \subseteq L, NEW d, NEW ts \in Seq(Writes), NEW b \in Books,
         History(d, ts, b, L, R), NEW S, NEW n \in Nat, NEW s, Lists(s, n, S),
         AllSent(b, S, L), NEW online, NEW us, Settles(us, b, s, n, online)
  PROVE  /\ FoldLeft(Apply, b, us) \in Books
         /\ History(d, ts \o us, FoldLeft(Apply, b, us), L, R)
         /\ Ended(FoldLeft(Apply, b, us), b, S)
<1>1. /\ us \in Seq(Writes) /\ Len(us) = n /\ DOMAIN us = 1..n
      /\ \A k \in 1..n : Closes(us[k], s[k])
  BY SettlesTyped
<1>2. /\ s \in [1..n -> S] /\ \A j, k \in 1..n : s[j] = s[k] => j = k
      /\ \A x \in S : \E k \in 1..n : s[k] = x
  BY DEF Lists
<1>3. \A k \in 1..n : us[k] = Settlement(s[k], b.row[s[k]], online)
  BY DEF Settles
<1>4. \A c \in Books, k \in 1..n : Apply(c, us[k]) \in Books
  BY <1>1, ClosesTyped
<1>5. PICK r \in [0..n -> Books] : Run(r, b, us) /\ r[n] = FoldLeft(Apply, b, us)
  BY <1>1, <1>4, FoldRun
<1> DEFINE first(k) == ts \o SubSeq(us, 1, k)
           done(k, j) == \E l \in 1..k : s[l] = j
           Holds(k) == /\ History(d, first(k), r[k], L, R)
                       /\ \A j \in Item : r[k].row[j] = IF done(k, j) THEN NoAuction ELSE b.row[j]
           C == {k \in 0..n : Holds(k)}
<1>6. /\ first(0) = ts /\ first(n) = ts \o us
      /\ \A k \in 0..n : first(k) \in Seq(Writes)
      /\ \A k \in 0..n : k < n => us[k + 1] \in Writes /\ first(k + 1) = Append(first(k), us[k + 1])
  BY <1>1, FirstOnes
<1> HIDE DEF first
<1>7. 0 \in C
  <2>1. r[0] = b
    BY <1>5 DEF Run
  <2>2. \A j : ~done(0, j)
    OBVIOUS
  <2> QED BY <1>6, <2>1, <2>2
<1>8. ASSUME NEW k \in 0..n, k < n, k \in C PROVE k + 1 \in C
  <2>1. PICK l : l = k + 1
    OBVIOUS
  <2>2. l \in 1..n /\ l - 1 = k /\ l \in 0..n
    BY <1>8, <2>1
  <2>3. PICK c, t, i : c \in Books /\ c = r[k] /\ t = us[l] /\ i = s[l]
    BY <1>5
  <2>4. Apply(c, t) = r[l]
    BY <1>1, <1>5, <2>2, <2>3 DEF Run
  <2>5. Closes(t, i) /\ i \in S
    BY <1>1, <1>2, <2>2, <2>3
  <2>6. ~done(k, i)
    BY <1>2, <2>2, <2>3
  <2>7. c.row[i] = b.row[i]
    BY <1>8, <2>3, <2>5, <2>6 DEF AllSent, Sends
  <2>8. Sends(c, i, L)
    <3>1. Sends(b, i, L)
      BY <2>5 DEF AllSent
    <3> QED BY <2>7, <3>1 DEF Sends
  <2>9. t = Settlement(i, c.row[i], online)
    BY <1>3, <2>2, <2>3, <2>7
  <2>10. Proper(t, c, L)
    BY <2>8, <2>9, SettlementIsProper
  <2>11. History(d, first(l), r[l], L, R)
    <3>1. first(k) \in Seq(Writes) /\ t \in Writes /\ first(l) = Append(first(k), t)
      BY <1>6, <1>8, <2>1, <2>3
    <3>2. History(d, first(k), c, L, R)
      BY <1>8, <2>3
    <3>3. History(d, Append(first(k), t), Apply(c, t), L, R)
      BY <2>10, <3>1, <3>2, HistoryGrows
    <3> QED BY <2>4, <3>1, <3>3
  <2>12. ASSUME NEW j \in Item
         PROVE  r[l].row[j] = IF done(l, j) THEN NoAuction ELSE b.row[j]
    <3>1. Apply(c, t).row[j] = IF j = i THEN NoAuction ELSE c.row[j]
      BY <2>3, <2>5, ClosesTyped
    <3>2. c.row[j] = IF done(k, j) THEN NoAuction ELSE b.row[j]
      BY <1>8, <2>3
    <3>3. done(l, j) <=> done(k, j) \/ j = i
      <4>1. \A x : x \in 1..l <=> x \in 1..k \/ x = l
        BY <2>2
      <4> QED BY <2>3, <4>1
    <3> HIDE DEF done
    <3> QED BY <2>4, <3>1, <3>2, <3>3
  <2> QED BY <2>1, <2>2, <2>11, <2>12
<1>9. n \in C
  <2> HIDE DEF C
  <2>1. 0..n \subseteq C
    BY <1>7, <1>8, CountUp
  <2> QED BY <2>1
<1>10. \A j \in Item : done(n, j) <=> j \in S
  BY <1>2
<1>11. r[n] \in Books
  BY <1>5
<1>12. Ended(r[n], b, S)
  BY <1>9, <1>10 DEF Ended
<1> QED BY <1>5, <1>6, <1>9, <1>11, <1>12

\* Books that agree but for the auctions still do after the same transactions.
LEMMA SettledAlike ==
  ASSUME NEW b \in Books, NEW m \in Books, NEW R, Agree(b, m, R),
         NEW n \in Nat, NEW us, DOMAIN us = 1..n, \A k \in 1..n : \E i : Closes(us[k], i)
  PROVE  /\ FoldLeft(Apply, m, us) \in Books
         /\ Agree(FoldLeft(Apply, b, us), FoldLeft(Apply, m, us), R)
<1>1. \A c \in Books, k \in 1..n : us[k] \in Writes /\ Apply(c, us[k]) \in Books
  BY ClosesTyped
<1>2. PICK q \in [0..n -> Books] : Run(q, b, us) /\ q[n] = FoldLeft(Apply, b, us)
  BY <1>1, FoldRun
<1>3. PICK r \in [0..n -> Books] : Run(r, m, us) /\ r[n] = FoldLeft(Apply, m, us)
  BY <1>1, FoldRun
<1> DEFINE C == {k \in 0..n : Agree(q[k], r[k], R)}
<1>4. 0 \in C
  BY <1>2, <1>3 DEF Run
<1>5. ASSUME NEW k \in 0..n, k < n, k \in C PROVE k + 1 \in C
  <2>1. PICK l : l = k + 1
    OBVIOUS
  <2>2. l \in 1..n /\ l - 1 = k /\ l \in 0..n
    BY <1>5, <2>1
  <2>3. PICK c \in Books, e \in Books, t \in Writes : c = q[k] /\ e = r[k] /\ t = us[l]
    BY <1>1, <1>2, <1>3, <2>2
  <2>4. Apply(c, t) = q[l] /\ Apply(e, t) = r[l]
    BY <1>2, <1>3, <2>2, <2>3 DEF Run
  <2>5. Agree(Apply(c, t), Apply(e, t), R)
    BY <1>5, <2>3, AppliedAgree
  <2> QED BY <2>1, <2>2, <2>4, <2>5
<1>6. n \in C
  <2> HIDE DEF C
  <2>1. 0..n \subseteq C
    BY <1>4, <1>5, CountUp
  <2> QED BY <2>1
<1>7. r[n] \in Books
  BY <1>3
<1> QED BY <1>2, <1>3, <1>6, <1>7

-----------------------------------------------------------------------------
(* The inductive invariant.                                                *)

\* What the server has in memory, or will have once it has loaded the auctions,
\* is where the queue leads the database.
Remembered ==
  \E m \in Books :
    /\ History(db, pending, m, lapsed, revived)
    /\ Agree(m, mem, Item)
    /\ phase = "up" => m = mem

\* While the server starts the queue only settles what ran out meanwhile.
Starting ==
  /\ phase = "settle" => pending = <<>>
  /\ phase = "auctions" => Open(db) \subseteq aitems
  /\ phase # "up" => \A n \in DOMAIN pending : \E i \in lapsed : Closes(pending[n], i)

IInv ==
  /\ TypeOK
  /\ pending \in Seq(Writes) /\ revived \subseteq lapsed
  /\ phase = "up" => Up
  /\ Starting
  /\ Remembered

LEMMA ItemsListed ==
  ASSUME NEW S \in SUBSET Item
  PROVE  Cardinality(S) \in Nat /\ Lists(SetToSeq(S), Cardinality(S), S)
<1>1. IsFiniteSet(S)
  BY AuctionAssumption, FS_Subset
<1>2. /\ Cardinality(S) \in Nat
      /\ SetToSeq(S) \in [1..Cardinality(S) -> S]
      /\ \A j, k \in 1..Cardinality(S) : SetToSeq(S)[j] = SetToSeq(S)[k] => j = k
      /\ \A x \in S : \E k \in 1..Cardinality(S) : SetToSeq(S)[k] = x
  BY <1>1, Listed
<1> QED BY <1>2 DEF Lists

\* At the start every item is in one bag.
LEMMA InitIsGood ==
  ASSUME Init
  PROVE  IInv
<1>1. mem = [gold |-> Purse, bag |-> Owned, mail |-> [p \in Player |-> 0],
             parcel |-> [p \in Player |-> {}],
             row |-> [i \in Item |-> NoAuction], sunk |-> 0]
  BY DEF Init
<1>2. mem \in Books
  BY <1>1, AuctionAssumption DEF Books
<1>3. /\ mem.gold = Purse /\ mem.bag = Owned /\ mem.mail = [p \in Player |-> 0]
      /\ mem.parcel = [p \in Player |-> {}] /\ mem.row = [i \in Item |-> NoAuction]
      /\ mem.sunk = 0
  BY <1>1
<1>4. RowsSound(mem) /\ Open(mem) = {}
  BY <1>3 DEF RowsSound, Sound, Open
<1>5. ASSUME NEW i \in Item PROVE Located(mem, i)
  <2>1. PICK p \in Player : i \in Owned[p] /\ \A q \in Player \ {p} : i \notin Owned[q]
    BY AuctionAssumption
  <2>2. \A q \in Player : i \in mem.bag[q] <=> q = p
    BY <1>3, <2>1
  <2>3. (\A q \in Player : i \notin mem.parcel[q]) /\ mem.row[i] = NoAuction
    BY <1>3
  <2> QED BY <2>2, <2>3 DEF Located
<1>6. Gold(mem) = SumFunction(Purse)
  <2>1. /\ Gold(mem) = Sum(mem.gold, Player) + Sum(mem.mail, Player) + mem.sunk
                       + Sum([i \in Item |-> Held(mem.row[i])], Item)
        /\ Sum(mem.gold, Player) \in Int
    BY <1>2, GoldIs
  <2> DEFINE none(S) == [x \in S |-> 0]
  <2>2. ASSUME NEW S, IsFiniteSet(S) PROVE Sum(none(S), S) = 0
    <3>1. \A T \in SUBSET S : Sum(none(S), T) = 0
      <4> DEFINE C == {T \in SUBSET S : Sum(none(S), T) = 0}
      <4>1. ASSUME NEW T \in SUBSET S, \A x \in T : T \ {x} \in C PROVE T \in C
        <5>1. CASE T = {}
          BY <5>1, SumOfNothing
        <5>2. CASE T # {}
          <6>1. IsFiniteSet(T) /\ \A x \in T : none(S)[x] \in Int
            BY <2>2, FS_Subset
          <6> HIDE DEF none
          <6>2. Pick(T) \in T /\ Sum(none(S), T) = none(S)[Pick(T)] + Sum(none(S), T \ {Pick(T)})
            BY <5>2, <6>1, SumPicked
          <6>3. Sum(none(S), T \ {Pick(T)}) = 0
            BY <4>1, <6>2
          <6>4. none(S)[Pick(T)] = 0
            BY <6>2 DEF none
          <6> QED BY <6>2, <6>3, <6>4
        <5> QED BY <5>1, <5>2
      <4> HIDE DEF C
      <4>2. SUBSET S \subseteq C
        <5>1. Inherits(C, S)
          BY <4>1 DEF Inherits
        <5> QED BY <2>2, <5>1, CountDown
      <4> QED BY <4>2 DEF C
    <3> HIDE DEF none
    <3> QED BY <3>1
  <2>3. mem.mail = none(Player) /\ [i \in Item |-> Held(mem.row[i])] = none(Item)
    BY <1>3, HeldIs
  <2> HIDE DEF none
  <2>4. Sum(none(Player), Player) = 0 /\ Sum(none(Item), Item) = 0
    BY <2>2, AuctionAssumption
  <2>5. SumFunction(Purse) = Sum(Purse, Player)
    <3>1. DOMAIN Purse = Player
      BY AuctionAssumption
    <3> QED BY <3>1 DEF SumFunction, Sum
  <2> QED BY <1>3, <2>1, <2>3, <2>4, <2>5
<1>7. Good(mem, {}, {})
  BY <1>4, <1>5, <1>6 DEF Good
<1>8. History(db, pending, mem, lapsed, revived)
  <2>1. History(mem, <<>>, mem, {}, {})
    BY <1>2, <1>7, HistoryStarts
  <2> QED BY <2>1 DEF Init
<1>9. Agree(mem, mem, Item)
  BY DEF Agree
<1>10. Remembered
  BY <1>2, <1>8, <1>9 DEF Remembered
<1>11. TypeOK
  BY <1>2, AuctionAssumption DEF Init, TypeOK
<1>12. Up
  BY <1>2, <1>4 DEF Up
<1>13. Starting
  BY DEF Init, Starting
<1>14. pending \in Seq(Writes) /\ revived \subseteq lapsed
  BY DEF Init
<1> QED BY <1>10, <1>11, <1>12, <1>13, <1>14 DEF IInv

\* A handler that commits a proper transaction keeps the invariant.
LEMMA CommitKeepsIt ==
  ASSUME IInv, phase = "up", NEW t \in Writes, Commit(t), Proper(t, mem, lapsed), Covers(t)
  PROVE  IInv'
<1>1. /\ mem' = Apply(mem, t) /\ pending' = Append(pending, t)
      /\ db' = db /\ phase' = "up" /\ stops' = stops /\ lapsed' = lapsed /\ revived' = revived
  BY DEF Commit
<1>2. TypeOK /\ pending \in Seq(Writes) /\ revived \subseteq lapsed /\ Up /\ Remembered
  BY DEF IInv
<1>3. History(db, pending, mem, lapsed, revived) /\ mem \in Books
  BY <1>2 DEF Remembered, Up
<1>4. mem' \in Books /\ History(db, pending', mem', lapsed, revived)
  <2>1. Apply(mem, t) \in Books
        /\ History(db, Append(pending, t), Apply(mem, t), lapsed, revived)
    BY <1>2, <1>3, HistoryGrows
  <2> QED BY <1>1, <2>1
<1>5. Agree(mem', mem', Item)
  BY DEF Agree
<1>6. Remembered'
  BY <1>1, <1>4, <1>5 DEF Remembered
<1>7. mem'.row = [i \in Item |-> IF i \in DOMAIN t.rows THEN t.rows[i] ELSE mem.row[i]]
  BY <1>1, <1>3, Applied
<1>8. RowsSound(mem')
  BY <1>2, <1>7 DEF RowsSound, Up, Proper
<1>9. Open(mem') \subseteq aitems'
  <2> SUFFICES ASSUME NEW i \in Item, mem'.row[i] # NoAuction PROVE i \in aitems'
    BY DEF Open
  <2>1. CASE i \in DOMAIN t.rows
    BY <1>7, <2>1 DEF Covers
  <2>2. CASE i \notin DOMAIN t.rows
    <3>1. mem.row[i] # NoAuction
      BY <1>7, <2>2
    <3>2. i \in aitems
      BY <1>2, <3>1 DEF Up, Open
    <3> QED BY <2>2, <3>2 DEF Covers
  <2> QED BY <2>1, <2>2
<1>10. Up'
  BY <1>4, <1>8, <1>9 DEF Up
<1>11. TypeOK'
  BY <1>1, <1>2, <1>4 DEF TypeOK, Covers
<1>12. Starting'
  BY <1>1 DEF Starting
<1>13. pending' \in Seq(Writes) /\ revived' \subseteq lapsed'
  BY <1>1, <1>2, AppendProperties
<1> QED BY <1>1, <1>6, <1>10, <1>11, <1>12, <1>13 DEF IInv

LEMMA ElapseKeepsIt ==
  ASSUME IInv, NEW i \in Item, Elapse(i)
  PROVE  IInv'
<1>1. /\ mem' = mem /\ db' = db /\ pending' = pending /\ aitems' = aitems /\ phase' = phase
      /\ stops' = stops /\ lapsed' = lapsed /\ revived' = revived /\ due' = due \cup {i}
  BY DEF Elapse
<1> QED BY <1>1 DEF IInv, TypeOK, Up, RowsSound, Open, Starting, Remembered

LEMMA UpdateKeepsIt ==
  ASSUME IInv, Update
  PROVE  IInv'
<1> DEFINE S == Expired
           n == Cardinality(S)
           s == SetToSeq(S)
<1>1. PICK online, kept, us :
        /\ online \in SUBSET Player /\ kept \in SUBSET S
        /\ us = [k \in 1..n |-> Settlement(s[k], mem.row[s[k]], online)]
        /\ mem' = FoldLeft(Apply, mem, us) /\ pending' = pending \o us
        /\ aitems' = (aitems \ S) \cup kept
  BY DEF Update
<1>2. /\ phase = "up" /\ phase' = "up" /\ db' = db /\ due' = due /\ stops' = stops
      /\ lapsed' = lapsed /\ revived' = revived
  BY DEF Update
<1>3. TypeOK /\ pending \in Seq(Writes) /\ revived \subseteq lapsed /\ Up /\ Remembered
  BY <1>2 DEF IInv
<1>4. S \in SUBSET Item /\ S \subseteq Open(mem)
  BY DEF Expired, Open
<1>5. n \in Nat /\ Lists(s, n, S)
  BY <1>4, ItemsListed
<1>6. Settles(us, mem, s, n, online)
  BY <1>1 DEF Settles
<1>7. mem \in Books /\ RowsSound(mem) /\ Open(mem) \subseteq aitems
  BY <1>3 DEF Up
<1>8. History(db, pending, mem, lapsed, revived)
  BY <1>2, <1>3 DEF Remembered
<1>9. AllSent(mem, S, lapsed)
  BY <1>4, <1>7 DEF AllSent, Sends, RowsSound, Open
<1> HIDE DEF S, n, s
<1>10. /\ FoldLeft(Apply, mem, us) \in Books
       /\ History(db, pending \o us, FoldLeft(Apply, mem, us), lapsed, revived)
       /\ Ended(FoldLeft(Apply, mem, us), mem, S)
  <2>1. revived \subseteq lapsed /\ pending \in Seq(Writes)
    BY <1>3
  <2> QED BY <1>5, <1>6, <1>7, <1>8, <1>9, <2>1, SettledOneByOne
<1>11. us \in Seq(Writes)
  BY <1>5, <1>6, <1>7, <1>9, SettlesTyped
<1>12. mem' \in Books /\ History(db, pending', mem', lapsed, revived)
       /\ \A j \in Item : mem'.row[j] = IF j \in S THEN NoAuction ELSE mem.row[j]
  BY <1>1, <1>10 DEF Ended
<1>13. Remembered'
  <2>1. Agree(mem', mem', Item)
    BY DEF Agree
  <2> QED BY <1>2, <1>12, <2>1 DEF Remembered
<1>14. Up'
  <2>1. RowsSound(mem')
    BY <1>7, <1>12 DEF RowsSound, Sound
  <2>2. Open(mem') \subseteq aitems'
    BY <1>1, <1>7, <1>12 DEF Open
  <2> QED BY <1>12, <2>1, <2>2 DEF Up
<1>15. TypeOK'
  BY <1>1, <1>2, <1>3, <1>4, <1>12 DEF TypeOK
<1>16. Starting'
  BY <1>2 DEF Starting
<1>17. pending' \in Seq(Writes) /\ revived' \subseteq lapsed'
  BY <1>1, <1>2, <1>3, <1>11, ConcatProperties
<1> QED BY <1>2, <1>13, <1>14, <1>15, <1>16, <1>17 DEF IInv

\* The worker only shortens the way from the database to the memory.
LEMMA WorkKeepsIt ==
  ASSUME IInv, Work
  PROVE  IInv'
<1> DEFINE t == Head(pending)
<1>1. /\ pending # <<>> /\ db' = Apply(db, t) /\ pending' = Tail(pending)
      /\ mem' = mem /\ aitems' = aitems /\ due' = due /\ phase' = phase /\ stops' = stops
      /\ lapsed' = lapsed /\ revived' = revived
  BY DEF Work, Execute
<1>2. TypeOK /\ pending \in Seq(Writes) /\ revived \subseteq lapsed /\ Starting /\ Remembered
  BY DEF IInv
<1>3. PICK m \in Books : /\ History(db, pending, m, lapsed, revived)
                         /\ Agree(m, mem, Item) /\ (phase = "up" => m = mem)
  BY <1>2 DEF Remembered
<1>4. db' \in Books /\ History(db', pending', m, lapsed, revived)
  <2>1. Apply(db, t) \in Books /\ History(Apply(db, t), Tail(pending), m, lapsed, revived)
    BY <1>1, <1>2, <1>3, HistoryShrinks
  <2> QED BY <1>1, <2>1
<1>5. Remembered'
  BY <1>1, <1>3, <1>4 DEF Remembered
<1>6. TypeOK'
  BY <1>1, <1>2, <1>4 DEF TypeOK
<1>7. phase' = "up" => Up'
  BY <1>1 DEF IInv, Up, RowsSound, Open
<1>8. /\ Len(pending) \in Nat /\ Len(pending) # 0 /\ DOMAIN pending = 1..Len(pending)
      /\ t = pending[1] /\ 1 \in DOMAIN pending
  BY <1>1, <1>2, LenProperties, EmptySeq
<1>9. /\ pending' \in Seq(Writes) /\ DOMAIN pending' = 1..(Len(pending) - 1)
      /\ \A k \in 1..(Len(pending) - 1) : pending'[k] = pending[k + 1]
  BY <1>1, <1>2, HeadTailProperties, LenProperties
<1>10. Starting'
  <2>1. phase # "settle"
    BY <1>1, <1>2 DEF Starting
  <2>2. ASSUME phase # "up", NEW k \in DOMAIN pending'
        PROVE  \E i \in lapsed : Closes(pending'[k], i)
    <3>1. k + 1 \in DOMAIN pending /\ pending'[k] = pending[k + 1]
      BY <1>8, <1>9
    <3> QED BY <1>2, <2>2, <3>1 DEF Starting
  <2>3. ASSUME phase = "auctions" PROVE Open(db') \subseteq aitems
    <3>1. PICK i \in lapsed : Closes(t, i)
      BY <1>2, <1>8, <2>3 DEF Starting
    <3>2. \A j \in Item : Apply(db, t).row[j] = IF j = i THEN NoAuction ELSE db.row[j]
      <4>1. db \in Books
        BY <1>2 DEF TypeOK
      <4> HIDE DEF t
      <4> QED BY <3>1, <4>1, ClosesTyped
    <3>3. Open(db) \subseteq aitems
      BY <1>2, <2>3 DEF Starting
    <3> HIDE DEF t
    <3> QED BY <1>1, <3>2, <3>3 DEF Open
  <2> QED BY <1>1, <2>1, <2>2, <2>3 DEF Starting
<1>11. revived' \subseteq lapsed'
  BY <1>1, <1>2
<1> QED BY <1>5, <1>6, <1>7, <1>9, <1>10, <1>11 DEF IInv

\* What is lost with the queue is lost whole: the database is good as it is.
LEMMA StopKeepsIt ==
  ASSUME IInv, Stop
  PROVE  IInv'
<1>1. /\ stops < MaxStops /\ stops' = stops + 1 /\ phase' = "settle" /\ pending' = <<>>
      /\ mem' = [db EXCEPT !.row = NoAuctions] /\ aitems' = {}
      /\ db' = db /\ due' = due /\ lapsed' = lapsed /\ revived' = revived
  BY DEF Stop
<1>2. TypeOK /\ pending \in Seq(Writes) /\ revived \subseteq lapsed /\ Remembered
  BY DEF IInv
<1>3. db \in Books /\ Good(db, lapsed, revived)
  BY <1>2, HistoryIsGood DEF Remembered
<1>4. History(db, <<>>, db, lapsed, revived)
  BY <1>3, HistoryStarts
<1>5. /\ mem' \in Books /\ mem'.gold = db.gold /\ mem'.bag = db.bag /\ mem'.mail = db.mail
      /\ mem'.parcel = db.parcel /\ mem'.sunk = db.sunk
  <2>1. NoAuctions \in [Item -> Auction \cup {NoAuction}]
    BY DEF NoAuctions
  <2> QED BY <1>1, <1>3, <2>1 DEF Books
<1>6. Agree(db, mem', Item)
  BY <1>5 DEF Agree
<1>7. Remembered'
  BY <1>1, <1>3, <1>4, <1>6 DEF Remembered
<1>8. TypeOK'
  BY <1>1, <1>2, <1>5, AuctionAssumption DEF TypeOK
<1>9. Starting'
  BY <1>1 DEF Starting
<1>10. pending' \in Seq(Writes) /\ revived' \subseteq lapsed' /\ phase' # "up"
  BY <1>1, <1>2
<1> QED BY <1>7, <1>8, <1>9, <1>10 DEF IInv

\* The start settles what ran out meanwhile, and gives up the items.
LEMMA SettleKeepsIt ==
  ASSUME IInv, DeleteExpiredAuctionsAtStartup
  PROVE  IInv'
<1> DEFINE S == due \cap Open(db)
           n == Cardinality(S)
           s == SetToSeq(S)
           L == lapsed \cup S
<1>1. PICK us : /\ us = [k \in 1..n |-> Settlement(s[k], db.row[s[k]], {})]
                /\ mem' = FoldLeft(Apply, mem, us) /\ pending' = us
  BY DEF DeleteExpiredAuctionsAtStartup
<1>2. /\ phase = "settle" /\ phase' = "items" /\ lapsed' = L
      /\ db' = db /\ aitems' = aitems /\ due' = due /\ stops' = stops /\ revived' = revived
  BY DEF DeleteExpiredAuctionsAtStartup
<1>3. TypeOK /\ revived \subseteq lapsed /\ Remembered /\ pending = <<>>
  BY <1>2 DEF IInv, Starting
<1>4. db \in Books /\ mem \in Books /\ lapsed \subseteq Item
  BY <1>3 DEF TypeOK
<1>5. S \in SUBSET Item /\ S \subseteq L /\ lapsed \subseteq L /\ revived \subseteq L
  BY <1>3 DEF Open
<1>6. n \in Nat /\ Lists(s, n, S)
  BY <1>5, ItemsListed
<1>7. Settles(us, db, s, n, {})
  BY <1>1 DEF Settles
<1>8. <<>> \in Seq(Writes)
  OBVIOUS
<1>9. PICK m \in Books : History(db, <<>>, m, lapsed, revived) /\ Agree(m, mem, Item)
  BY <1>3 DEF Remembered
<1>10. Good(db, lapsed, revived) /\ Agree(db, mem, Item)
  <2>1. PICK h \in [0..0 -> Books] :
          Run(h, db, <<>>) /\ Good(h[0], lapsed, revived) /\ Agree(h[0], m, revived)
    BY <1>9 DEF History
  <2>2. h[0] = db
    BY <2>1 DEF Run
  <2>3. Agree(db, m, revived) /\ Good(db, lapsed, revived)
    BY <2>1, <2>2
  <2> QED BY <1>9, <2>3 DEF Agree
<1>11. AllSent(db, S, L)
  BY <1>5, <1>10 DEF AllSent, Sends, Good, RowsSound, Open
<1>12. History(db, <<>>, db, L, revived)
  <2>1. History(db, <<>>, db, lapsed, revived)
    BY <1>4, <1>10, HistoryStarts
  <2> QED BY <1>5, <2>1, HistoryForgets
<1> HIDE DEF S, n, s, L
<1>13. /\ us \in Seq(Writes) /\ DOMAIN us = 1..n /\ \A k \in 1..n : Closes(us[k], s[k])
  BY <1>4, <1>6, <1>7, <1>11, SettlesTyped
<1>14. /\ FoldLeft(Apply, db, us) \in Books
       /\ History(db, <<>> \o us, FoldLeft(Apply, db, us), L, revived)
  BY <1>4, <1>5, <1>6, <1>7, <1>8, <1>11, <1>12, SettledOneByOne
<1>15. <<>> \o us = us
  BY <1>13, ConcatEmptySeq
<1>16. mem' \in Books /\ Agree(FoldLeft(Apply, db, us), mem', Item)
  <2>1. \A k \in 1..n : \E i : Closes(us[k], i)
    BY <1>13
  <2>2. FoldLeft(Apply, mem, us) \in Books
        /\ Agree(FoldLeft(Apply, db, us), FoldLeft(Apply, mem, us), Item)
    BY <1>4, <1>6, <1>10, <1>13, <2>1, SettledAlike
  <2> QED BY <1>1, <2>2
<1>17. Remembered'
  <2>1. PICK q \in Books : q = FoldLeft(Apply, db, us)
    BY <1>14
  <2>2. History(db, us, q, L, revived) /\ Agree(q, mem', Item)
    BY <1>14, <1>15, <1>16, <2>1
  <2> QED BY <1>1, <1>2, <2>2 DEF Remembered
<1>18. TypeOK'
  BY <1>2, <1>3, <1>5, <1>16 DEF TypeOK, L
<1>19. Starting'
  <2>1. \A k \in 1..n : s[k] \in L
    BY <1>5, <1>6 DEF Lists
  <2> QED BY <1>1, <1>2, <1>13, <2>1 DEF Starting
<1>20. pending' \in Seq(Writes) /\ revived' \subseteq lapsed' /\ phase' # "up"
  BY <1>1, <1>2, <1>5, <1>13
<1> QED BY <1>17, <1>18, <1>19, <1>20 DEF IInv

LEMMA LoadItemsKeepsIt ==
  ASSUME IInv, LoadAuctionItems
  PROVE  IInv'
<1>1. /\ phase = "items" /\ phase' = "auctions" /\ aitems' = Open(db)
      /\ mem' = mem /\ db' = db /\ pending' = pending /\ due' = due
      /\ stops' = stops /\ lapsed' = lapsed /\ revived' = revived
  BY DEF LoadAuctionItems
<1>2. TypeOK /\ pending \in Seq(Writes) /\ revived \subseteq lapsed /\ Starting /\ Remembered
  BY DEF IInv
<1>3. TypeOK'
  BY <1>1, <1>2 DEF TypeOK, Open
<1>4. Starting'
  BY <1>1, <1>2 DEF Starting, Open
<1>5. Remembered'
  BY <1>1, <1>2 DEF Remembered
<1> QED BY <1>1, <1>2, <1>3, <1>4, <1>5 DEF IInv

\* Loading the auctions revives those whose settlement is still queued, and
\* gives the memory back all the others.
LEMMA LoadAuctionsKeepsIt ==
  ASSUME IInv, LoadAuctions
  PROVE  IInv'
<1> DEFINE R == revived \cup {i \in Open(db) :
                                \E n \in DOMAIN pending : i \in DOMAIN pending[n].rows}
           N == Len(pending)
<1>1. /\ phase = "auctions" /\ phase' = "up" /\ mem' = [mem EXCEPT !.row = db.row]
      /\ revived' = R /\ db' = db /\ pending' = pending /\ aitems' = aitems /\ due' = due
      /\ stops' = stops /\ lapsed' = lapsed
  BY DEF LoadAuctions
<1>2. TypeOK /\ pending \in Seq(Writes) /\ revived \subseteq lapsed /\ Starting /\ Remembered
  BY DEF IInv
<1>3. N \in Nat /\ DOMAIN pending = 1..N
  BY <1>2, LenProperties
<1>4. ASSUME NEW k \in 1..N PROVE \E i \in lapsed : Closes(pending[k], i)
  BY <1>1, <1>2, <1>3, <1>4 DEF Starting
<1>5. db \in Books /\ mem \in Books
  BY <1>2 DEF TypeOK
<1>6. /\ mem' \in Books /\ mem'.gold = mem.gold /\ mem'.bag = mem.bag
      /\ mem'.mail = mem.mail /\ mem'.parcel = mem.parcel /\ mem'.sunk = mem.sunk
      /\ mem'.row = db.row
  BY <1>1, <1>5 DEF Books
<1>7. revived \subseteq R /\ R \subseteq lapsed
  <2>1. ASSUME NEW k \in 1..N, NEW i \in DOMAIN pending[k].rows PROVE i \in lapsed
    <3>1. PICK j \in lapsed : Closes(pending[k], j)
      BY <1>4
    <3> QED BY <2>1, <3>1 DEF Closes
  <2> QED BY <1>2, <1>3, <2>1
<1>8. PICK m \in Books : History(db, pending, m, lapsed, revived) /\ Agree(m, mem, Item)
  BY <1>2 DEF Remembered
<1>9. History(db, pending, m, lapsed, R)
  <2> HIDE DEF R
  <2> QED BY <1>7, <1>8, HistoryForgets
<1>10. PICK h \in [0..N -> Books] :
         /\ Run(h, db, pending)
         /\ \A k \in 0..N : Good(h[k], lapsed, R)
         /\ Agree(h[N], m, R)
  BY <1>9 DEF History
<1>11. ASSUME NEW i \in Item \ R PROVE h[N].row[i] = db.row[i]
  <2> DEFINE C == {k \in 0..N : h[k].row[i] = db.row[i]}
  <2>1. 0 \in C
    BY <1>3, <1>10 DEF Run
  <2>2. ASSUME NEW k \in 0..N, k < N, k \in C PROVE k + 1 \in C
    <3>1. PICK l : l = k + 1
      OBVIOUS
    <3>2. l \in 1..N /\ l - 1 = k /\ l \in 0..N
      BY <1>3, <2>2, <3>1
    <3>3. PICK j \in lapsed : Closes(pending[l], j)
      BY <1>4, <3>2
    <3>4. PICK c, t : c \in Books /\ c = h[k] /\ t = pending[l]
      BY <1>10
    <3>5. Apply(c, t) = h[l]
      BY <1>3, <1>10, <3>2, <3>4 DEF Run
    <3>6. Apply(c, t).row[i] = IF i = j THEN NoAuction ELSE c.row[i]
      BY <3>3, <3>4, ClosesTyped
    <3>7. i = j => db.row[i] = NoAuction
      <4>1. i = j => i \in DOMAIN pending[l].rows
        BY <3>3 DEF Closes
      <4> QED BY <1>3, <3>2, <4>1 DEF Open
    <3> QED BY <2>2, <3>1, <3>2, <3>4, <3>5, <3>6, <3>7
  <2>3. N \in C
    <3> HIDE DEF C, N
    <3>1. 0..N \subseteq C
      BY <1>3, <2>1, <2>2, CountUp
    <3> QED BY <1>3, <3>1
  <2> QED BY <2>3
<1>12. Agree(h[N], mem', R)
  BY <1>6, <1>8, <1>10, <1>11 DEF Agree
<1>13. History(db, pending, mem', lapsed, R)
  BY <1>10, <1>12 DEF History
<1>14. Remembered'
  <2>1. Agree(mem', mem', Item)
    BY DEF Agree
  <2> HIDE DEF R
  <2> QED BY <1>1, <1>6, <1>13, <2>1 DEF Remembered
<1>15. Up'
  <2>1. RowsSound(db)
    <3>1. Good(db, lapsed, revived)
      BY <1>2, <1>8, HistoryIsGood
    <3> QED BY <3>1 DEF Good
  <2>2. Open(db) \subseteq aitems
    BY <1>1, <1>2 DEF Starting
  <2> QED BY <1>1, <1>6, <2>1, <2>2 DEF Up, RowsSound, Open
<1>16. TypeOK'
  <2>1. R \subseteq Item
    BY <1>2, <1>7 DEF TypeOK
  <2> HIDE DEF R
  <2> QED BY <1>1, <1>2, <1>6, <2>1 DEF TypeOK
<1>17. Starting'
  BY <1>1 DEF Starting
<1>18. pending' \in Seq(Writes) /\ revived' \subseteq lapsed'
  BY <1>1, <1>2, <1>7
<1> QED BY <1>1, <1>14, <1>15, <1>16, <1>17, <1>18 DEF IInv

LEMMA Invariant == Spec => []IInv
<1>1. Init => IInv
  BY InitIsGood
<1>2. IInv /\ [Next]_vars => IInv'
  <2> SUFFICES ASSUME IInv, [Next]_vars PROVE IInv'
    OBVIOUS
  <2>0. /\ aitems \subseteq Item /\ due \subseteq Item
        /\ phase = "up" => Up
    BY DEF IInv, TypeOK
  <2>1. ASSUME phase = "up", \E t \in Writes : Commit(t) /\ Proper(t, mem, lapsed) /\ Covers(t)
        PROVE  IInv'
    BY <2>1, CommitKeepsIt
  <2>2. ASSUME NEW p \in Player, NEW i \in Item, NEW o \in Offer,
               HandleAuctionSellItem(p, i, o)
        PROVE  IInv'
    <3>1. phase = "up"
      BY <2>2 DEF HandleAuctionSellItem, Handles
    <3> QED BY <2>0, <2>1, <2>2, <3>1, SellIsProper
  <2>3. ASSUME NEW p \in Player, NEW i \in Item, NEW n \in Price,
               HandleAuctionPlaceBid(p, i, n)
        PROVE  IInv'
    <3>1. phase = "up" /\ (Bid(p, i, n) \/ Buyout(p, i, n))
      BY <2>3 DEF HandleAuctionPlaceBid, Handles
    <3>2. CASE Bid(p, i, n)
      BY <2>0, <2>1, <2>3, <3>1, <3>2, BidIsProper
    <3>3. CASE Buyout(p, i, n)
      BY <2>0, <2>1, <2>3, <3>1, <3>3, BuyoutIsProper
    <3> QED BY <3>1, <3>2, <3>3
  <2>4. ASSUME NEW p \in Player, NEW i \in Item, HandleAuctionRemoveItem(p, i)
        PROVE  IInv'
    <3>1. phase = "up"
      BY <2>4 DEF HandleAuctionRemoveItem, Handles
    <3> QED BY <2>0, <2>1, <2>4, <3>1, RemoveIsProper
  <2>5. ASSUME NEW p \in Player, HandleMailTakeMoney(p)
        PROVE  IInv'
    <3>1. phase = "up"
      BY <2>5 DEF HandleMailTakeMoney, Handles
    <3> QED BY <2>0, <2>1, <2>5, <3>1, TakeMoneyIsProper
  <2>6. ASSUME NEW p \in Player, NEW i \in Item, HandleMailTakeItem(p, i)
        PROVE  IInv'
    <3>1. phase = "up"
      BY <2>6 DEF HandleMailTakeItem, Handles
    <3> QED BY <2>0, <2>1, <2>6, <3>1, TakeItemIsProper
  <2>7. ASSUME NEW i \in Item, Elapse(i) PROVE IInv'
    BY <2>7, ElapseKeepsIt
  <2>8. CASE Update
    BY <2>8, UpdateKeepsIt
  <2>9. CASE Work
    BY <2>9, WorkKeepsIt
  <2>10. CASE Stop
    BY <2>10, StopKeepsIt
  <2>11. CASE DeleteExpiredAuctionsAtStartup
    BY <2>11, SettleKeepsIt
  <2>12. CASE LoadAuctionItems
    BY <2>12, LoadItemsKeepsIt
  <2>13. CASE LoadAuctions
    BY <2>13, LoadAuctionsKeepsIt
  <2>14. CASE UNCHANGED vars
    BY <2>14 DEF vars, IInv, TypeOK, Up, RowsSound, Open, Starting, Remembered
  <2> QED BY <2>2, <2>3, <2>4, <2>5, <2>6, <2>7, <2>8, <2>9, <2>10, <2>11, <2>12, <2>13,
             <2>14 DEF Next
<1> QED BY <1>1, <1>2, PTL DEF Spec

\* The books of memory and database are books, and every set holds items.
THEOREM TypeCorrect == Spec => []TypeOK
<1>1. IInv => TypeOK
  BY DEF IInv
<1> QED BY <1>1, Invariant, PTL

\* At any moment the database accounts for each item exactly once, unless its
\* auction ran out while the server was down (AuctionHouseMgr::
\* DeleteExpiredAuctionsAtStartup), if the trades of game masters are logged.
THEOREM ItemsStayInOnePlace ==
  ASSUME LogTrade
  PROVE  Spec => []ItemsAreInOnePlace
<1>1. IInv => ItemsAreInOnePlace
  <2> SUFFICES ASSUME IInv, NEW i \in Item \ lapsed PROVE Cardinality(Places(db, i)) = 1
    BY DEF ItemsAreInOnePlace
  <2>1. Good(db, lapsed, revived)
    BY HistoryIsGood DEF IInv, Remembered
  <2>2. Located(db, i)
    BY <2>1 DEF Good
  <2>3. \E x : Places(db, i) = {x}
    <3> DEFINE bags == {q \in Player : i \in db.bag[q]}
               mails == {q \in Player : i \in db.parcel[q]}
               inBags == {<<"bag", p>> : p \in bags}
               inMails == {<<"mail", p>> : p \in mails}
               sold == IF i \in Open(db) THEN {<<"auction", db.row[i].owner>>} ELSE {}
    <3>0. Places(db, i) = inBags \cup inMails \cup sold
      BY DEF Places
    <3>1. CASE /\ \E p \in Player : \A q \in Player : i \in db.bag[q] <=> q = p
               /\ \A q \in Player : i \notin db.parcel[q]
               /\ db.row[i] = NoAuction
      <4>1. PICK p : bags = {p}
        BY <3>1
      <4>2. mails = {} /\ sold = {}
        BY <3>1 DEF Open
      <4> HIDE DEF bags, mails, sold
      <4>3. inBags = {<<"bag", p>>} /\ inMails = {}
        BY <4>1, <4>2
      <4> QED BY <3>0, <4>2, <4>3
    <3>2. CASE /\ \E p \in Player : \A q \in Player : i \in db.parcel[q] <=> q = p
               /\ \A q \in Player : i \notin db.bag[q]
               /\ db.row[i] = NoAuction
      <4>1. PICK p : mails = {p}
        BY <3>2
      <4>2. bags = {} /\ sold = {}
        BY <3>2 DEF Open
      <4> HIDE DEF bags, mails, sold
      <4>3. inMails = {<<"mail", p>>} /\ inBags = {}
        BY <4>1, <4>2
      <4> QED BY <3>0, <4>2, <4>3
    <3>3. CASE /\ \A q \in Player : i \notin db.bag[q] /\ i \notin db.parcel[q]
               /\ db.row[i] # NoAuction
      <4>1. bags = {} /\ mails = {} /\ i \in Open(db)
        BY <3>3 DEF Open
      <4>2. sold = {<<"auction", db.row[i].owner>>}
        BY <4>1
      <4> HIDE DEF bags, mails, sold
      <4>3. inMails = {} /\ inBags = {}
        BY <4>1
      <4> QED BY <3>0, <4>2, <4>3
    <3> QED BY <2>2, <3>1, <3>2, <3>3 DEF Located
  <2> QED BY <2>3, FS_Singleton
<1> QED BY <1>1, Invariant, PTL

\* At any moment the database accounts for all the gold there was, as long as
\* the start has not settled an auction and then loaded it too.
THEOREM GoldStays == Spec => []GoldIsConserved
<1>1. IInv => GoldIsConserved
  BY HistoryIsGood DEF IInv, Remembered, Good, GoldIsConserved
<1> QED BY <1>1, Invariant, PTL
=============================================================================
