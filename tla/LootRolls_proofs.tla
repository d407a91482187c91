-------------------------- MODULE LootRolls_proofs --------------------------
(***************************************************************************)
(* What holds of the rolls of a group whoever answers, leaves or logs out, *)
(* for any set of players, sources and items.  The invariant looks at each *)
(* roll alone: while it lives its totals count every vote, so that no      *)
(* total drops below zero, and count nothing else unless a player answered *)
(* who had answered; only then may an answer be best that nobody's vote is.*)
(***************************************************************************)
EXTENDS LootRolls, FiniteSetTheorems, TLAPS

Totals(r) ==
  /\ r.rolling = With(r, Vote)
  /\ r.need >= With(r, {"need"}) /\ r.greed >= With(r, Greedy)
  /\ r.pass >= With(r, {"pass"})
  /\ ~r.again => /\ r.need = With(r, {"need"}) /\ r.greed = With(r, Greedy)
                 /\ r.pass = With(r, {"pass"})

\* Somebody's vote is need.
Needed(r) == \E p \in DOMAIN r.vote : r.vote[p] = "need"

\* The winner has answered best.
Deserved(r) ==
  r.won # NoPlayer =>
    /\ r.won \in DOMAIN r.vote
    /\ Needed(r) => r.vote[r.won] = "need"
    /\ r.again \/ Needed(r) \/ r.vote[r.won] \in Greedy

\* The end of the roll leaves its item blocked.
Forgotten(r) == r.absent \/ (r.again /\ Ahead(r) = {})

Sound(r) ==
  /\ r \in Roll
  /\ r.live => Totals(r) /\ r.won = NoPlayer
  /\ Deserved(r)

Typed ==
  /\ member \in SUBSET Player
  /\ inWorld \in SUBSET Player
  /\ source \in [Source -> {"shut", "open", "gone"}]
  /\ timer \in [Source -> BOOLEAN]
  /\ item \in [Item -> {"free", "blocked", "looted"}]

IInv ==
  /\ Typed
  /\ roll \in [Item -> Roll]
  /\ \A i \in Item : Sound(roll[i])
  /\ BlockedWhileRolled

-----------------------------------------------------------------------------
(* The number of voters with an answer.                                    *)

\* How many of the voters V have, in the votes f, an answer in S.
Count(V, f, S) == Cardinality({q \in V : f[q] \in S})

\* The votes f and g of V differ at most in p's.
OnlyVoteOf(p, V, f, g) == \A q \in V \ {p} : g[q] = f[q]

\* At most one more answer in S, p's, in g than in f.
OneMore(V, f, g, p, S) ==
  LET n == IF g[p] \in S THEN 1 ELSE 0 IN
  /\ Count(V, g, S) \in Nat /\ Count(V, f, S) \in Nat
  /\ Count(V, g, S) <= Count(V, f, S) + n
  /\ f[p] \notin S => Count(V, g, S) = Count(V, f, S) + n

\* A set of voters is finite.
LEMMA VotersAreFinite ==
  ASSUME NEW V \in SUBSET Player, NEW f, NEW S
  PROVE  IsFiniteSet({q \in V : f[q] \in S}) /\ Count(V, f, S) \in Nat
<1>1. IsFiniteSet(V)
  BY PlayerAssumption, FS_Subset
<1>2. IsFiniteSet({q \in V : f[q] \in S})
  BY <1>1, FS_Subset
<1> QED BY <1>2, FS_CardinalityType DEF Count

\* Without a voter there is one less with his answer.
LEMMA OneVoterLess ==
  ASSUME NEW V \in SUBSET Player, NEW p \in V, NEW f, NEW g, NEW S,
         OnlyVoteOf(p, V, f, g)
  PROVE  Count(V \ {p}, g, S) = Count(V, f, S) - (IF f[p] \in S THEN 1 ELSE 0)
<1> DEFINE A == {q \in V : f[q] \in S}
           B == {q \in V \ {p} : g[q] \in S}
<1>1. IsFiniteSet(A) /\ Count(V, f, S) \in Nat
  BY VotersAreFinite
<1>2. CASE f[p] \in S
  <2>1. B = A \ {p} /\ p \in A
    BY <1>2 DEF OnlyVoteOf
  <2>2. Cardinality(A \ {p}) = Cardinality(A) - 1
    BY <1>1, <2>1, FS_RemoveElement
  <2> QED BY <1>2, <2>1, <2>2 DEF Count
<1>3. CASE f[p] \notin S
  <2>1. B = A
    BY <1>3 DEF OnlyVoteOf
  <2> QED BY <1>1, <1>3, <2>1 DEF Count
<1> QED BY <1>2, <1>3

\* Once a voter has changed his answer there is at most one more with the new
\* one, and exactly one more if his old answer was none of them.
LEMMA OneAnswerMore ==
  ASSUME NEW V \in SUBSET Player, NEW p \in V, NEW f, NEW g, NEW S,
         OnlyVoteOf(p, V, f, g)
  PROVE  OneMore(V, f, g, p, S)
<1> DEFINE rest == Count(V \ {p}, f, S)
           nf == IF f[p] \in S THEN 1 ELSE 0
           ng == IF g[p] \in S THEN 1 ELSE 0
<1>1. Count(V, f, S) \in Nat /\ Count(V, g, S) \in Nat
  BY VotersAreFinite
<1>2. rest = Count(V, f, S) - nf
  <2>1. OnlyVoteOf(p, V, f, f)
    BY DEF OnlyVoteOf
  <2> QED BY <2>1, OneVoterLess
<1>3. rest = Count(V, g, S) - ng
  <2>1. OnlyVoteOf(p, V, g, f)
    BY DEF OnlyVoteOf
  <2> QED BY <2>1, OneVoterLess
<1>4. nf \in {0, 1} /\ ng \in {0, 1} /\ (f[p] \notin S => nf = 0)
  OBVIOUS
<1> HIDE DEF rest, nf, ng
<1>5. Count(V, g, S) <= Count(V, f, S) + ng /\ (nf = 0 => Count(V, g, S) = Count(V, f, S) + ng)
  BY <1>1, <1>2, <1>3, <1>4
<1> QED BY <1>1, <1>4, <1>5 DEF ng, OneMore

-----------------------------------------------------------------------------
(* What the operators on rolls do.                                         *)

\* The votes of a roll.
LEMMA VotesOfRoll ==
  ASSUME NEW r \in Roll
  PROVE  DOMAIN r.vote \in SUBSET Player /\ r.vote \in [DOMAIN r.vote -> Vote]
BY DEF Roll

\* The roll no item has had yet is sound.
LEMMA NoRollIsSound == Sound(NoRoll) /\ ~NoRoll.live
<1>1. [p \in {} |-> "pass"] \in [{} -> Vote]
  OBVIOUS
<1>2. NoRoll \in Roll
  BY <1>1 DEF NoRoll, Roll
<1> QED BY <1>2 DEF NoRoll, Sound, Deserved

\* A roll starts sound.
LEMMA StartIsSound ==
  ASSUME NEW V \in SUBSET Player, NEW P \in SUBSET V
  PROVE  /\ Sound(Started(V, P))
         /\ Started(V, P).live <=> V # {}
<1> DEFINE r == Started(V, P)
           f == [p \in V |-> IF p \in P THEN "pass" ELSE "not yet"]
<1>1. IsFiniteSet(V) /\ IsFiniteSet(P)
  BY PlayerAssumption, FS_Subset
<1>2. Cardinality(V) \in Nat /\ Cardinality(P) \in Nat
  BY <1>1, FS_CardinalityType
<1>3. f \in [V -> Vote]
  BY DEF Vote, Answer
<1>4. /\ r.vote = f /\ r.need = 0 /\ r.greed = 0 /\ r.pass = Cardinality(P)
      /\ r.rolling = Cardinality(V) /\ r.won = NoPlayer /\ r.live = (V # {})
  BY DEF Started
<1>5. r \in Roll
  <2>1. f \in UNION {[W -> Vote] : W \in SUBSET Player}
    BY <1>3
  <2>2. (V # {}) \in BOOLEAN
    OBVIOUS
  <2> QED BY <1>2, <2>1, <2>2 DEF Roll, Started
<1>6. Totals(r)
  <2>1. /\ {q \in V : f[q] \in {"need"}} = {} /\ {q \in V : f[q] \in Greedy} = {}
        /\ {q \in V : f[q] \in {"pass"}} = P /\ {q \in V : f[q] \in Vote} = V
    BY DEF Greedy, Vote, Answer
  <2>2. DOMAIN r.vote = V
    BY <1>4
  <2>3. /\ With(r, {"need"}) = 0 /\ With(r, Greedy) = 0
        /\ With(r, {"pass"}) = Cardinality(P) /\ With(r, Vote) = Cardinality(V)
    BY <1>4, <2>1, <2>2, FS_EmptySet DEF With
  <2> HIDE DEF r
  <2>4. /\ r.need = 0 /\ r.greed = 0 /\ r.pass = Cardinality(P)
        /\ r.rolling = Cardinality(V)
    BY <1>4
  <2> QED BY ONLY <1>2, <2>3, <2>4 DEF Totals
<1> QED BY <1>4, <1>5, <1>6 DEF Sound, Deserved

\* An answer, the player's first or another, keeps a roll sound.
LEMMA AnswerIsSound ==
  ASSUME NEW r, Sound(r), r.live, NEW p \in DOMAIN r.vote, NEW answer \in Answer
  PROVE  Sound(Counted(r, p, answer)) /\ Counted(r, p, answer).live
<1> DEFINE V == DOMAIN r.vote
           s == Counted(r, p, answer)
           n(S) == IF answer \in S THEN 1 ELSE 0
           first == (r.vote[p] = "not yet")
<1>1. r \in Roll /\ V \in SUBSET Player /\ r.vote \in [V -> Vote] /\ Totals(r)
      /\ r.won = NoPlayer
  BY VotesOfRoll DEF Sound
<1>2. /\ s.vote = [r.vote EXCEPT ![p] = answer]
      /\ s.need = r.need + n({"need"}) /\ s.greed = r.greed + n(Greedy)
      /\ s.pass = r.pass + n({"pass"}) /\ s.rolling = r.rolling
      /\ s.won = r.won /\ s.live = r.live /\ s.again = (r.again \/ ~first)
      /\ s = [live |-> r.live, vote |-> s.vote, need |-> s.need, greed |-> s.greed,
              pass |-> s.pass, rolling |-> s.rolling, won |-> r.won,
              absent |-> r.absent, again |-> s.again]
  <2>1. s = [r EXCEPT !.vote = [r.vote EXCEPT ![p] = answer],
                      !.need = @ + n({"need"}), !.greed = @ + n(Greedy),
                      !.pass = @ + n({"pass"}), !.again = @ \/ r.vote[p] # "not yet"]
    BY DEF Counted
  <2> QED BY <1>1, <2>1 DEF Roll
<1>3. s.vote \in [V -> Vote] /\ DOMAIN s.vote = V /\ s.vote[p] = answer
      /\ \A q \in V \ {p} : s.vote[q] = r.vote[q]
  BY <1>1, <1>2 DEF Vote
<1> HIDE DEF s
<1>4. /\ r.need \in Nat /\ r.greed \in Nat /\ r.pass \in Nat /\ r.rolling \in Nat
      /\ r.live \in BOOLEAN /\ r.absent \in BOOLEAN /\ s.again \in BOOLEAN
      /\ r.won \in Player \cup {NoPlayer}
  <2>1. s.again \in BOOLEAN
    BY <1>2, Zenon
  <2> QED BY <1>1, <2>1 DEF Roll
<1>5. s \in Roll
  <2>1. s.need \in Nat /\ s.greed \in Nat /\ s.pass \in Nat /\ s.rolling \in Nat
    <3>1. n({"need"}) \in Nat /\ n(Greedy) \in Nat /\ n({"pass"}) \in Nat
      OBVIOUS
    <3> HIDE DEF n, first
    <3>2. /\ s.need = r.need + n({"need"}) /\ s.greed = r.greed + n(Greedy)
          /\ s.pass = r.pass + n({"pass"}) /\ s.rolling = r.rolling
      BY <1>2
    <3> QED BY <1>4, <3>1, <3>2
  <2>2. s.vote \in UNION {[W -> Vote] : W \in SUBSET Player}
    BY <1>1, <1>3
  <2> HIDE DEF n, first
  <2>3. PICK sv, sn, sg, sp, sr, sa :
          sv = s.vote /\ sn = s.need /\ sg = s.greed /\ sp = s.pass
          /\ sr = s.rolling /\ sa = s.again
    OBVIOUS
  <2>4. s = [live |-> r.live, vote |-> sv, need |-> sn, greed |-> sg, pass |-> sp,
             rolling |-> sr, won |-> r.won, absent |-> r.absent, again |-> sa]
    BY <1>2, <2>3
  <2> QED BY ONLY <1>4, <2>1, <2>2, <2>3, <2>4 DEF Roll
<1>6. ASSUME NEW S, "not yet" \notin S
      PROVE  /\ With(s, S) \in Nat /\ With(r, S) \in Nat
             /\ With(s, S) <= With(r, S) + n(S)
             /\ first => With(s, S) = With(r, S) + n(S)
  <2>1. With(s, S) = Count(V, s.vote, S) /\ With(r, S) = Count(V, r.vote, S)
    BY <1>3 DEF With, Count
  <2>2. p \in V /\ V \in SUBSET Player /\ (first => r.vote[p] \notin S)
    BY <1>1, <1>6
  <2>3. /\ Count(V, s.vote, S) \in Nat /\ Count(V, r.vote, S) \in Nat
        /\ Count(V, s.vote, S) <= Count(V, r.vote, S) + (IF s.vote[p] \in S THEN 1 ELSE 0)
        /\ r.vote[p] \notin S =>
             Count(V, s.vote, S) = Count(V, r.vote, S) + (IF s.vote[p] \in S THEN 1 ELSE 0)
    <3> DEFINE g == s.vote
               f == r.vote
    <3>1. p \in V /\ V \in SUBSET Player /\ OnlyVoteOf(p, V, f, g)
      BY <1>3, <2>2 DEF OnlyVoteOf
    <3> HIDE DEF g, f, V
    <3>2. OneMore(V, f, g, p, S)
      BY ONLY <3>1, OneAnswerMore
    <3> QED BY <3>2 DEF g, f, OneMore
  <2> QED BY <1>3, <2>1, <2>2, <2>3
<1>7. "not yet" \notin {"need"} /\ "not yet" \notin Greedy /\ "not yet" \notin {"pass"}
  BY DEF Greedy
<1>8. With(s, Vote) = With(r, Vote)
  <2>1. {q \in V : s.vote[q] \in Vote} = {q \in V : r.vote[q] \in Vote}
    BY <1>1, <1>3
  <2> QED BY <1>3, <2>1 DEF With
<1>9. Totals(s)
  <2>1. /\ n({"need"}) \in {0, 1} /\ n(Greedy) \in {0, 1} /\ n({"pass"}) \in {0, 1}
    OBVIOUS
  <2>2. /\ With(s, {"need"}) \in Nat /\ With(r, {"need"}) \in Nat
        /\ With(s, {"need"}) <= With(r, {"need"}) + n({"need"})
        /\ first => With(s, {"need"}) = With(r, {"need"}) + n({"need"})
    BY ONLY <1>6, <1>7
  <2>3. /\ With(s, Greedy) \in Nat /\ With(r, Greedy) \in Nat
        /\ With(s, Greedy) <= With(r, Greedy) + n(Greedy)
        /\ first => With(s, Greedy) = With(r, Greedy) + n(Greedy)
    BY ONLY <1>6, <1>7
  <2>4. /\ With(s, {"pass"}) \in Nat /\ With(r, {"pass"}) \in Nat
        /\ With(s, {"pass"}) <= With(r, {"pass"}) + n({"pass"})
        /\ first => With(s, {"pass"}) = With(r, {"pass"}) + n({"pass"})
    BY ONLY <1>6, <1>7
  <2>5. ~s.again => first /\ ~r.again
    BY <1>2
  <2> HIDE DEF n, first
  <2>6. s.rolling = With(s, Vote)
    BY <1>1, <1>2, <1>8 DEF Totals
  <2>7. s.need >= With(s, {"need"}) /\ (~s.again => s.need = With(s, {"need"}))
    BY <1>1, <1>2, <1>4, <2>1, <2>2, <2>5 DEF Totals
  <2>8. s.greed >= With(s, Greedy) /\ (~s.again => s.greed = With(s, Greedy))
    BY <1>1, <1>2, <1>4, <2>1, <2>3, <2>5 DEF Totals
  <2>9. s.pass >= With(s, {"pass"}) /\ (~s.again => s.pass = With(s, {"pass"}))
    BY <1>1, <1>2, <1>4, <2>1, <2>4, <2>5 DEF Totals
  <2> QED BY <2>6, <2>7, <2>8, <2>9 DEF Totals
<1> QED BY <1>1, <1>2, <1>5, <1>9 DEF Sound, Deserved, s

\* A member who goes leaves a roll sound; it neither ends nor is it won.
LEMMA RemovalIsSound ==
  ASSUME NEW r, Sound(r), NEW p
  PROVE  /\ Sound(Without(r, p)) /\ Without(r, p).live = r.live
         /\ ~r.live => Without(r, p) = r
<1> DEFINE V == DOMAIN r.vote
           s == Without(r, p)
           n(S) == IF r.vote[p] \in S THEN 1 ELSE 0
<1>1. CASE ~r.live \/ p \notin V
  BY <1>1 DEF Without
<1>2. CASE r.live /\ p \in V
  <2>1. r \in Roll /\ V \in SUBSET Player /\ r.vote \in [V -> Vote] /\ Totals(r)
        /\ r.won = NoPlayer /\ p \in V
    BY <1>2, VotesOfRoll DEF Sound
  <2>2. s = [r EXCEPT !.vote = [q \in V \ {p} |-> r.vote[q]],
                      !.need = @ - n({"need"}), !.greed = @ - n(Greedy),
                      !.pass = @ - n({"pass"}), !.rolling = @ - 1]
    BY <1>2 DEF Without
  <2>3. /\ s.vote = [q \in V \ {p} |-> r.vote[q]]
        /\ s.need = r.need - n({"need"}) /\ s.greed = r.greed - n(Greedy)
        /\ s.pass = r.pass - n({"pass"}) /\ s.rolling = r.rolling - 1
        /\ s.won = r.won /\ s.live = r.live /\ s.again = r.again
        /\ s = [live |-> r.live, vote |-> s.vote, need |-> s.need, greed |-> s.greed,
                pass |-> s.pass, rolling |-> s.rolling, won |-> r.won,
                absent |-> r.absent, again |-> r.again]
    BY <2>1, <2>2 DEF Roll
  <2> HIDE DEF s
  <2>4. /\ DOMAIN s.vote = V \ {p} /\ V \ {p} \in SUBSET Player
        /\ s.vote \in [V \ {p} -> Vote]
        /\ \A q \in V \ {p} : s.vote[q] = r.vote[q]
    BY <2>1, <2>3
  <2>5. ASSUME NEW S
        PROVE  With(s, S) = With(r, S) - n(S) /\ With(s, S) \in Nat
    <3>1. With(s, S) = Count(V \ {p}, s.vote, S) /\ With(r, S) = Count(V, r.vote, S)
      BY <2>4 DEF With, Count
    <3>2. Count(V \ {p}, s.vote, S) = Count(V, r.vote, S) - n(S)
      <4>1. OnlyVoteOf(p, V, r.vote, s.vote)
        BY <2>4 DEF OnlyVoteOf
      <4> QED BY <2>1, <4>1, OneVoterLess
    <3>3. Count(V \ {p}, s.vote, S) \in Nat
      BY <2>4, VotersAreFinite
    <3> QED BY <3>1, <3>2, <3>3
  <2>6. With(s, Vote) = With(r, Vote) - 1
    <3>1. r.vote[p] \in Vote
      BY <2>1
    <3> QED BY <2>5, <3>1
  <2>7. /\ r.need \in Nat /\ r.greed \in Nat /\ r.pass \in Nat /\ r.rolling \in Nat
        /\ r.live \in BOOLEAN /\ r.absent \in BOOLEAN /\ r.again \in BOOLEAN
        /\ r.won \in Player \cup {NoPlayer}
    BY <2>1 DEF Roll
  <2>8. ASSUME NEW S, NEW total \in Nat, total >= With(r, S),
               ~r.again => total = With(r, S)
        PROVE  /\ total - n(S) \in Nat /\ total - n(S) >= With(s, S)
               /\ ~r.again => total - n(S) = With(s, S)
    <3>1. With(s, S) = With(r, S) - n(S) /\ With(s, S) \in Nat
      BY <2>5
    <3>2. n(S) \in {0, 1} /\ With(r, S) \in Nat
      <4>1. With(r, S) = Count(V, r.vote, S)
        BY DEF With, Count
      <4> QED BY <2>1, <4>1, VotersAreFinite
    <3> HIDE DEF n
    <3> QED BY <2>8, <3>1, <3>2
  <2>9. /\ s.need \in Nat /\ s.need >= With(s, {"need"})
        /\ ~r.again => s.need = With(s, {"need"})
    BY <2>1, <2>3, <2>7, <2>8 DEF Totals
  <2>10. /\ s.greed \in Nat /\ s.greed >= With(s, Greedy)
         /\ ~r.again => s.greed = With(s, Greedy)
    BY <2>1, <2>3, <2>7, <2>8 DEF Totals
  <2>11. /\ s.pass \in Nat /\ s.pass >= With(s, {"pass"})
         /\ ~r.again => s.pass = With(s, {"pass"})
    BY <2>1, <2>3, <2>7, <2>8 DEF Totals
  <2>12. s.rolling = With(s, Vote) /\ s.rolling \in Nat
    BY <2>1, <2>3, <2>5, <2>6 DEF Totals
  <2>13. Totals(s)
    BY <2>3, <2>9, <2>10, <2>11, <2>12 DEF Totals
  <2>14. s \in Roll
    <3>1. s.vote \in UNION {[W -> Vote] : W \in SUBSET Player}
      BY <2>4
    <3> QED BY <2>3, <2>7, <2>9, <2>10, <2>11, <2>12, <3>1 DEF Roll
  <2> QED BY <1>2, <2>1, <2>3, <2>13, <2>14 DEF Sound, Deserved, s
<1> QED BY <1>1, <1>2

\* What was counted was answered: a total above zero has a vote unless somebody
\* answered again, and a vote its total.
LEMMA CountedWasAnswered ==
  ASSUME NEW r, Sound(r), r.live
  PROVE  /\ r.need \in Nat /\ r.greed \in Nat
         /\ Needed(r) => r.need > 0
         /\ (r.need = 0 /\ r.greed = 0) \/ r.again \/ Ahead(r) # {}
<1> DEFINE V == DOMAIN r.vote
<1>1. r \in Roll /\ V \in SUBSET Player /\ Totals(r)
  BY VotesOfRoll DEF Sound
<1>2. r.need \in Nat /\ r.greed \in Nat
  BY <1>1 DEF Roll
<1>3. ASSUME NEW S
      PROVE  /\ With(r, S) \in Nat
             /\ With(r, S) = 0 <=> {q \in V : r.vote[q] \in S} = {}
  <2>1. IsFiniteSet({q \in V : r.vote[q] \in S}) /\ Count(V, r.vote, S) \in Nat
    BY <1>1, VotersAreFinite
  <2>2. With(r, S) = Count(V, r.vote, S)
    BY DEF With, Count
  <2> QED BY <2>1, <2>2, FS_EmptySet DEF With
<1>4. Needed(r) => r.need > 0
  <2>1. Needed(r) => With(r, {"need"}) # 0
    BY <1>3 DEF Needed
  <2>2. With(r, {"need"}) \in Nat /\ r.need >= With(r, {"need"})
    BY <1>1, <1>3 DEF Totals
  <2> QED BY <1>2, <2>1, <2>2
<1>5. ASSUME ~(r.need = 0 /\ r.greed = 0), ~r.again
      PROVE  Ahead(r) # {}
  <2>1. r.need = With(r, {"need"}) /\ r.greed = With(r, Greedy)
    BY <1>1, <1>5 DEF Totals
  <2>2. CASE r.need > 0
    <3>1. {q \in V : r.vote[q] \in {"need"}} # {}
      BY <1>3, <2>1, <2>2
    <3> QED BY <2>2, <3>1 DEF Ahead
  <2>3. CASE r.need = 0
    <3>1. {q \in V : r.vote[q] \in Greedy} # {}
      BY <1>3, <1>5, <2>1, <2>3
    <3> QED BY <2>3, <3>1 DEF Ahead
  <2> QED BY <1>2, <2>2, <2>3
<1> QED BY <1>2, <1>4, <1>5

\* However a roll ends it is sound, and its item is blocked only for an absent
\* winner or a counted answer that nobody's vote is.
LEMMA EndIsSound ==
  ASSUME NEW r, Sound(r), r.live, NEW result \in Results(r)
  PROVE  /\ Sound(Ended(r, result)) /\ ~Ended(r, result).live
         /\ result.item \in {"free", "blocked", "looted"}
         /\ result.item = "blocked" => Forgotten(Ended(r, result))
<1> DEFINE V == DOMAIN r.vote
           s == Ended(r, result)
           absent == result.won \in Player \ inWorld
<1>1. r \in Roll /\ V \in SUBSET Player /\ r.vote \in [V -> Vote] /\ Totals(r)
  BY VotesOfRoll DEF Sound
<1>2. /\ s.won = result.won /\ s.vote = r.vote /\ s.live = FALSE
      /\ s.need = r.need /\ s.again = r.again /\ s.absent = absent
  BY <1>1 DEF Ended, Roll
<1>3. (result.won \in Player \cup {NoPlayer}) => s \in Roll
  <2>1. absent \in BOOLEAN
    OBVIOUS
  <2> QED BY <1>1, <2>1 DEF Ended, Roll
<1> HIDE DEF s
<1>4. Ahead(s) = Ahead(r) /\ (Needed(s) <=> Needed(r))
  BY <1>2 DEF Ahead, Needed
<1>5. /\ r.need \in Nat /\ r.greed \in Nat
      /\ Needed(r) => r.need > 0
      /\ (r.need = 0 /\ r.greed = 0) \/ r.again \/ Ahead(r) # {}
  BY CountedWasAnswered
<1>6. CASE r.need = 0 /\ r.greed = 0
  <2>1. result = [item |-> "free", won |-> NoPlayer]
    BY <1>6 DEF Results
  <2> QED BY <1>2, <1>3, <2>1 DEF Sound, Deserved, s
<1>7. CASE ~(r.need = 0 /\ r.greed = 0) /\ V = {}
  <2>1. result = [item |-> "blocked", won |-> NoPlayer]
    BY <1>7 DEF Results
  <2>2. Ahead(r) = {}
    BY <1>7 DEF Ahead
  <2>3. Forgotten(s)
    BY <1>2, <1>4, <1>5, <1>7, <2>2 DEF Forgotten
  <2> QED BY <1>2, <1>3, <2>1, <2>3 DEF Sound, Deserved, s
<1>8. CASE ~(r.need = 0 /\ r.greed = 0) /\ V # {}
  <2>1. PICK p \in Candidates(r) : result \in [item : Award(r, p), won : {p}]
    BY <1>8 DEF Results
  <2>2. p \in V /\ (Ahead(r) # {} => p \in Ahead(r))
    BY <2>1 DEF Candidates, Ahead
  <2>3. result.won = p /\ result.item \in Award(r, p)
    BY <2>1
  <2>4. p \in Player /\ p # NoPlayer
    BY <1>1, <2>2, PlayerAssumption
  <2>5. result.item \in {"free", "blocked", "looted"}
    BY <2>3 DEF Award
  <2>6. result.item = "blocked" => Forgotten(s)
    <3>1. result.item = "blocked" => Unclaimed(r, p)
      BY <2>3 DEF Award
    <3> QED BY <1>2, <1>4, <1>5, <1>8, <2>3, <2>4, <3>1 DEF Unclaimed, Forgotten
  <2>7. Needed(r) => r.vote[p] = "need"
    <3>1. ASSUME Needed(r) PROVE r.vote[p] = "need"
      <4>1. PICK q \in V : r.vote[q] = "need"
        BY <3>1 DEF Needed
      <4>2. r.need > 0
        BY <1>5, <3>1
      <4>3. Ahead(r) # {}
        BY <4>1, <4>2 DEF Ahead
      <4> QED BY <2>2, <4>2, <4>3 DEF Ahead
    <3> QED BY <3>1
  <2>8. r.again \/ Needed(r) \/ r.vote[p] \in Greedy
    <3>1. CASE Ahead(r) = {}
      BY <1>5, <1>8, <3>1
    <3>2. CASE Ahead(r) # {}
      BY <2>2, <3>2 DEF Ahead, Needed
    <3> QED BY <3>1, <3>2
  <2>9. Deserved(s)
    BY <1>2, <1>4, <2>2, <2>3, <2>7, <2>8 DEF Deserved
  <2> QED BY <1>2, <1>3, <2>3, <2>4, <2>5, <2>6, <2>9 DEF Sound, s
<1> QED BY <1>6, <1>7, <1>8

\* The group's list of rolls goes, and no roll with it becomes unsound.
LEMMA DisbandIsSound ==
  ASSUME NEW r, Sound(r)
  PROVE  Sound([r EXCEPT !.live = FALSE]) /\ [r EXCEPT !.live = FALSE].live = FALSE
<1> DEFINE s == [r EXCEPT !.live = FALSE]
<1>1. r \in Roll
  BY DEF Sound
<1>2. /\ s \in Roll /\ s.live = FALSE /\ s.won = r.won /\ s.vote = r.vote
      /\ s.again = r.again
  BY <1>1 DEF Roll
<1> HIDE DEF s
<1>3. Deserved(s)
  BY <1>2 DEF Sound, Deserved, Needed
<1> QED BY <1>2, <1>3 DEF Sound, s

-----------------------------------------------------------------------------
(* The invariant holds at first and after every step.                      *)

\* What it says of one item and its roll.
Safe(i) ==
  /\ Sound(roll[i])
  /\ Valid(i) => item[i] = "blocked"
  /\ item[i] = "blocked" =>
       roll[i].live \/ Disbanded \/ Forgotten(roll[i])

\* The invariant, item by item.
LEMMA SafeItems == IInv <=> Typed /\ roll \in [Item -> Roll] /\ \A i \in Item : Safe(i)
BY DEF IInv, Safe, Forgotten, BlockedWhileRolled

\* The initial state satisfies the invariant.
LEMMA InitIsSound == Init => IInv
<1> SUFFICES ASSUME Init PROVE IInv
  OBVIOUS
<1>1. Typed
  BY PlayerAssumption DEF Init, Typed
<1>2. NoRoll \in Roll
  BY NoRollIsSound DEF Sound
<1>3. ASSUME NEW i \in Item PROVE Safe(i)
  BY <1>3, NoRollIsSound DEF Init, Safe, Valid
<1> QED BY <1>1, <1>2, <1>3, SafeItems DEF Init

\* Rolls start only for a source that was shut: no other roll changes.
LEMMA SendLootIsSound ==
  ASSUME IInv, NEW s \in Source, NEW m \in Method, SendLoot(s, m)
  PROVE  IInv'
<1> DEFINE Here == {i \in Item : SourceOf[i] = s}
<1>1. PICK e \in [Here -> Electorate] :
        LET rolled == {i \in DOMAIN e : e[i][1] # {}} IN
        /\ source' = [source EXCEPT ![s] = "open"]
        /\ roll' = [i \in Item |->
                      IF i \in rolled THEN Started(e[i][1], e[i][2]) ELSE roll[i]]
        /\ item' = [i \in Item |-> IF i \in rolled THEN "blocked" ELSE item[i]]
        /\ timer' = [timer EXCEPT ![s] = rolled # {} /\ SetsTimer(s, m)]
  BY DEF SendLoot
<1>2. UNCHANGED <<member, inWorld>> /\ source[s] = "shut"
  BY DEF SendLoot
<1> DEFINE rolled == {i \in Here : e[i][1] # {}}
<1>3. /\ source' = [source EXCEPT ![s] = "open"]
      /\ roll' = [i \in Item |->
                    IF i \in rolled THEN Started(e[i][1], e[i][2]) ELSE roll[i]]
      /\ item' = [i \in Item |-> IF i \in rolled THEN "blocked" ELSE item[i]]
      /\ timer' = [timer EXCEPT ![s] = rolled # {} /\ SetsTimer(s, m)]
  BY <1>1
<1>4. ASSUME NEW i \in rolled
      PROVE  Sound(Started(e[i][1], e[i][2])) /\ Started(e[i][1], e[i][2]).live
  <2>1. e[i] \in Electorate
    BY <1>1
  <2>2. e[i][1] \in SUBSET Player /\ e[i][2] \in SUBSET e[i][1] /\ e[i][1] # {}
    BY <1>4, <2>1 DEF Electorate
  <2> QED BY <2>2, StartIsSound
<1> HIDE DEF rolled
<1>5. Typed'
  <2>1. (rolled # {} /\ SetsTimer(s, m)) \in BOOLEAN
    BY Zenon DEF SetsTimer
  <2>2. timer' \in [Source -> BOOLEAN]
    BY <1>3, <2>1 DEF IInv, Typed
  <2> QED BY <1>2, <1>3, <2>2 DEF IInv, Typed
<1>6. ASSUME NEW i \in Item PROVE Safe(i)' /\ roll'[i] \in Roll
  <2>1. CASE i \in rolled
    BY <1>3, <1>4, <2>1 DEF Safe, Sound, Valid
  <2>2. CASE i \notin rolled
    <3>1. roll'[i] = roll[i] /\ item'[i] = item[i] /\ member' = member
      BY <1>2, <1>3, <2>2
    <3>2. source'[SourceOf[i]] = "gone" <=> source[SourceOf[i]] = "gone"
      BY <1>2, <1>3, SourceAssumption DEF IInv, Typed
    <3> QED BY <3>1, <3>2, SafeItems DEF Safe, Sound, Valid, Disbanded
  <2> QED BY <2>1, <2>2
<1>7. roll' \in [Item -> Roll]
  BY <1>3, <1>6
<1> QED BY <1>5, <1>6, <1>7 DEF IInv, Safe, Forgotten, BlockedWhileRolled

\* An answer changes its roll, which may end.
LEMMA VoteIsSound ==
  ASSUME IInv, NEW p \in Player, NEW i \in Item, NEW answer \in Answer,
         CountRollVote(p, i, answer)
  PROVE  IInv'
<1> DEFINE r == Counted(roll[i], p, answer)
<1>1. /\ p \in member /\ Valid(i) /\ p \in DOMAIN roll[i].vote
      /\ UNCHANGED <<member, inWorld, source, timer>>
  BY DEF CountRollVote
<1>2. Safe(i) /\ Sound(roll[i]) /\ roll[i].live /\ item[i] = "blocked"
  BY <1>1, SafeItems DEF Safe, Valid
<1>3. Sound(r) /\ r.live /\ r \in Roll
  BY <1>1, <1>2, AnswerIsSound DEF Sound
<1> HIDE DEF r
<1>4. CASE roll' = [roll EXCEPT ![i] = r] /\ item' = item
  <2>1. Typed' /\ roll' \in [Item -> Roll]
    BY <1>1, <1>3, <1>4 DEF IInv, Typed
  <2>2. ASSUME NEW j \in Item PROVE Safe(j)'
    <3>1. CASE j = i
      BY <1>1, <1>2, <1>3, <1>4, <3>1 DEF IInv, Safe, Valid, Disbanded
    <3>2. CASE j # i
      BY <1>1, <1>4, <3>2, SafeItems DEF IInv, Safe, Valid, Disbanded
    <3> QED BY <3>1, <3>2
  <2> QED BY <2>1, <2>2 DEF IInv, Safe, Forgotten, BlockedWhileRolled
<1>5. ASSUME NEW result \in Results(r),
             roll' = [roll EXCEPT ![i] = Ended(r, result)],
             item' = [item EXCEPT ![i] = result.item]
      PROVE  IInv'
  <2>1. /\ Sound(Ended(r, result)) /\ ~Ended(r, result).live
        /\ result.item \in {"free", "blocked", "looted"}
        /\ result.item = "blocked" => Forgotten(Ended(r, result))
        /\ Ended(r, result) \in Roll
    BY <1>3, EndIsSound DEF Sound
  <2>2. Typed' /\ roll' \in [Item -> Roll]
    BY <1>1, <1>5, <2>1 DEF IInv, Typed
  <2>3. ASSUME NEW j \in Item PROVE Safe(j)'
    <3>1. CASE j = i
      BY <1>5, <2>1, <3>1 DEF IInv, Typed, Safe, Valid
    <3>2. CASE j # i
      BY <1>1, <1>5, <3>2, SafeItems DEF IInv, Typed, Safe, Valid, Disbanded
    <3> QED BY <3>1, <3>2
  <2> QED BY <2>2, <2>3 DEF IInv, Safe, Forgotten, BlockedWhileRolled
<1>6. \/ roll' = [roll EXCEPT ![i] = r] /\ item' = item
      \/ \E result \in Results(r) :
           /\ roll' = [roll EXCEPT ![i] = Ended(r, result)]
           /\ item' = [item EXCEPT ![i] = result.item]
  BY DEF CountRollVote, r
<1> QED BY <1>4, <1>5, <1>6

\* A timer ends the rolls of its source.
LEMMA ExpireIsSound ==
  ASSUME IInv, NEW s \in Source, Expire(s)
  PROVE  IInv'
<1> DEFINE over == {i \in Item : SourceOf[i] = s /\ roll[i].live /\ ~Disbanded}
<1>1. UNCHANGED <<member, inWorld, source>> /\ timer' = [timer EXCEPT ![s] = FALSE]
  BY DEF Expire
<1>2. PICK result \in [over -> UNION {Results(roll[i]) : i \in over}] :
        /\ \A i \in over : result[i] \in Results(roll[i])
        /\ roll' = [i \in Item |->
                      IF i \in over THEN Ended(roll[i], result[i]) ELSE roll[i]]
        /\ item' = [i \in Item |-> IF i \in over THEN result[i].item ELSE item[i]]
  BY DEF Expire
<1>3. ASSUME NEW i \in over
      PROVE  /\ Sound(Ended(roll[i], result[i])) /\ ~Ended(roll[i], result[i]).live
             /\ result[i].item \in {"free", "blocked", "looted"}
             /\ result[i].item = "blocked" => Forgotten(Ended(roll[i], result[i]))
             /\ Ended(roll[i], result[i]) \in Roll
  BY <1>2, <1>3, EndIsSound DEF IInv, Sound
<1> HIDE DEF over
<1>4. Typed' /\ roll' \in [Item -> Roll]
  BY <1>1, <1>2, <1>3 DEF IInv, Typed
<1>5. ASSUME NEW i \in Item PROVE Safe(i)'
  <2>1. CASE i \in over
    BY <1>2, <1>3, <2>1 DEF Safe, Valid
  <2>2. CASE i \notin over
    BY <1>1, <1>2, <2>2, SafeItems DEF Safe, Valid, Disbanded
  <2> QED BY <2>1, <2>2
<1> QED BY <1>4, <1>5 DEF IInv, Safe, Forgotten, BlockedWhileRolled

\* Cleared loot has no valid roll.
LEMMA ClearLootIsSound ==
  ASSUME IInv, NEW s \in Source, ClearLoot(s)
  PROVE  IInv'
<1>1. Typed' /\ roll' \in [Item -> Roll]
  BY DEF ClearLoot, IInv, Typed
<1>2. ASSUME NEW i \in Item PROVE Safe(i)'
  <2>1. source'[SourceOf[i]] # "gone" => source[SourceOf[i]] # "gone"
    BY SourceAssumption DEF ClearLoot, IInv, Typed
  <2> QED BY <2>1, SafeItems DEF ClearLoot, Safe, Valid, Disbanded
<1> QED BY <1>1, <1>2 DEF IInv, Safe, Forgotten, BlockedWhileRolled

\* Only a free item can be looted, and no valid roll is for a free one.
LEMMA StoreIsSound ==
  ASSUME IInv, NEW p \in Player, NEW i \in Item, StoreLootItem(p, i)
  PROVE  IInv'
<1>1. Typed' /\ roll' \in [Item -> Roll]
  BY DEF StoreLootItem, IInv, Typed
<1>2. ASSUME NEW j \in Item PROVE Safe(j)'
  BY SafeItems DEF StoreLootItem, IInv, Typed, Safe, Valid, Disbanded
<1> QED BY <1>1, <1>2 DEF IInv, Safe, Forgotten, BlockedWhileRolled

\* A member's removal touches every roll he is in.
LEMMA RemoveMemberIsSound ==
  ASSUME IInv, NEW p \in Player, RemoveMember(p)
  PROVE  IInv'
<1>1. /\ ~Disbanded /\ roll' = [i \in Item |-> Without(roll[i], p)]
      /\ member' = member \ {p} /\ UNCHANGED <<inWorld, source, timer, item>>
  BY DEF RemoveMember, Disbanded
<1>2. ASSUME NEW i \in Item
      PROVE  /\ Sound(Without(roll[i], p)) /\ Without(roll[i], p) \in Roll
             /\ Without(roll[i], p).live = roll[i].live
             /\ ~roll[i].live => Without(roll[i], p) = roll[i]
  BY RemovalIsSound DEF IInv, Sound
<1>3. Typed' /\ roll' \in [Item -> Roll]
  BY <1>1, <1>2 DEF IInv, Typed
<1>4. ASSUME NEW i \in Item PROVE Safe(i)'
  BY <1>1, <1>2, SafeItems DEF Safe, Valid
<1> QED BY <1>3, <1>4 DEF IInv, Safe, Forgotten, BlockedWhileRolled

\* A group that disbands has no valid roll.
LEMMA DisbandKeepsInvariant ==
  ASSUME IInv, Disband
  PROVE  IInv'
<1>1. /\ member' = {} /\ roll' = [i \in Item |-> [roll[i] EXCEPT !.live = FALSE]]
      /\ UNCHANGED <<inWorld, source, timer, item>>
  BY DEF Disband
<1>2. ASSUME NEW i \in Item
      PROVE  /\ Sound([roll[i] EXCEPT !.live = FALSE])
             /\ [roll[i] EXCEPT !.live = FALSE] \in Roll
             /\ [roll[i] EXCEPT !.live = FALSE].live = FALSE
  BY DisbandIsSound DEF IInv, Sound
<1>3. Typed' /\ roll' \in [Item -> Roll]
  BY <1>1, <1>2 DEF IInv, Typed
<1>4. ASSUME NEW i \in Item PROVE Safe(i)'
  BY <1>1, <1>2 DEF Safe, Valid, Disbanded
<1> QED BY <1>3, <1>4 DEF IInv, Safe, Forgotten, BlockedWhileRolled

\* Who joins, goes out of the world or comes back touches no roll.
LEMMA PresenceIsSound ==
  ASSUME IInv, NEW p \in Player, AddMember(p) \/ LeaveWorld(p) \/ EnterWorld(p)
  PROVE  IInv'
<1>1. UNCHANGED <<source, timer, item, roll>> /\ (Disbanded => Disbanded')
  BY DEF AddMember, LeaveWorld, EnterWorld, Disbanded
<1>2. Typed'
  BY <1>1 DEF AddMember, LeaveWorld, EnterWorld, IInv, Typed
<1> QED BY <1>1, <1>2 DEF IInv, BlockedWhileRolled, Valid

\* The strengthened invariant holds in every state.
THEOREM InvariantHolds == Spec => []IInv
<1>1. Init => IInv
  BY InitIsSound
<1>2. ASSUME IInv, [Next]_vars PROVE IInv'
  <2>1. CASE UNCHANGED vars
    BY <1>2, <2>1 DEF vars, IInv, Typed, BlockedWhileRolled, Valid, Disbanded
  <2>2. CASE Next
    BY <1>2, <2>2, SendLootIsSound, VoteIsSound, ExpireIsSound, ClearLootIsSound,
       StoreIsSound, RemoveMemberIsSound, DisbandKeepsInvariant, PresenceIsSound DEF Next
  <2> QED BY <1>2, <2>1, <2>2
<1> QED BY <1>1, <1>2, PTL DEF Spec

-----------------------------------------------------------------------------
(* What follows from it.                                                   *)

\* Every variable keeps its type: no total, a uint8 in the code, drops below
\* zero however members answer and leave.
THEOREM TypeCorrect == Spec => []TypeOK
<1>1. IInv => TypeOK
  BY DEF IInv, Typed, TypeOK
<1> QED BY <1>1, InvariantHolds, PTL

\* The totals kept by hand count every vote, and nothing else unless somebody
\* answered again.
THEOREM TotalsAreRight == Spec => []TotalsMatchVotes
<1>1. IInv => TotalsMatchVotes
  BY DEF IInv, Sound, Totals, TotalsMatchVotes
<1> QED BY <1>1, InvariantHolds, PTL

\* An item is blocked while it is rolled for, and afterwards only for an
\* absent winner, a disbanded group or an answer that was counted, replaced by
\* its player and given by nobody else.
THEOREM ItemsAreBlocked == Spec => []BlockedWhileRolled
<1>1. IInv => BlockedWhileRolled
  BY DEF IInv
<1> QED BY <1>1, InvariantHolds, PTL

\* Nobody's need loses, and unless somebody answered again only the best
\* answer wins.
THEOREM BestVoteWins == Spec => []AwardsGoToTheBestVote
<1>1. IInv => AwardsGoToTheBestVote
  BY DEF IInv, Sound, Deserved, Needed, AwardsGoToTheBestVote
<1> QED BY <1>1, InvariantHolds, PTL
=============================================================================
