----------------------------- MODULE LootRolls -----------------------------
(***************************************************************************)
(* The rolls of a group for the loot of corpses and chests: how they start *)
(* (Player::SendLoot, Group::GroupLoot, Group::NeedBeforeGreed), what the  *)
(* members answer (Group::CountRollVote), how a roll ends (CountTheRoll,   *)
(* EndRoll and the timers of Creature and GameObject), and what members    *)
(* who leave, log out or come back and a group that disbands do to a roll. *)
(* Groups/Group.cpp, Groups/Group.h.                                       *)
(*                                                                         *)
(* One group, items above its loot threshold.  Handlers run in the world   *)
(* thread and timers in map threads, never at the same time (MapUpdater),  *)
(* so each is one step.  The server does not check that a player answers   *)
(* once: a second answer replaces his vote and is counted beside the first.*)
(***************************************************************************)
EXTENDS Naturals, FiniteSets

CONSTANTS
  Player,     \* characters who are or may become members
  Founder,    \* the members at the start
  Source,     \* corpses and chests with loot
  Chest,      \* those that are game objects
  Item,       \* loot items above the threshold
  SourceOf,   \* the corpse or chest of an item
  MaxOpened,  \* bound: sources the group opens
  NoPlayer    \* not a player

ASSUME PlayerAssumption ==
  /\ IsFiniteSet(Player) /\ NoPlayer \notin Player
  /\ Founder \subseteq Player /\ Cardinality(Founder) > 1
ASSUME SourceAssumption ==
  Chest \subseteq Source /\ SourceOf \in [Item -> Source]

VARIABLES
  member,    \* m_memberSlots; empty once the group has disbanded
  inWorld,   \* players the object accessor finds in the world
  source,    \* lootForBody or the loot state: "shut", "open", "gone" (cleared)
  timer,     \* m_groupLootTimer of a source is set
  item,      \* LootItem: "free", "blocked" (is_blocked) or "looted" (is_looted)
  roll       \* the last roll for an item

vars == <<member, inWorld, source, timer, item, roll>>

Method == {"group", "need before greed"}
Greedy == {"greed", "disenchant"}
Answer == {"pass", "need"} \cup Greedy
Vote   == Answer \cup {"not yet"}

\* A roll; an ended one, which the code frees, keeps its votes here.
Roll ==
  [live    : BOOLEAN,                                \* in RollId
   vote    : UNION {[V -> Vote] : V \in SUBSET Player},  \* playerVote
   need    : Nat, greed : Nat, pass : Nat,           \* totalNeed, ...
   rolling : Nat,                                    \* totalPlayersRolling
   won     : Player \cup {NoPlayer},                 \* announced as the winner
   absent  : BOOLEAN,   \* history: the winner was not in the world
   again   : BOOLEAN]   \* history: a player answered who had a vote already

NoRoll == [live |-> FALSE, vote |-> [p \in {} |-> "pass"],
           need |-> 0, greed |-> 0, pass |-> 0, rolling |-> 0, won |-> NoPlayer,
           absent |-> FALSE, again |-> FALSE]

Init ==
  /\ member = Founder
  /\ inWorld = Player
  /\ source = [s \in Source |-> "shut"]
  /\ timer = [s \in Source |-> FALSE]
  /\ item = [i \in Item |-> "free"]
  /\ roll = [i \in Item |-> NoRoll]

Disbanded == member = {}
\* A roll is valid while its loot is neither cleared nor destroyed.
Valid(i) == roll[i].live /\ source[SourceOf[i]] # "gone"

-----------------------------------------------------------------------------
(* The end of a roll.                                                      *)

\* The best answer wins; a random number, at least 1, breaks ties.
\* Mutant: whoever did not pass may win.
AheadAnyRoller(r) == {p \in DOMAIN r.vote : r.vote[p] \in {"need"} \cup Greedy}
Ahead(r) ==
  {p \in DOMAIN r.vote :
     IF r.need > 0 THEN r.vote[p] = "need" ELSE r.vote[p] \in Greedy}

\* If nobody gave the answer that was counted, the first voter wins.
Candidates(r) == IF Ahead(r) = {} THEN DOMAIN r.vote ELSE Ahead(r)

\* What becomes of the item p has won: nothing at all if p is not in the
\* world, or if greed was counted and nobody's vote is greed (rollvote is
\* NOT_VALID); without room in p's bags the item can be looted by anyone.
\* Mutant: without room it stays blocked.
Unclaimed(r, p) == p \notin inWorld \/ (r.need = 0 /\ Ahead(r) = {})
AwardWithoutRoom(r, p) ==
  IF Unclaimed(r, p) THEN {"blocked"}
  ELSE IF r.need = 0 /\ r.vote[p] = "disenchant" THEN {"looted"}
  ELSE {"looted", "blocked"}
Award(r, p) ==
  IF Unclaimed(r, p) THEN {"blocked"}
  ELSE IF r.need = 0 /\ r.vote[p] = "disenchant" THEN {"looted"}
  ELSE {"looted", "free"}

\* The ways CountTheRoll may end roll r.
Results(r) ==
  IF r.need = 0 /\ r.greed = 0 THEN {[item |-> "free", won |-> NoPlayer]}
  ELSE IF DOMAIN r.vote = {} THEN {[item |-> "blocked", won |-> NoPlayer]}
  ELSE UNION {[item : Award(r, p), won : {p}] : p \in Candidates(r)}

Ended(r, result) ==
  [r EXCEPT !.live = FALSE, !.won = result.won,
            !.absent = result.won \in Player \ inWorld]

-----------------------------------------------------------------------------
(* The start: SendLoot rolls for a source once, when it is first opened.   *)

\* A roll among the players V of whom those in P pass on every loot.
Started(V, P) ==
  [live |-> V # {}, vote |-> [p \in V |-> IF p \in P THEN "pass" ELSE "not yet"],
   need |-> 0, greed |-> 0, pass |-> Cardinality(P),
   rolling |-> Cardinality(V), won |-> NoPlayer, absent |-> FALSE, again |-> FALSE]

\* The near members in the world who may have an item, and who auto-pass.
Electorate == {e \in (SUBSET Player) \X (SUBSET Player) :
                 e[1] \subseteq member \cap inWorld /\ e[2] \subseteq e[1]}

\* GroupLoot sets the timer of both kinds, NeedBeforeGreed only a corpse's.
\* Mutant: the latter sets none.
SetsTimerInGroupLoot(s, method) == method = "group"
SetsTimer(s, method) == method = "group" \/ s \notin Chest

SendLoot(s, method) ==
  /\ source[s] = "shut"
  /\ Cardinality({t \in Source : source[t] # "shut"}) < MaxOpened
  /\ member \cap inWorld # {}
  /\ \E e \in [{i \in Item : SourceOf[i] = s} -> Electorate] :
       LET rolled == {i \in DOMAIN e : e[i][1] # {}} IN
       /\ source' = [source EXCEPT ![s] = "open"]
       /\ roll' = [i \in Item |->
                     IF i \in rolled THEN Started(e[i][1], e[i][2]) ELSE roll[i]]
       /\ item' = [i \in Item |-> IF i \in rolled THEN "blocked" ELSE item[i]]
       /\ timer' = [timer EXCEPT ![s] = rolled # {} /\ SetsTimer(s, method)]
  /\ UNCHANGED <<member, inWorld>>

-----------------------------------------------------------------------------
(* Answers.                                                                *)

Counted(r, p, answer) ==
  LET n(S) == IF answer \in S THEN 1 ELSE 0
  IN  [r EXCEPT !.vote[p] = answer, !.need = @ + n({"need"}),
                !.greed = @ + n(Greedy), !.pass = @ + n({"pass"}),
                !.again = @ \/ r.vote[p] # "not yet"]

Decided(r) == r.pass + r.need + r.greed >= r.rolling

\* HandleLootRoll, for a player of the roll, whether he has answered or not.
CountRollVote(p, i, answer) ==
  /\ p \in member \cap inWorld
  /\ Valid(i) /\ p \in DOMAIN roll[i].vote
  /\ LET r == Counted(roll[i], p, answer) IN
       IF Decided(r)
       THEN \E result \in Results(r) :
              /\ roll' = [roll EXCEPT ![i] = Ended(r, result)]
              /\ item' = [item EXCEPT ![i] = result.item]
       ELSE roll' = [roll EXCEPT ![i] = r] /\ UNCHANGED item
  /\ UNCHANGED <<member, inWorld, source, timer>>

\* The timer of a source runs out: EndRoll, if the group still exists.
Expire(s) ==
  /\ source[s] = "open" /\ timer[s]
  /\ timer' = [timer EXCEPT ![s] = FALSE]
  /\ LET over == {i \in Item : SourceOf[i] = s /\ roll[i].live /\ ~Disbanded} IN
       \E result \in [over -> UNION {Results(roll[i]) : i \in over}] :
         /\ \A i \in over : result[i] \in Results(roll[i])
         /\ roll' = [i \in Item |->
                       IF i \in over THEN Ended(roll[i], result[i]) ELSE roll[i]]
         /\ item' = [i \in Item |->
                       IF i \in over THEN result[i].item ELSE item[i]]
  /\ UNCHANGED <<member, inWorld, source>>

\* StoreLootItem: p takes an item from the loot window.
StoreLootItem(p, i) ==
  /\ p \in inWorld
  /\ source[SourceOf[i]] = "open" /\ item[i] = "free"
  /\ item' = [item EXCEPT ![i] = "looted"]
  /\ UNCHANGED <<member, inWorld, source, timer, roll>>

\* A corpse decays or is unloaded with its map, a chest despawns.  The loot's
\* validator unlinks its rolls, which stay in RollId and are never found again.
ClearLoot(s) ==
  /\ source[s] = "open"
  /\ source' = [source EXCEPT ![s] = "gone"]
  /\ timer' = [timer EXCEPT ![s] = FALSE]
  /\ UNCHANGED <<member, inWorld, item, roll>>

-----------------------------------------------------------------------------
(* Members.                                                                *)

\* RemoveMember takes p out of a roll.  It then calls CountRollVote, which
\* finds no vote of p and returns, even if everyone left has answered.
\* Mutants: a vote not given counts as a pass; the totals stay.
WithoutTheSilent(r, p) ==
  IF ~r.live \/ p \notin DOMAIN r.vote THEN r
  ELSE [r EXCEPT !.vote = [q \in DOMAIN r.vote \ {p} |-> r.vote[q]],
                 !.pass = @ - 1, !.rolling = @ - 1]
WithoutVoteOnly(r, p) ==
  [r EXCEPT !.vote = [q \in DOMAIN r.vote \ {p} |-> r.vote[q]]]
Without(r, p) ==
  IF ~r.live \/ p \notin DOMAIN r.vote THEN r
  ELSE LET n(S) == IF r.vote[p] \in S THEN 1 ELSE 0
       IN  [r EXCEPT !.vote = [q \in DOMAIN r.vote \ {p} |-> r.vote[q]],
                     !.need = @ - n({"need"}), !.greed = @ - n(Greedy),
                     !.pass = @ - n({"pass"}), !.rolling = @ - 1]

\* p leaves or is kicked, or logs out of a party.
RemoveMember(p) ==
  /\ p \in member
  /\ Cardinality(member) > 2
  /\ member' = member \ {p}
  /\ roll' = [i \in Item |-> Without(roll[i], p)]
  /\ UNCHANGED <<inWorld, source, timer, item>>

\* A member leaves a group of two: the group and the list of its rolls go,
\* the items they blocked stay blocked.
Disband ==
  /\ ~Disbanded /\ Cardinality(member) <= 2
  /\ member' = {}
  /\ roll' = [i \in Item |-> [roll[i] EXCEPT !.live = FALSE]]
  /\ UNCHANGED <<inWorld, source, timer, item>>

AddMember(p) ==
  /\ ~Disbanded /\ p \in inWorld \ member
  /\ member' = member \cup {p}
  /\ UNCHANGED <<inWorld, source, timer, item, roll>>

\* A player goes out of the world (a lost connection, a far teleport), a
\* member still, and comes back.
LeaveWorld(p) ==
  /\ p \in inWorld
  /\ inWorld' = inWorld \ {p}
  /\ UNCHANGED <<member, source, timer, item, roll>>

EnterWorld(p) ==
  /\ p \in Player \ inWorld
  /\ inWorld' = inWorld \cup {p}
  /\ UNCHANGED <<member, source, timer, item, roll>>

Next ==
  \/ \E s \in Source, m \in Method : SendLoot(s, m)
  \/ \E p \in Player, i \in Item, a \in Answer : CountRollVote(p, i, a)
  \/ \E s \in Source : Expire(s)
  \/ \E s \in Source : ClearLoot(s)
  \/ \E p \in Player, i \in Item : StoreLootItem(p, i)
  \/ \E p \in Player : RemoveMember(p) \/ AddMember(p)
  \/ \E p \in Player : LeaveWorld(p) \/ EnterWorld(p)
  \/ Disband

Spec == Init /\ [][Next]_vars

\* Maps update the corpses and chests players are near to, so a timer that
\* runs does run out.
FairSpec == Spec /\ \A s \in Source : WF_vars(Expire(s))
-----------------------------------------------------------------------------
(* Properties.                                                             *)

\* Every variable keeps its type; a total never drops below zero (uint8).
TypeOK ==
  /\ member \subseteq Player
  /\ inWorld \subseteq Player
  /\ source \in [Source -> {"shut", "open", "gone"}]
  /\ timer \in [Source -> BOOLEAN]
  /\ item \in [Item -> {"free", "blocked", "looted"}]
  /\ roll \in [Item -> Roll]

With(r, S) == Cardinality({p \in DOMAIN r.vote : r.vote[p] \in S})

\* The four totals of a roll, which decide when it ends and what wins, count
\* the votes of the players still in it, however they joined, answered and
\* left: CountRollVote, GroupLoot and RemoveMember each keep them by hand.
\* They count every vote, and unless somebody answered again nothing else.
TotalsMatchVotes ==
  \A i \in Item : roll[i].live =>
    LET r == roll[i] IN
    /\ r.rolling = With(r, Vote)
    /\ r.need >= With(r, {"need"}) /\ r.greed >= With(r, Greedy)
    /\ r.pass >= With(r, {"pass"})
    /\ ~r.again => /\ r.need = With(r, {"need"}) /\ r.greed = With(r, Greedy)
                   /\ r.pass = With(r, {"pass"})

\* An item is out of everyone's reach while it is rolled for, so it is not
\* handed out twice; afterwards it is only where the code forgets to unblock
\* it: the winner was not in the world, the group has disbanded, or an answer
\* was counted that its player has replaced and nobody else gave.
BlockedWhileRolled ==
  \A i \in Item :
    /\ Valid(i) => item[i] = "blocked"
    /\ item[i] = "blocked" =>
         \/ roll[i].live \/ roll[i].absent \/ Disbanded
         \/ roll[i].again /\ Ahead(roll[i]) = {}

\* The winner of a roll takes part in it, and nobody's need loses to greed or
\* a pass.  Unless somebody answered again, he answered need if anyone did, and
\* otherwise greed or disenchant: who passed or did not answer does not win.
AwardsGoToTheBestVote ==
  \A i \in Item : roll[i].won # NoPlayer =>
    LET votes  == roll[i].vote
        winner == roll[i].won
        needed == \E p \in DOMAIN votes : votes[p] = "need" IN
    /\ winner \in DOMAIN votes
    /\ needed => votes[winner] = "need"
    /\ roll[i].again \/ needed \/ votes[winner] \in Greedy

\* Whoever leaves, logs out or does not answer, the roll for an item ends:
\* but the timer of a chest is not set for need before greed, where a roll
\* waits for ever for those who do not answer.
Timed(i) == Valid(i) /\ timer[SourceOf[i]]
RollsEnd ==
  \A i \in Item :
    /\ [](Valid(i) /\ SourceOf[i] \notin Chest => Timed(i))
    /\ Timed(i) ~> ~Valid(i)
=============================================================================
