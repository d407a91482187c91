------------------------------ MODULE Auctions ------------------------------
(***************************************************************************)
(* The auction house and the mail it pays with: selling, bidding, buying   *)
(* out, cancelling and the expiry of auctions (AuctionHouseHandler.cpp,    *)
(* AuctionHouseMgr.cpp), and the taking of gold and items from mail        *)
(* (MailHandler.cpp), on top of a database that is written behind: every   *)
(* handler changes the memory at once and queues one transaction, a worker *)
(* executes them in order, reads see only what was executed, and whatever  *)
(* is queued when the server stops is lost (WriteLog, DatabasePool).       *)
(*                                                                         *)
(* One auction house; the auction of an item stands for its id.  A player  *)
(* has one character, whose mailbox has been opened since the login.       *)
(***************************************************************************)
EXTENDS Naturals, FiniteSetsExt, SequencesExt, TLC

CONSTANTS
  Player, Item,
  Purse,        \* the gold of each player at the start
  MaxMoney,     \* MAX_MONEY_AMOUNT, the most gold a player can have
  Owned,        \* the items of each player at the start
  Offer,        \* the auctions that are made: records [startbid, buyout]
  Price,        \* the bids that are made
  Deposit,      \* GetAuctionDeposit, at least AH_MINIMUM_DEPOSIT
  CutPercent,   \* the house's cut of a sale
  LogTrade,     \* CONFIG_GM_LOG_TRADE
  MaxPending,   \* bound: transactions the players queue
  MaxStops,     \* bound: stops of the server
  NoPlayer, NoAuction

ASSUME AuctionAssumption ==
  /\ IsFiniteSet(Player) /\ NoPlayer \notin Player /\ IsFiniteSet(Item)
  /\ Purse \in [Player -> Nat] /\ MaxMoney \in Nat
  /\ \A p \in Player : Purse[p] <= MaxMoney
  /\ Owned \in [Player -> SUBSET Item]
  /\ \A i \in Item : \E p \in Player :
       i \in Owned[p] /\ \A q \in Player \ {p} : i \notin Owned[q]
  /\ Offer \subseteq [startbid : Nat \ {0}, buyout : Nat]
  /\ Price \subseteq Nat \ {0} /\ Deposit \in Nat /\ CutPercent \in 0..100
  /\ LogTrade \in BOOLEAN /\ MaxPending \in Nat /\ MaxStops \in Nat

VARIABLES
  mem,      \* what the server holds in memory
  db,       \* what the database has executed
  pending,  \* the transactions in the queue of the asynchronous connection
  aitems,   \* mAitems: items whose auction the manager believes in
  due,      \* items whose auction's time is up
  phase,    \* "up", or what the start does next: "settle", "items", "auctions"
  stops,    \* how often the server has stopped
  lapsed,   \* history: items whose auction ran out while the server was down
  revived   \* history: those whose auction the start settled and then loaded

vars == <<mem, db, pending, aitems, due, phase, stops, lapsed, revived>>

Auction == [owner : Player, bidder : Player \cup {NoPlayer}, bid : Nat,
            startbid : Nat, buyout : Nat]

ASSUME RowAssumption == NoAuction \notin Auction

\* The gold and items of players, of their mail, and of auctions; and the gold
\* that has left the game, which nobody stores: what the house has taken and
\* what a player could not hold.
Books ==
  [gold : [Player -> Nat], bag : [Player -> SUBSET Item],
   mail : [Player -> Nat], parcel : [Player -> SUBSET Item],
   row  : [Item -> Auction \cup {NoAuction}],
   sunk : Nat]

Open(b) == {i \in Item : b.row[i] # NoAuction}

Init ==
  /\ mem = [gold |-> Purse, bag |-> Owned, mail |-> [p \in Player |-> 0],
            parcel |-> [p \in Player |-> {}],
            row |-> [i \in Item |-> NoAuction], sunk |-> 0]
  /\ db = mem
  /\ pending = <<>>
  /\ aitems = {} /\ due = {}
  /\ phase = "up" /\ stops = 0
  /\ lapsed = {} /\ revived = {}

-----------------------------------------------------------------------------
(* Mail and transactions.                                                  *)

GoldTo(mails, p)  ==
  SumFunctionOnSet([m \in mails |-> m.gold], {m \in mails : m.to = p})
ItemsTo(mails, p) == UNION {m.items : m \in {n \in mails : n.to = p}}

\* MailDraft::SendMailTo.
Posted(b, mails) ==
  [b EXCEPT !.mail   = [p \in Player |-> @[p] + GoldTo(mails, p)],
            !.parcel = [p \in Player |-> @[p] \cup ItemsTo(mails, p)]]

\* The writes of one handler: the gold and inventory of its player (NoPlayer
\* for the auction house), what he takes from his mail, mails, auctions.
Transaction(p, gold, bag, mails, rows, sunk) ==
  [by |-> p, gold |-> gold, bag |-> bag, took |-> [gold |-> 0, items |-> {}],
   mails |-> mails, rows |-> rows, sunk |-> sunk]

\* One row is written, or deleted (NoAuction).
Row(i, a) == [j \in {i} |-> a]

Saved(b, t) ==
  IF t.by = NoPlayer THEN b
  ELSE [b EXCEPT !.gold[t.by] = t.gold, !.bag[t.by] = t.bag,
                 !.mail[t.by] = @ - t.took.gold, !.parcel[t.by] = @ \ t.took.items]

Filed(b, t) ==
  [b EXCEPT !.row = [i \in Item |-> IF i \in DOMAIN t.rows THEN t.rows[i] ELSE @[i]],
            !.sunk = @ + t.sunk]

Apply(b, t) == Filed(Posted(Saved(b, t), t.mails), t)

\* A handler changes the memory and commits its transaction to the queue.
Commit(t) ==
  /\ mem' = Apply(mem, t)
  /\ pending' = Append(pending, t)
  /\ UNCHANGED <<db, phase, stops, lapsed, revived>>

GoldMail(p, gold, i) == [to |-> p, gold |-> gold, items |-> {}, about |-> i]
ItemMail(p, i)       == [to |-> p, gold |-> 0, items |-> {i}, about |-> i]

-----------------------------------------------------------------------------
(* Prices.                                                                 *)

GetAuctionCut(a)    == (a.bid * CutPercent) \div 100
GetAuctionOutBid(a) == LET outbid == (a.bid * 5) \div 100
                       IN  IF outbid = 0 THEN 1 ELSE outbid
Profit(a)           == (a.bid + Deposit) - GetAuctionCut(a)

\* The gold the bidder gets back, if there is one who is not p.
Refund(a, p, i) ==
  IF a.bidder \in {NoPlayer, p} THEN {} ELSE {GoldMail(a.bidder, a.bid, i)}

\* What a new price costs p, who has perhaps paid the current bid already.
\* Mutant: he pays that on top.
CostOnTop(a, p, price) == IF a.bidder = p THEN price + a.bid ELSE price
Cost(a, p, price) == IF a.bidder = p THEN price - a.bid ELSE price

IsBuyout(a, price) == a.buyout # 0 /\ price >= a.buyout

Acceptable(a, price) ==
  /\ price > a.bid /\ price >= a.startbid
  /\ IsBuyout(a, price) \/ price >= a.bid + GetAuctionOutBid(a)

\* SendAuctionWonMail: nothing without the item in mAitems; a winner who is
\* not online is looked up only for the log of game masters' trades.
WonMail(a, i, online) ==
  IF i \in aitems /\ (a.bidder \in online \/ LogTrade)
  THEN {ItemMail(a.bidder, i)} ELSE {}

\* SendAuctionSuccessfulMail and SendAuctionWonMail, or SendAuctionExpiredMail.
SettlementMails(a, i, online) ==
  IF a.bidder # NoPlayer
  THEN {GoldMail(a.owner, Profit(a), i)} \cup WonMail(a, i, online)
  ELSE IF i \in aitems THEN {ItemMail(a.owner, i)} ELSE {}

SettlementTakings(a) == IF a.bidder = NoPlayer THEN Deposit ELSE GetAuctionCut(a)

-----------------------------------------------------------------------------
(* Handlers, in the world thread.                                          *)

Handles == phase = "up" /\ Len(pending) < MaxPending

HandleAuctionSellItem(p, i, offer) ==
  /\ Handles
  /\ i \in mem.bag[p] /\ i \notin aitems
  /\ mem.gold[p] >= Deposit
  /\ Commit(Transaction(p, mem.gold[p] - Deposit, mem.bag[p] \ {i}, {},
              Row(i, [owner |-> p, bidder |-> NoPlayer, bid |-> 0,
                      startbid |-> offer.startbid, buyout |-> offer.buyout]), 0))
  /\ aitems' = aitems \cup {i}
  /\ due' = due \ {i}

\* A bid below the buyout.
Bid(p, i, price) ==
  LET a == mem.row[i] IN
  /\ ~IsBuyout(a, price)
  /\ Commit(Transaction(p, mem.gold[p] - Cost(a, p, price), mem.bag[p],
              Refund(a, p, i), Row(i, [a EXCEPT !.bidder = p, !.bid = price]), 0))
  /\ UNCHANGED aitems

Buyout(p, i, price) ==
  LET a == mem.row[i]
      b == [a EXCEPT !.bidder = p, !.bid = a.buyout]
  IN
  /\ IsBuyout(a, price)
  /\ Commit(Transaction(p, mem.gold[p] - Cost(a, p, a.buyout), mem.bag[p],
              Refund(a, p, i) \cup SettlementMails(b, i, {p}),
              Row(i, NoAuction), GetAuctionCut(b)))
  /\ aitems' = aitems \ {i}

HandleAuctionPlaceBid(p, i, price) ==
  /\ Handles
  /\ mem.row[i] # NoAuction /\ mem.row[i].owner # p
  /\ Acceptable(mem.row[i], price)
  /\ mem.gold[p] >= price
  /\ Bid(p, i, price) \/ Buyout(p, i, price)
  /\ UNCHANGED due

\* The owner cancels; if there is a bidder he pays the cut himself.
HandleAuctionRemoveItem(p, i) ==
  LET a   == mem.row[i]
      cut == IF a.bidder = NoPlayer THEN 0 ELSE GetAuctionCut(a)
  IN
  /\ Handles
  /\ a # NoAuction /\ a.owner = p /\ i \in aitems
  /\ mem.gold[p] >= cut
  /\ Commit(Transaction(p, mem.gold[p] - cut, mem.bag[p],
              Refund(a, NoPlayer, i) \cup {ItemMail(p, i)},
              Row(i, NoAuction), cut + Deposit))
  /\ aitems' = aitems \ {i}
  /\ UNCHANGED due

\* ModifyMoney: a player has MaxMoney at most; what is above it is lost.
ModifyMoney(gold, d) == IF gold + d < MaxMoney THEN gold + d ELSE MaxMoney
Excess(gold, d)      == (gold + d) - ModifyMoney(gold, d)

\* A player takes the gold of his mail, all of it whatever he can hold.
HandleMailTakeMoney(p) ==
  LET gold == mem.gold[p]
      d    == mem.mail[p]
  IN
  /\ Handles
  /\ d > 0
  /\ Commit([Transaction(p, ModifyMoney(gold, d), mem.bag[p], {}, <<>>, Excess(gold, d))
               EXCEPT !.took.gold = d])
  /\ UNCHANGED <<aitems, due>>

HandleMailTakeItem(p, i) ==
  /\ Handles
  /\ i \in mem.parcel[p]
  /\ Commit([Transaction(p, mem.gold[p], mem.bag[p] \cup {i}, {}, <<>>, 0)
               EXCEPT !.took.items = {i}])
  /\ UNCHANGED <<aitems, due>>

-----------------------------------------------------------------------------
(* Expiry.                                                                 *)

\* The time of an auction is up.
Elapse(i) ==
  /\ i \notin due /\ i \in Open(mem) \cup Open(db)
  /\ due' = due \cup {i}
  /\ UNCHANGED <<mem, db, pending, aitems, phase, stops, lapsed, revived>>

\* The auction house settles auction i.
Settlement(i, a, online) ==
  Transaction(NoPlayer, 0, {}, SettlementMails(a, i, online),
              Row(i, NoAuction), SettlementTakings(a))

\* AuctionHouseObject::Update settles the auctions the database lists as over
\* and the memory still knows, each in a transaction.  It takes the item of
\* each out of mAitems by a field of the entry it has just freed, so that some,
\* those in kept, stay.  Mutant: only those nobody has bid on.
ExpiredUnsold == {i \in due \cap Open(db) \cap Open(mem) : mem.row[i].bidder = NoPlayer}
Expired == due \cap Open(db) \cap Open(mem)

Update ==
  /\ phase = "up"
  /\ Expired # {}
  /\ \E online \in SUBSET Player, kept \in SUBSET Expired :
       LET ts == [n \in 1..Cardinality(Expired) |->
                    LET i == SetToSeq(Expired)[n] IN Settlement(i, mem.row[i], online)]
       IN  /\ mem' = FoldLeft(Apply, mem, ts)
           /\ pending' = pending \o ts
           /\ aitems' = (aitems \ Expired) \cup kept
  /\ UNCHANGED <<db, due, phase, stops, lapsed, revived>>

-----------------------------------------------------------------------------
(* The database's worker, and stops and starts of the server.              *)

\* Mutants: the gold is left to the next periodic save; mails are lost.
ExecuteGoldLater(t) == [Apply(db, t) EXCEPT !.gold = db.gold]
ExecuteNoMail(t)    == Apply(db, [t EXCEPT !.mails = {}])
Execute(t)          == Apply(db, t)

Work ==
  /\ pending # <<>>
  /\ db' = Execute(Head(pending))
  /\ pending' = Tail(pending)
  /\ UNCHANGED <<mem, aitems, due, phase, stops, lapsed, revived>>

NoAuctions == [i \in Item |-> NoAuction]

\* The server crashes, or shuts down: Close of the database pool drops what is
\* queued too.  From now on mem is what players will find after the start.
Stop ==
  /\ stops < MaxStops
  /\ stops' = stops + 1
  /\ phase' = "settle"
  /\ pending' = <<>>
  /\ mem' = [db EXCEPT !.row = NoAuctions]
  /\ aitems' = {}
  /\ UNCHANGED <<db, due, lapsed, revived>>

\* DeleteExpiredAuctionsAtStartup runs before LoadAuctionItems has filled
\* mAitems, so that only the mails without an item are sent.
DeleteExpiredAuctionsAtStartup ==
  /\ phase = "settle"
  /\ phase' = "items"
  /\ LET over == due \cap Open(db)
         ts == [n \in 1..Cardinality(over) |->
                  LET i == SetToSeq(over)[n] IN Settlement(i, db.row[i], {})]
     IN  /\ mem' = FoldLeft(Apply, mem, ts)
         /\ pending' = ts
         /\ lapsed' = lapsed \cup over
  /\ UNCHANGED <<db, aitems, due, stops, revived>>

LoadAuctionItems ==
  /\ phase = "items"
  /\ phase' = "auctions"
  /\ aitems' = Open(db)
  /\ UNCHANGED <<mem, db, pending, due, stops, lapsed, revived>>

\* The rows are read as executed: one whose deletion is still queued is loaded.
LoadAuctions ==
  /\ phase = "auctions"
  /\ phase' = "up"
  /\ mem' = [mem EXCEPT !.row = db.row]
  /\ revived' = revived \cup {i \in Open(db) :
                                \E n \in DOMAIN pending : i \in DOMAIN pending[n].rows}
  /\ UNCHANGED <<db, pending, aitems, due, stops, lapsed>>

Next ==
  \/ \E p \in Player, i \in Item, o \in Offer : HandleAuctionSellItem(p, i, o)
  \/ \E p \in Player, i \in Item, n \in Price : HandleAuctionPlaceBid(p, i, n)
  \/ \E p \in Player, i \in Item : HandleAuctionRemoveItem(p, i)
  \/ \E p \in Player : HandleMailTakeMoney(p)
  \/ \E p \in Player, i \in Item : HandleMailTakeItem(p, i)
  \/ \E i \in Item : Elapse(i)
  \/ Update \/ Work
  \/ Stop \/ DeleteExpiredAuctionsAtStartup \/ LoadAuctionItems \/ LoadAuctions

Spec == Init /\ [][Next]_vars

\* The world thread calls Update every tick, the worker takes what is queued.
FairSpec == Spec /\ WF_vars(Update) /\ WF_vars(Work)
-----------------------------------------------------------------------------
(* Properties.                                                             *)

TypeOK ==
  /\ mem \in Books /\ db \in Books
  /\ aitems \subseteq Item /\ due \subseteq Item
  /\ lapsed \subseteq Item /\ revived \subseteq Item
  /\ phase \in {"up", "settle", "items", "auctions"} /\ stops \in 0..MaxStops

\* Whenever the server stops, what the database has executed accounts for
\* every item once: in a bag, in the mail or in an auction.  Only the items of
\* auctions that ran out while the server was down are gone.  So it is with
\* LogTrade on; with it off a winner who is not online gets nothing.
Places(b, i) ==
  {<<"bag", p>> : p \in {q \in Player : i \in b.bag[q]}}
  \cup {<<"mail", p>> : p \in {q \in Player : i \in b.parcel[q]}}
  \cup (IF i \in Open(b) THEN {<<"auction", b.row[i].owner>>} ELSE {})
ItemsAreInOnePlace ==
  \A i \in Item \ lapsed : Cardinality(Places(db, i)) = 1

\* And for every coin: with the players, in the mail, in auctions (the highest
\* bids and the deposits), taken by the house or above what a player can hold
\* when he takes it from his mail; nothing is paid twice and no refund is
\* forgotten, unless the start settles an auction and loads it too.
Held(a) == IF a = NoAuction THEN 0 ELSE a.bid + Deposit
Gold(b) == SumFunction(b.gold) + SumFunction(b.mail) + b.sunk
           + SumFunction([i \in Item |-> Held(b.row[i])])
GoldIsConserved == revived = {} => Gold(db) = SumFunction(Purse)

\* An auction whose time is up is settled, unless the server stops first or
\* the start has settled it and loaded it too: then the database may no longer
\* list it and it stays open for ever.
ExpiredAuctionsEnd ==
  \A i \in Item :
    (i \in due \cap Open(mem) /\ i \notin revived /\ phase = "up")
      ~> (i \notin Open(mem) \/ phase # "up")
=============================================================================
