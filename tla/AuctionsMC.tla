----------------------------- MODULE AuctionsMC -----------------------------
(***************************************************************************)
(* A seller who is as rich as can be, two bidders, an item, a few coins.    *)
(***************************************************************************)
EXTENDS Auctions

CONSTANTS anna, bert, cleo, sword

MCPurse == (anna :> 3) @@ (bert :> 3) @@ (cleo :> 1)
MCOwned == (anna :> {sword}) @@ (bert :> {}) @@ (cleo :> {})
MCOffer == {[startbid |-> 1, buyout |-> 2], [startbid |-> 1, buyout |-> 0]}
=============================================================================
