------------------------------ MODULE MarketPage ------------------------------
(***************************************************************************)
(* The marketplace page (market/MarketPage.tsx) with its two read hooks    *)
(* (useListings, useOwnedTokens) and its kiosk transactions.  Every read   *)
(* goes to a GraphQL index that follows the chain at its own pace; a       *)
(* fullnode answers at once.  An answer is computed when the index serves  *)
(* the read and arrives later.                                             *)
(*                                                                         *)
(* A kiosk is named by the wallet that owns it.  Prices are in units of    *)
(* the royalty's floor, 0 for a token that is not listed.                  *)
(***************************************************************************)
EXTENDS Naturals, FiniteSets

CONSTANTS
  Wallets, Tokens,
  None,       \* no account, no token
  Prices,     \* prices a seller may ask
  MaxPolls,   \* reloads of one pollRefresh
  MaxMoves    \* bound: changes of the chain

MarketAssumption ==
  /\ None \notin Wallets \cup Tokens
  /\ Prices \subseteq Nat \ {0} /\ {MaxPolls, MaxMoves} \subseteq Nat

VARIABLES
  place,      \* the chain: token -> the wallet that has it, and its price
  index,      \* the GraphQL index's copy of place, and the move it is of
  moves,
  account,    \* the connected wallet
  fetches,    \* reads under way that have not been cancelled
  listings, owned,   \* the last answers, with the move each was of
  polls,      \* reloads pollRefresh has still to make; 0 when it is not running
  tx,         \* the transaction at the wallet
  phase,
  bought,     \* boughtTokenId
  readbacks,  \* fullnode reads of bought tokens under way
  confirmed   \* confirmedToken

chain == <<place, index, moves>>
reads == <<fetches, listings, owned, polls>>
buying == <<bought, readbacks, confirmed>>
vars == <<chain, account, reads, tx, phase, buying>>

Cards == [token : Tokens, price : Prices, seller : Wallets]
NoTx == [kind |-> "none"]
Txs == [kind : {"buy", "list"}, card : Cards, by : Wallets]

(* What the index holds: the cards for sale, and what a wallet has.        *)
CardsIn(p) == {[token |-> t, price |-> p[t].price, seller |-> p[t].owner] :
                 t \in {u \in Tokens : p[u].price > 0}}
TokensOf(p, w) == {t \in Tokens : p[t] = [owner |-> w, price |-> 0]}

Init ==
  /\ place \in [Tokens -> [owner : Wallets, price : {0}]]
  /\ moves = 0 /\ index = [place |-> place, at |-> 0]
  /\ account = None /\ fetches = {}
  /\ listings = [cards |-> {}, at |-> 0]
  /\ owned = [tokens |-> {}, of |-> None, at |-> 0, failed |-> FALSE]
  /\ polls = 0 /\ tx = NoTx /\ phase = "idle"
  /\ bought = None /\ readbacks = {} /\ confirmed = None

-----------------------------------------------------------------------------
(* The chain and its index.                                                *)
Move(t, owner, price) ==
  /\ moves < MaxMoves
  /\ place' = [place EXCEPT ![t] = [owner |-> owner, price |-> price]]
  /\ moves' = moves + 1 /\ UNCHANGED index

(* Somebody else lists, reprices, takes back, buys or gives away a token.  *)
Elsewhere ==
  /\ \E t \in Tokens :
       \/ \E p \in Prices \cup {0} : p # place[t].price /\ Move(t, place[t].owner, p)
       \/ \E w \in Wallets \ {place[t].owner} : Move(t, w, 0)
  /\ UNCHANGED <<account, reads, tx, phase, buying>>

IndexCatchesUp ==
  /\ index.at < moves
  /\ index' = [place |-> place, at |-> moves]
  /\ UNCHANGED <<place, moves, account, reads, tx, phase, buying>>

-----------------------------------------------------------------------------
(* A new account or reloadKey: the effects' cleanup cancels the reads of   *)
(* the last one.                                                           *)
Outlive_faulty == fetches
Outlive == {}

Reads(w) == Outlive \cup {[what |-> k, of |-> w, answer |-> None] :
                            k \in IF w = None THEN {"listings"} ELSE {"listings", "owned"}}

Reload == fetches' = Reads(account)

Connect(w) ==
  /\ w # account
  /\ account' = w /\ fetches' = Reads(w)
  /\ owned' = IF w = None THEN [owned EXCEPT !.tokens = {}] ELSE owned
  /\ UNCHANGED <<chain, listings, polls, tx, phase, buying>>

(* The index serves a read; a kiosk that cannot be read is left out.       *)
Serve(f) ==
  /\ f \in fetches /\ f.answer = None
  /\ \E down \in SUBSET Wallets :
       /\ f.what = "owned" => down = {}
       /\ fetches' = (fetches \ {f}) \cup
            {[f EXCEPT !.answer =
                [at |-> index.at,
                 got |-> IF f.what = "owned" THEN TokensOf(index.place, f.of)
                         ELSE {c \in CardsIn(index.place) : c.seller \notin down}]]}
  /\ UNCHANGED <<chain, account, listings, owned, polls, tx, phase, buying>>

(* The answer arrives; one without data is an error, and what is on the    *)
(* page stays.                                                             *)
Arrive(f) ==
  /\ f \in fetches
  /\ fetches' = fetches \ {f}
  /\ \/ /\ f.answer # None /\ f.what = "listings"
        /\ listings' = [cards |-> f.answer.got, at |-> f.answer.at]
        /\ UNCHANGED owned
     \/ /\ f.answer # None /\ f.what = "owned"
        /\ owned' = [tokens |-> f.answer.got, of |-> f.of, at |-> f.answer.at, failed |-> FALSE]
        /\ UNCHANGED listings
     \/ /\ f.answer = None
        /\ owned' = [owned EXCEPT !.failed = @ \/ f.what = "owned"]
        /\ UNCHANGED listings
  /\ UNCHANGED <<chain, account, polls, tx, phase, buying>>

(* pollRefresh: single flight, its reloads counted down.                   *)
StartPolling == polls' = IF polls > 0 THEN polls ELSE MaxPolls

PollTick ==
  /\ polls > 0 /\ polls' = polls - 1 /\ Reload
  /\ UNCHANGED <<chain, account, listings, owned, tx, phase, buying>>

-----------------------------------------------------------------------------
(* What the page shows.                                                    *)
visibleListings == {c \in listings.cards : c.token # bought}
listedIds == {c.token : c \in visibleListings}
sellable == (owned.tokens \ listedIds) \cup ({confirmed} \ {None})

(* onBuy and onList up to the wallet; a price that is not positive is      *)
(* refused on the page.                                                    *)
onBuy(c) ==
  /\ account # None /\ phase # "busy" /\ c \in visibleListings
  /\ tx' = [kind |-> "buy", card |-> c, by |-> account] /\ phase' = "busy"
  /\ UNCHANGED <<chain, account, reads, buying>>

onList(t, p) ==
  /\ account # None /\ phase # "busy" /\ t \in sellable
  /\ IF p = 0
     THEN phase' = "error" /\ UNCHANGED tx
     ELSE /\ phase' = "busy"
          /\ tx' = [kind |-> "list", card |-> [token |-> t, price |-> p, seller |-> account],
                    by |-> account]
  /\ UNCHANGED <<chain, account, reads, buying>>

(* royaltyOwedMist, and the fee the deployed royalty rule asks for.        *)
royaltyOwed_faulty(price) == price \div 20
royaltyOwed(price) == IF price \div 20 > 1 THEN price \div 20 ELSE 1
fee_amount(price) == IF price >= 20 THEN (price * 5) \div 100 ELSE 1

(* The chain takes a purchase at exactly the listing's price and royalty,  *)
(* and a listing of a token the signer holds.                              *)
Accepts(c, by, kind) ==
  IF kind = "buy"
  THEN /\ place[c.token] = [owner |-> c.seller, price |-> c.price]
       /\ royaltyOwed(c.price) = fee_amount(place[c.token].price)
  ELSE place[c.token] = [owner |-> by, price |-> 0]

Bought ==
  /\ tx.kind = "buy" /\ Accepts(tx.card, tx.by, "buy")
  /\ Move(tx.card.token, tx.by, 0)
  /\ bought' = tx.card.token /\ confirmed' = None
  /\ readbacks' = readbacks \cup {tx.card.token}
  /\ Reload /\ StartPolling /\ phase' = "idle" /\ tx' = NoTx
  /\ UNCHANGED <<account, listings, owned>>

Listed ==
  /\ tx.kind = "list" /\ Accepts(tx.card, tx.by, "list")
  /\ Move(tx.card.token, tx.by, tx.card.price)
  /\ Reload /\ StartPolling /\ phase' = "idle" /\ tx' = NoTx
  /\ UNCHANGED <<account, listings, owned, buying>>

(* The user declines, the transaction aborts, or fetchOwnedKiosk failed.   *)
Refused ==
  /\ tx # NoTx /\ tx' = NoTx /\ phase' = "error"
  /\ UNCHANGED <<chain, account, reads, buying>>

(* The fullnode's answer: the token, whoever has it by now, or a failure.  *)
Readback(t) ==
  /\ t \in readbacks /\ readbacks' = readbacks \ {t}
  /\ confirmed' \in {t, confirmed}
  /\ UNCHANGED <<chain, account, reads, tx, phase, bought>>

Next ==
  \/ Elsewhere \/ IndexCatchesUp \/ PollTick \/ Bought \/ Listed \/ Refused
  \/ \E w \in Wallets \cup {None} : Connect(w)
  \/ \E f \in fetches : Serve(f) \/ Arrive(f)
  \/ \E c \in Cards : onBuy(c)
  \/ \E t \in Tokens, p \in Prices \cup {0} : onList(t, p)
  \/ \E t \in Tokens : Readback(t)

Spec == Init /\ [][Next]_vars

-----------------------------------------------------------------------------
TypeOK ==
  /\ place \in [Tokens -> [owner : Wallets, price : Prices \cup {0}]]
  /\ index \in [place : [Tokens -> [owner : Wallets, price : Prices \cup {0}]], at : 0..moves]
  /\ moves \in 0..MaxMoves /\ account \in Wallets \cup {None}
  /\ \A f \in fetches : f.what \in {"listings", "owned"} /\ f.of \in Wallets \cup {None}
  /\ listings.cards \subseteq Cards /\ owned.tokens \subseteq Tokens
  /\ polls \in 0..MaxPolls /\ tx \in Txs \cup {NoTx} /\ phase \in {"idle", "busy", "error"}
  /\ bought \in Tokens \cup {None} /\ readbacks \subseteq Tokens /\ confirmed \in Tokens \cup {None}

(* What is on the page is never replaced by an older answer, whichever     *)
(* reload's answer comes last.                                             *)
NeverOlder == [][listings'.at >= listings.at /\ owned'.at >= owned.at]_vars

(* A card that is still what the chain holds can be bought at the total it *)
(* shows: neither the price nor the royalty makes the purchase abort.      *)
CurrentCardSells ==
  \A c \in visibleListings :
    place[c.token] = [owner |-> c.seller, price |-> c.price] => Accepts(c, account, "buy")
=============================================================================
