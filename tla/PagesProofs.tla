----------------------------- MODULE PagesProofs -----------------------------
(***************************************************************************)
(* Proofs about the pages.                                                 *)
(***************************************************************************)
EXTENDS Pages, LaunchPageProofs, SequenceTheorems, NaturalsInduction, WellFoundedInduction, TLAPS

(* A step of the composition is a step or a stutter of each page.          *)
LEMMA PageSteps ==
    [PagesNext]_pagesVars =>
        /\ [Detail!Next]_(Detail!vars)
        /\ [Market!Next]_(Market!vars)
        /\ [Track!Next]_(Track!vars)
        /\ [Viewer!Next]_(Viewer!vars)
        /\ [Live!Next]_(Live!vars)
        /\ [Mint!Next]_(Mint!vars)
  <1> SUFFICES ASSUME [PagesNext]_pagesVars
               PROVE  /\ [Detail!Next]_(Detail!vars)
                      /\ [Market!Next]_(Market!vars)
                      /\ [Track!Next]_(Track!vars)
                      /\ [Viewer!Next]_(Viewer!vars)
                      /\ [Live!Next]_(Live!vars)
                      /\ [Mint!Next]_(Mint!vars)
    OBVIOUS
  <1>1. Detail!Next \/ UNCHANGED detailVars
    BY DEF PagesNext, pagesVars
  <1>2. UNCHANGED detailVars => UNCHANGED Detail!vars
    BY DEF detailVars, Detail!vars
  <1>3. Market!Next \/ UNCHANGED marketVars
    BY DEF PagesNext, pagesVars
  <1>4. UNCHANGED marketVars => UNCHANGED Market!vars
    BY DEF marketVars, Market!vars, Market!chain, Market!reads, Market!buying
  <1>5. Track!Next \/ UNCHANGED trackVars
    BY DEF PagesNext, pagesVars
  <1>6. UNCHANGED trackVars => UNCHANGED Track!vars
    BY DEF trackVars, Track!vars
  <1>7. Viewer!Next \/ UNCHANGED viewVars
    BY DEF PagesNext, pagesVars
  <1>8. UNCHANGED viewVars => UNCHANGED Viewer!vars
    BY DEF viewVars, Viewer!vars
  <1>9. Live!Next \/ UNCHANGED liveVars
    BY DEF PagesNext, pagesVars
  <1>10. UNCHANGED liveVars => UNCHANGED Live!vars
    BY DEF liveVars, Live!vars
  <1>11. Mint!Next \/ UNCHANGED mintVars
    BY DEF PagesNext, pagesVars
  <1>12. UNCHANGED mintVars => UNCHANGED Mint!vars
    BY DEF mintVars, Mint!vars, Mint!model, Mint!captioner, Mint!minting
  <1> QED
    BY <1>1, <1>2, <1>3, <1>4, <1>5, <1>6, <1>7, <1>8, <1>9, <1>10, <1>11, <1>12

-----------------------------------------------------------------------------
(* The page of a model.                                                    *)

Flows == [kind : {"buy", "resolve", "decrypt"}, model : Models, by : Accounts,
          gate : Detail!Pairs \cup {None}]

Views == [kind : {"idle", "purchasing", "purchase-failed", "decrypting", "decrypt-failed"}]
         \cup [kind : {"viewing"}, model : Models, by : Accounts]

Paid == {p \in Detail!Pairs : charged[p] > 0}

DetailTypes ==
    /\ charged \in [Detail!Pairs -> Nat] /\ knownEnts \subseteq Detail!Pairs
    /\ sent \in 0..MaxPurchases
    /\ objectId \in Models /\ model \in Models \cup {None} /\ loaded \in {"loading", "yes", "failed"}
    /\ address \in Accounts \cup {None} /\ ents \subseteq Detail!Pairs /\ reading \in BOOLEAN
    /\ view \in Views /\ fresh \in Detail!Pairs \cup {None}
    /\ flow \in Flows \cup {Detail!Nothing}

(* Every entitlement the page or the index knows of was paid for, the one  *)
(* a decryption under way presents included; who buys is not the creator.  *)
EntitlementsArePaid ==
    /\ knownEnts \subseteq Paid /\ ents \subseteq Paid
    /\ fresh # None => fresh \in Paid
    /\ flow.kind = "resolve" => <<flow.model, flow.by>> \in Paid
    /\ flow.kind = "decrypt" /\ flow.gate # None => flow.gate \in Paid
    /\ flow.kind = "buy" => flow.by # CreatorOf[flow.model] /\ sent > 0

DetailInv ==
    /\ DetailTypes
    /\ loaded = "yes" => model \in Models
    /\ EntitlementsArePaid
    /\ Detail!ViewIsPaidFor
    /\ Detail!PaysAtMostOnce
    /\ sent = 0 => Paid = {}

LEMMA DetailInitInv == PagesInit => DetailInv
  <1> SUFFICES ASSUME PagesInit PROVE DetailInv
    OBVIOUS
  <1>1. Detail!Init
    BY DEF PagesInit
  <1>2. Detail!Idle \in Views /\ Detail!Idle.kind = "idle" /\ Detail!Nothing.kind = "none"
    BY DEF Views, Detail!Idle, Detail!Nothing
  <1>3. charged = [p \in Detail!Pairs |-> 0] /\ Paid = {}
    BY <1>1 DEF Detail!Init, Paid
  <1>4. DetailTypes
    <2>1. charged \in [Detail!Pairs -> Nat] /\ view \in Views /\ 0 \in 0..MaxPurchases
      BY <1>1, <1>2, <1>3, PagesAssumption DEF Detail!Init, Detail!DetailAssumption
    <2> QED
      BY <1>1, <2>1 DEF Detail!Init, DetailTypes
  <1>5. EntitlementsArePaid
    BY <1>1, <1>2, <1>3 DEF Detail!Init, EntitlementsArePaid
  <1>6. \A p \in Detail!Pairs : charged[p] = 0
    BY <1>3
  <1>7. Detail!PaysAtMostOnce
    BY <1>6 DEF Detail!PaysAtMostOnce
  <1>8. Detail!ViewIsPaidFor /\ (loaded = "yes" => model \in Models)
    BY <1>1, <1>2 DEF Detail!Init, Detail!ViewIsPaidFor
  <1> QED
    BY <1>3, <1>4, <1>5, <1>7, <1>8 DEF DetailInv

LEMMA DetailNextInv == DetailInv /\ [Detail!Next]_(Detail!vars) => DetailInv'
  <1> SUFFICES ASSUME DetailInv, [Detail!Next]_(Detail!vars) PROVE DetailInv'
    OBVIOUS
  <1> USE DEF DetailInv, DetailTypes, EntitlementsArePaid, Paid, Views, Flows,
        Detail!ViewIsPaidFor, Detail!PaysAtMostOnce, Detail!Nothing
  <1>1. ASSUME NEW m \in Models, Detail!Navigate(m) PROVE DetailInv'
    BY <1>1 DEF Detail!Navigate
  <1>2. ASSUME NEW a \in Accounts \cup {None}, Detail!SignIn(a) PROVE DetailInv'
    BY <1>2 DEF Detail!SignIn
  <1>3. CASE Detail!useModelById
    BY <1>3 DEF Detail!useModelById
  <1>4. CASE Detail!useOwnedEntitlements
    <2>1. ents' \subseteq Paid
      BY <1>4 DEF Detail!useOwnedEntitlements
    <2>2. /\ reading' = FALSE
          /\ UNCHANGED <<charged, knownEnts, sent, objectId, model, loaded, address, view, fresh, flow>>
      BY <1>4 DEF Detail!useOwnedEntitlements
    <2>3. Paid' = Paid
      BY <2>2
    <2>4. DetailTypes'
      BY <2>1, <2>2
    <2>5. EntitlementsArePaid'
      BY <2>1, <2>2, <2>3
    <2> QED
      BY <2>2, <2>3, <2>4, <2>5
  <1>5. CASE Detail!IndexCatchesUp
    BY <1>5 DEF Detail!IndexCatchesUp
  <1>6. CASE Detail!onView
    <2>1. model \in Models /\ address \in Accounts
      BY <1>6 DEF Detail!onView, Detail!OffersView, Detail!Shown
    <2>2. PICK gate \in Paid \cup {None} :
              /\ flow' = [kind |-> "decrypt", model |-> model, by |-> address, gate |-> gate]
              /\ view' = [kind |-> "decrypting"]
      <3>1. CASE Detail!isCreator
        BY <1>6, <3>1 DEF Detail!onView, Detail!Decrypt
      <3>2. CASE ~Detail!isCreator
        <4>1. PICK ent \in IF fresh # None THEN {fresh} ELSE Detail!Held :
                  Detail!Decrypt(model, address, ent)
          BY <1>6, <3>2 DEF Detail!onView
        <4>2. ent \in Paid
          BY <4>1 DEF Detail!Held
        <4> QED
          BY <4>1, <4>2 DEF Detail!Decrypt
      <3> QED
        BY <3>1, <3>2
    <2>3. UNCHANGED <<charged, knownEnts, sent, objectId, model, loaded, address, ents, reading, fresh>>
      BY <1>6 DEF Detail!onView
    <2> QED
      BY <2>1, <2>2, <2>3
  <1>7. CASE Detail!onBuyAccess
    BY <1>7, PagesAssumption DEF Detail!onBuyAccess, Detail!OffersBuy, Detail!Shown, Detail!isCreator, Detail!DetailAssumption
  <1>8. CASE Detail!BuyFails
    BY <1>8 DEF Detail!BuyFails
  <1>9. CASE Detail!Purchased
    BY <1>9 DEF Detail!Purchased, Detail!MayPurchase, Detail!Pairs
  <1>10. CASE Detail!Resolved
    BY <1>10 DEF Detail!Resolved, Detail!Decrypt, Detail!Pairs
  <1>11. CASE Detail!Decrypted
    BY <1>11 DEF Detail!Decrypted, Detail!Approved, Detail!Pairs
  <1>12. CASE Detail!DecryptFails
    BY <1>12 DEF Detail!DecryptFails
  <1>13. CASE UNCHANGED Detail!vars
    BY <1>13 DEF Detail!vars
  <1> QED
    BY <1>1, <1>2, <1>3, <1>4, <1>5, <1>6, <1>7, <1>8, <1>9, <1>10, <1>11, <1>12, <1>13
    DEF Detail!Next

LEMMA DetailStepInv == DetailInv /\ [PagesNext]_pagesVars => DetailInv'
  BY PageSteps, DetailNextInv

(* Whatever route, account and lost answers come between, what is in the     *)
(* viewer was paid for by its account or is its own.                         *)
THEOREM ViewsArePaidFor == PagesSpec => []ViewIsPaidFor
  <1>1. DetailInv => ViewIsPaidFor
    BY DEF DetailInv, ViewIsPaidFor
  <1> QED
    BY <1>1, DetailInitInv, DetailStepInv, PTL DEF PagesSpec

(* Nobody pays twice for a model, and no creator for their own.              *)
THEOREM NobodyPaysTwice == PagesSpec => []PaysAtMostOnce
  <1>1. DetailInv => PaysAtMostOnce
    BY DEF DetailInv, PaysAtMostOnce
  <1> QED
    BY <1>1, DetailInitInv, DetailStepInv, PTL DEF PagesSpec

-----------------------------------------------------------------------------
(* The marketplace.                                                        *)

Places == [Tokens -> [owner : Wallets, price : AskingPrices \cup {0}]]
Answers == [at : Nat, got : (SUBSET Market!Cards) \cup SUBSET Tokens]
Fetches == [what : {"listings", "owned"}, of : Wallets \cup {None}, answer : Answers \cup {None}]

MarketTypes ==
    /\ place \in Places /\ index \in [place : Places, at : Nat] /\ moves \in 0..MaxMoves
    /\ account \in Wallets \cup {None} /\ fetches \subseteq Fetches
    /\ listings \in [cards : SUBSET Market!Cards, at : Nat]
    /\ marketOwned \in [tokens : SUBSET Tokens, of : Wallets \cup {None}, at : Nat, failed : BOOLEAN]
    /\ polls \in 0..MaxPolls /\ tx \in Market!Txs \cup {Market!NoTx}
    /\ marketPhase \in {"idle", "busy", "error"}
    /\ bought \in Tokens \cup {None} /\ readbacks \subseteq Tokens
    /\ confirmed \in Tokens \cup {None}

(* At most one read of a kind is under way, and its answer is no older than  *)
(* what is on the page and no newer than the index.                          *)
ShownAt(what) == IF what = "listings" THEN listings.at ELSE marketOwned.at

AnswersAreNewer ==
    /\ index.at <= moves /\ listings.at <= index.at /\ marketOwned.at <= index.at
    /\ \A f, g \in fetches : f.what = g.what => f = g
    /\ \A f \in fetches : f.answer # None =>
           /\ ShownAt(f.what) <= f.answer.at /\ f.answer.at <= index.at
           /\ f.answer.got \subseteq IF f.what = "listings" THEN Market!Cards ELSE Tokens

MarketInv == MarketTypes /\ AnswersAreNewer

LEMMA MarketInitInv == PagesInit => MarketInv
  <1> SUFFICES ASSUME PagesInit PROVE MarketInv
    OBVIOUS
  <1>1. Market!Init
    BY DEF PagesInit
  <1>2. place \in Places
    BY <1>1 DEF Market!Init, Places
  <1>3. MarketTypes
    BY <1>1, <1>2, PagesAssumption DEF Market!Init, MarketTypes, Market!MarketAssumption
  <1>4. AnswersAreNewer
    BY <1>1 DEF Market!Init, AnswersAreNewer
  <1> QED
    BY <1>3, <1>4 DEF MarketInv

(* The reads an effect starts: one of each kind, and none from before.     *)
LEMMA ReadsFresh ==
    ASSUME NEW w \in Wallets \cup {None}
    PROVE  /\ Market!Reads(w) \subseteq Fetches
           /\ \A f \in Market!Reads(w) : f.answer = None
           /\ \A f, g \in Market!Reads(w) : f.what = g.what => f = g
  BY DEF Market!Reads, Market!Outlive, Fetches

(* What a reload, or a new account, does to the reads. *)
LEMMA ReloadInv ==
    ASSUME MarketInv, NEW w \in Wallets \cup {None}, fetches' = Market!Reads(w),
           UNCHANGED index, moves' \in Nat, moves' >= moves,
           UNCHANGED listings, marketOwned'.at = marketOwned.at
    PROVE  AnswersAreNewer' /\ fetches' \subseteq Fetches
  BY ReadsFresh DEF MarketInv, MarketTypes, AnswersAreNewer

LEMMA MoveTypes ==
    ASSUME MarketInv, NEW t \in Tokens, NEW w \in Wallets, NEW p \in AskingPrices \cup {0},
           Market!Move(t, w, p)
    PROVE  /\ place' \in Places /\ moves' \in 0..MaxMoves /\ moves' = moves + 1
           /\ UNCHANGED index
  BY PagesAssumption DEF Market!Move, MarketInv, MarketTypes, Places, Market!MarketAssumption

LEMMA MarketNextInv == MarketInv /\ [Market!Next]_(Market!vars) => MarketInv'
  <1> SUFFICES ASSUME MarketInv, [Market!Next]_(Market!vars) PROVE MarketInv'
    OBVIOUS
  <1> USE DEF Market!chain, Market!reads, Market!buying
  <1>0. moves \in Nat /\ MaxMoves \in Nat /\ MaxPolls \in Nat
    BY PagesAssumption DEF MarketInv, MarketTypes, Market!MarketAssumption
  <1>1. CASE Market!Elsewhere
    <2>1. PICK t \in Tokens, w \in Wallets, p \in AskingPrices \cup {0} : Market!Move(t, w, p)
      BY <1>1 DEF Market!Elsewhere, MarketInv, MarketTypes, Places
    <2>2. UNCHANGED <<account, fetches, listings, marketOwned, polls, tx, marketPhase,
                      bought, readbacks, confirmed>>
      BY <1>1 DEF Market!Elsewhere
    <2> QED
      BY <1>0, <2>1, <2>2, MoveTypes DEF MarketInv, MarketTypes, AnswersAreNewer, ShownAt
  <1>2. CASE Market!IndexCatchesUp
    BY <1>0, <1>2 DEF Market!IndexCatchesUp, MarketInv, MarketTypes, AnswersAreNewer, ShownAt, Fetches, Answers
  <1>3. CASE Market!PollTick
    BY <1>0, <1>3, ReloadInv DEF Market!PollTick, Market!Reload, MarketInv, MarketTypes
  <1>4. CASE Market!Bought
    <2>1. tx \in Market!Txs
      BY <1>4 DEF Market!Bought, MarketInv, MarketTypes, Market!NoTx
    <2>2. tx.card.token \in Tokens /\ tx.by \in Wallets
      BY <2>1 DEF Market!Txs, Market!Cards
    <2>3. Market!Move(tx.card.token, tx.by, 0)
      BY <1>4 DEF Market!Bought
    <2>4. AnswersAreNewer' /\ fetches' \subseteq Fetches
      BY <1>0, <1>4, <2>2, <2>3, ReloadInv, MoveTypes DEF Market!Bought, Market!Reload, MarketInv, MarketTypes
    <2> QED
      BY <1>0, <1>4, <2>2, <2>3, <2>4, MoveTypes
      DEF Market!Bought, Market!StartPolling, MarketInv, MarketTypes
  <1>5. CASE Market!Listed
    <2>1. tx \in Market!Txs
      BY <1>5 DEF Market!Listed, MarketInv, MarketTypes, Market!NoTx
    <2>2. tx.card.token \in Tokens /\ tx.by \in Wallets /\ tx.card.price \in AskingPrices
      BY <2>1 DEF Market!Txs, Market!Cards
    <2>3. Market!Move(tx.card.token, tx.by, tx.card.price)
      BY <1>5 DEF Market!Listed
    <2>4. AnswersAreNewer' /\ fetches' \subseteq Fetches
      BY <1>0, <1>5, <2>2, <2>3, ReloadInv, MoveTypes DEF Market!Listed, Market!Reload, MarketInv, MarketTypes
    <2> QED
      BY <1>0, <1>5, <2>2, <2>3, <2>4, MoveTypes
      DEF Market!Listed, Market!StartPolling, MarketInv, MarketTypes
  <1>6. CASE Market!Refused
    BY <1>6 DEF Market!Refused, MarketInv, MarketTypes, AnswersAreNewer, ShownAt
  <1>7. ASSUME NEW w \in Wallets \cup {None}, Market!Connect(w) PROVE MarketInv'
    <2>1. /\ fetches' = Market!Reads(w) /\ account' = w
          /\ UNCHANGED <<place, index, moves, listings, polls, tx, marketPhase,
                         bought, readbacks, confirmed>>
          /\ marketOwned' = IF w = None THEN [marketOwned EXCEPT !.tokens = {}] ELSE marketOwned
      BY <1>7 DEF Market!Connect
    <2>2. /\ marketOwned' \in [tokens : SUBSET Tokens, of : Wallets \cup {None}, at : Nat, failed : BOOLEAN]
          /\ marketOwned'.at = marketOwned.at
      BY <2>1 DEF MarketInv, MarketTypes
    <2>3. AnswersAreNewer' /\ fetches' \subseteq Fetches
      BY <1>0, <2>1, <2>2, ReloadInv
    <2> QED
      BY <2>1, <2>2, <2>3 DEF MarketInv, MarketTypes
  <1>8. ASSUME NEW f \in fetches, Market!Serve(f) PROVE MarketInv'
    <2>1. PICK down \in SUBSET Wallets :
            fetches' = (fetches \ {f}) \cup
              {[f EXCEPT !.answer =
                  [at |-> index.at,
                   got |-> IF f.what = "owned" THEN Market!TokensOf(index.place, f.of)
                           ELSE {c \in Market!CardsIn(index.place) : c.seller \notin down}]]}
      BY <1>8 DEF Market!Serve
    <2> DEFINE got == IF f.what = "owned" THEN Market!TokensOf(index.place, f.of)
                      ELSE {c \in Market!CardsIn(index.place) : c.seller \notin down}
               g == [f EXCEPT !.answer = [at |-> index.at, got |-> got]]
    <2>2. got \subseteq IF f.what = "listings" THEN Market!Cards ELSE Tokens
      BY <1>8 DEF MarketInv, MarketTypes, Places, Fetches, Market!TokensOf, Market!CardsIn, Market!Cards
    <2>3. /\ g \in Fetches /\ g.what = f.what
          /\ g.answer.at = index.at /\ g.answer.got = got
      BY <2>2 DEF MarketInv, MarketTypes, Fetches, Answers
    <2>4. fetches' = (fetches \ {f}) \cup {g}
      BY <2>1
    <2>5. UNCHANGED <<place, index, moves, account, listings, marketOwned, polls, tx, marketPhase,
                      bought, readbacks, confirmed>>
      BY <1>8 DEF Market!Serve
    <2> HIDE DEF g, got
    <2>6. AnswersAreNewer'
      BY <1>0, <2>2, <2>3, <2>4, <2>5 DEF MarketInv, MarketTypes, AnswersAreNewer, ShownAt, Fetches
    <2> QED
      BY <2>3, <2>4, <2>5, <2>6 DEF MarketInv, MarketTypes
  <1>9. ASSUME NEW f \in fetches, Market!Arrive(f) PROVE MarketInv'
    <2> DEFINE OwnedSet == [tokens : SUBSET Tokens, of : Wallets \cup {None}, at : Nat,
                            failed : BOOLEAN]
    <2>1. /\ fetches' = fetches \ {f}
          /\ UNCHANGED <<place, index, moves, account, polls, tx, marketPhase,
                         bought, readbacks, confirmed>>
      BY <1>9 DEF Market!Arrive
    <2>2. f \in Fetches /\ marketOwned \in OwnedSet
      BY DEF MarketInv, MarketTypes
    <2>3. CASE f.answer # None /\ f.what = "listings"
      <3>1. listings' = [cards |-> f.answer.got, at |-> f.answer.at] /\ UNCHANGED marketOwned
        BY <1>9, <2>3 DEF Market!Arrive
      <3>2. listings' \in [cards : SUBSET Market!Cards, at : Nat]
        BY <2>2, <2>3, <3>1 DEF MarketInv, AnswersAreNewer, Fetches, Answers
      <3>3. AnswersAreNewer'
        BY <1>0, <2>1, <2>2, <2>3, <3>1
        DEF MarketInv, MarketTypes, AnswersAreNewer, ShownAt, Fetches, Answers
      <3> QED
        BY <2>1, <3>1, <3>2, <3>3 DEF MarketInv, MarketTypes
    <2>4. CASE f.answer # None /\ f.what = "owned"
      <3>1. /\ marketOwned' = [tokens |-> f.answer.got, of |-> f.of, at |-> f.answer.at,
                               failed |-> FALSE]
            /\ UNCHANGED listings
        BY <1>9, <2>4 DEF Market!Arrive
      <3>2. marketOwned' \in OwnedSet
        BY <2>2, <2>4, <3>1 DEF MarketInv, AnswersAreNewer, Fetches, Answers
      <3>3. AnswersAreNewer'
        BY <1>0, <2>1, <2>2, <2>4, <3>1
        DEF MarketInv, MarketTypes, AnswersAreNewer, ShownAt, Fetches, Answers
      <3> QED
        BY <2>1, <3>1, <3>2, <3>3 DEF MarketInv, MarketTypes
    <2>5. CASE f.answer = None
      <3>1. /\ marketOwned' = [marketOwned EXCEPT !.failed = @ \/ f.what = "owned"]
            /\ UNCHANGED listings
        BY <1>9, <2>5 DEF Market!Arrive
      <3>2. (marketOwned.failed \/ f.what = "owned") \in BOOLEAN
        BY Zenon
      <3>3. marketOwned' \in OwnedSet /\ marketOwned'.at = marketOwned.at
        BY <2>2, <3>1, <3>2
      <3>4. AnswersAreNewer'
        BY <1>0, <2>1, <3>1, <3>3 DEF MarketInv, AnswersAreNewer, ShownAt
      <3> QED
        BY <2>1, <3>1, <3>3, <3>4 DEF MarketInv, MarketTypes
    <2> QED
      BY <2>2, <2>3, <2>4, <2>5 DEF Fetches
  <1>10. ASSUME NEW c \in Market!Cards, Market!onBuy(c) PROVE MarketInv'
    BY <1>10 DEF Market!onBuy, MarketInv, MarketTypes, AnswersAreNewer, ShownAt, Market!Txs
  <1>11. ASSUME NEW t \in Tokens, NEW p \in AskingPrices \cup {0}, Market!onList(t, p) PROVE MarketInv'
    BY <1>11 DEF Market!onList, MarketInv, MarketTypes, AnswersAreNewer, ShownAt, Market!Txs, Market!Cards
  <1>12. ASSUME NEW t \in Tokens, Market!Readback(t) PROVE MarketInv'
    BY <1>12 DEF Market!Readback, MarketInv, MarketTypes, AnswersAreNewer, ShownAt
  <1>13. CASE UNCHANGED Market!vars
    BY <1>13 DEF Market!vars, MarketInv, MarketTypes, AnswersAreNewer, ShownAt
  <1> QED
    BY <1>1, <1>2, <1>3, <1>4, <1>5, <1>6, <1>7, <1>8, <1>9, <1>10, <1>11, <1>12, <1>13
    DEF Market!Next

LEMMA MarketStepInv == MarketInv /\ [PagesNext]_pagesVars => MarketInv'
  BY PageSteps, MarketNextInv

(* No answer replaces a newer one on the marketplace, whichever reload's     *)
(* answer comes last.                                                        *)
THEOREM ReadsNeverRegress == PagesSpec => NeverOlder
  <1>1. ASSUME MarketInv, [Market!Next]_(Market!vars)
        PROVE  [listings'.at >= listings.at /\ marketOwned'.at >= marketOwned.at]_(Market!vars)
    <2> SUFFICES ASSUME Market!Next
                 PROVE  listings'.at >= listings.at /\ marketOwned'.at >= marketOwned.at
      BY <1>1
    <2>1. listings.at \in Nat /\ marketOwned.at \in Nat
      BY <1>1 DEF MarketInv, MarketTypes
    <2>2. ASSUME NEW f \in fetches, Market!Arrive(f)
          PROVE  listings'.at >= listings.at /\ marketOwned'.at >= marketOwned.at
      <3>1. f.answer # None => ShownAt(f.what) <= f.answer.at
        BY <1>1 DEF MarketInv, AnswersAreNewer
      <3>2. marketOwned' = [marketOwned EXCEPT !.failed = @ \/ f.what = "owned"]
                => marketOwned'.at = marketOwned.at
        BY <1>1 DEF MarketInv, MarketTypes
      <3> QED
        BY <2>1, <2>2, <3>1, <3>2 DEF Market!Arrive, ShownAt
    <2>3. ASSUME NEW w \in Wallets \cup {None}, Market!Connect(w)
          PROVE  listings'.at >= listings.at /\ marketOwned'.at >= marketOwned.at
      BY <1>1, <2>1, <2>3 DEF Market!Connect, MarketInv, MarketTypes
    <2> QED
      BY <2>1, <2>2, <2>3
      DEF Market!Next, Market!Elsewhere, Market!IndexCatchesUp, Market!PollTick, Market!Bought,
          Market!Listed, Market!Refused, Market!Serve, Market!onBuy, Market!onList,
          Market!Readback, Market!reads
  <1> QED
    BY <1>1, MarketInitInv, MarketStepInv, PageSteps, PTL
    DEF PagesSpec, NeverOlder, Market!NeverOlder

(* The royalty the page adds is the one the deployed rule asks for.          *)
LEMMA RoyaltyIsTheFee ==
    ASSUME NEW price \in Nat
    PROVE  Market!royaltyOwed(price) = Market!fee_amount(price)
  BY DEF Market!royaltyOwed, Market!fee_amount

(* A card that is still what the chain holds can be bought at its total.     *)
THEOREM CurrentCardsSell == PagesSpec => []CurrentCardSells
  <1>1. MarketInv => CurrentCardSells
    <2> SUFFICES ASSUME MarketInv, NEW c \in Market!visibleListings,
                        place[c.token] = [owner |-> c.seller, price |-> c.price]
                 PROVE  Market!Accepts(c, account, "buy")
      BY DEF CurrentCardSells, Market!CurrentCardSells
    <2>1. c \in Market!Cards
      BY DEF MarketInv, MarketTypes, Market!visibleListings
    <2>2. c.price \in Nat
      BY <2>1, PagesAssumption DEF Market!Cards, Market!MarketAssumption
    <2> QED
      BY <2>2, RoyaltyIsTheFee DEF Market!Accepts
  <1> QED
    BY <1>1, MarketInitInv, MarketStepInv, PTL DEF PagesSpec

-----------------------------------------------------------------------------
(* The race track.                                                         *)

Builds == [n : Nat, car : Track!AllCars, stage : {"fetch", "create"}, cancelled : BOOLEAN]

TrackScenes == [car : Track!AllCars, lap : Track!LapStates, at : {"start", "road", "check"},
                orbited : BOOLEAN, passed : BOOLEAN]

TrackTypes ==
    /\ carsOwned \subseteq Cars /\ chosen \in Track!AllCars \cup {NoCar}
    /\ trackPhase \in {"garage", "racing"} /\ override \in BOOLEAN /\ error \in BOOLEAN
    /\ built \in Nat /\ builds \subseteq Builds
    /\ scene \in TrackScenes \cup {Track!NoScene}

(* A running lap that has its checkpoint went through it after the throttle. *)
LapIsDriven ==
    scene # Track!NoScene =>
        /\ scene.lap.status \in {"intro", "waiting"} => ~scene.lap.checkpoint
        /\ scene.lap.status = "finished" => scene.lap.checkpoint
        /\ scene.lap.checkpoint => scene.passed

(* A build that is not cancelled is the one of the selected car; it took the *)
(* scene of the last car away as soon as it had its file.                    *)
BuildIsSelected ==
    /\ \A b \in builds : b.stage = "fetch" => ~b.cancelled
    /\ \A b \in builds : ~b.cancelled =>
           /\ trackPhase = "racing" /\ b.car = Track!selected
           /\ b.stage = "create" => scene = Track!NoScene
    /\ \A b, c \in builds : ~b.cancelled /\ ~c.cancelled => b = c
    /\ trackPhase = "garage" => ~override /\ scene = Track!NoScene

TrackInv == TrackTypes /\ LapIsDriven /\ BuildIsSelected /\ Track!SceneIsSelected

LEMMA SceneHasLap ==
    ASSUME TrackTypes, scene # Track!NoScene
    PROVE  scene \in TrackScenes
  BY DEF TrackTypes

LEMMA TrackInitInv == PagesInit => TrackInv
  <1> SUFFICES ASSUME PagesInit PROVE TrackInv
    OBVIOUS
  <1>1. Track!Init
    BY DEF PagesInit
  <1>2. TrackTypes /\ LapIsDriven /\ BuildIsSelected
    BY <1>1 DEF Track!Init, TrackTypes, LapIsDriven, BuildIsSelected
  <1>3. Track!SceneIsSelected
    BY <1>1 DEF Track!Init, Track!SceneIsSelected, Track!selected, Track!SelectedOf
  <1> QED
    BY <1>2, <1>3 DEF TrackInv

(* What a step that neither builds nor selects does to the lap of a scene.   *)
LEMMA LapStep ==
    ASSUME TrackInv, scene # Track!NoScene,
           NEW s \in TrackScenes, s.car = scene.car,
           scene' = s,
           s.lap.status \in {"intro", "waiting"} => ~s.lap.checkpoint,
           s.lap.status = "finished" => s.lap.checkpoint,
           s.lap.checkpoint => s.passed,
           UNCHANGED <<override, carsOwned, chosen, trackPhase, builds, built, error>>
    PROVE  TrackInv'
  <1>1. s # Track!NoScene
    BY DEF TrackScenes, Track!NoScene
  <1>2. TrackTypes' /\ LapIsDriven'
    BY DEF TrackInv, TrackTypes, LapIsDriven
  <1>3. BuildIsSelected'
    BY DEF TrackInv, BuildIsSelected, Track!selected, Track!SelectedOf
  <1>4. Track!SceneIsSelected'
    BY <1>1 DEF TrackInv, Track!SceneIsSelected, Track!selected, Track!SelectedOf
  <1> QED
    BY <1>2, <1>3, <1>4 DEF TrackInv

LEMMA CancelledBuilds ==
    ASSUME TrackTypes
    PROVE  /\ Track!Cancelled \subseteq Builds
           /\ \A b \in Track!Cancelled : b.stage = "create" /\ b.cancelled
  BY DEF TrackTypes, Track!Cancelled, Builds

(* The effects of a change of car or phase: whatever was being built is      *)
(* cancelled, and one build of the car now selected begins, if it is raced.  *)
LEMMA EffectsInv ==
    ASSUME TrackInv, NEW car \in Track!AllCars, NEW ph \in {"garage", "racing"},
           Track!Effects(car, ph),
           carsOwned' \subseteq Cars, chosen' \in Track!AllCars \cup {NoCar},
           trackPhase' = ph, override' = override, car = Track!selected',
           scene' \in {scene, Track!NoScene},
           car = Track!selected /\ ph = trackPhase => scene' = scene,
           ph = "garage" => ~override /\ scene' = Track!NoScene
    PROVE  TrackInv'
  <1>1. LapIsDriven'
    BY DEF TrackInv, LapIsDriven
  <1>2. car # NoCar
    BY PagesAssumption DEF Track!AllCars, Track!TrackAssumption
  <1>3. CASE car = Track!selected /\ ph = trackPhase
    <2>1. UNCHANGED <<builds, built, error, scene>>
      BY <1>3 DEF Track!Effects
    <2>2. TrackTypes' /\ BuildIsSelected'
      BY <1>3, <2>1 DEF TrackInv, TrackTypes, BuildIsSelected
    <2>3. Track!SceneIsSelected'
      BY <1>3, <2>1 DEF TrackInv, Track!SceneIsSelected
    <2> QED
      BY <1>1, <2>2, <2>3 DEF TrackInv
  <1>4. CASE ~(car = Track!selected /\ ph = trackPhase) /\ ph = "racing"
    <2> DEFINE new == [n |-> built', car |-> car, stage |-> "fetch", cancelled |-> FALSE]
    <2>1. built' = built + 1 /\ error' = FALSE /\ builds' = Track!Cancelled \cup {new}
      BY <1>2, <1>4 DEF Track!Effects
    <2>2. new \in Builds /\ new.car = car /\ new.stage = "fetch" /\ ~new.cancelled
      BY <2>1 DEF Builds, TrackInv, TrackTypes
    <2> HIDE DEF new
    <2>3. TrackTypes'
      <3>1. builds' \subseteq Builds /\ built' \in Nat
        BY <2>1, <2>2, CancelledBuilds DEF TrackInv, TrackTypes
      <3>2. scene' \in TrackScenes \cup {Track!NoScene}
        BY DEF TrackInv, TrackTypes
      <3>3. override' \in BOOLEAN
        BY DEF TrackInv, TrackTypes
      <3> QED
        BY <2>1, <3>1, <3>2, <3>3 DEF TrackTypes
    <2>4. BuildIsSelected'
      BY <1>4, <2>1, <2>2, CancelledBuilds DEF TrackInv, BuildIsSelected
    <2>5. Track!SceneIsSelected'
      BY <2>1, <2>2 DEF Track!SceneIsSelected
    <2> QED
      BY <1>1, <2>3, <2>4, <2>5 DEF TrackInv
  <1>5. CASE ~(car = Track!selected /\ ph = trackPhase) /\ ph = "garage"
    <2>1. builds' = Track!Cancelled /\ UNCHANGED <<built, error>>
      BY <1>2, <1>5 DEF Track!Effects
    <2>2. TrackTypes' /\ BuildIsSelected'
      BY <1>5, <2>1, CancelledBuilds DEF TrackInv, TrackTypes, BuildIsSelected
    <2>3. Track!SceneIsSelected'
      BY <1>5 DEF Track!SceneIsSelected
    <2> QED
      BY <1>1, <2>2, <2>3 DEF TrackInv
  <1> QED
    BY <1>3, <1>4, <1>5

(* What the lap reducer's events make of a lap. *)
LEMMA Reduced ==
    ASSUME NEW l \in Track!LapStates, NEW ms \in 1..MaxLap
    PROVE  /\ Track!finishCrossed(l, ms) \in Track!LapStates
           /\ Track!finishCrossed(l, ms).checkpoint = l.checkpoint
           /\ Track!finishCrossed(l, ms).status =
                  IF l.status = "running" /\ l.checkpoint THEN "finished" ELSE l.status
           /\ Track!checkpoint(l) \in Track!LapStates
           /\ Track!checkpoint(l).status = l.status
           /\ Track!checkpoint(l).checkpoint = (l.checkpoint \/ l.status = "running")
           /\ Track!throttle(l) \in Track!LapStates
           /\ Track!throttle(l).checkpoint = l.checkpoint
           /\ Track!throttle(l).status = IF l.status = "waiting" THEN "running" ELSE l.status
  <1>1. MaxLap \in Nat
    BY PagesAssumption DEF Track!TrackAssumption
  <1>2. /\ Track!finishCrossed(l, ms) \in Track!LapStates
        /\ Track!finishCrossed(l, ms).checkpoint = l.checkpoint
        /\ Track!finishCrossed(l, ms).status =
               IF l.status = "running" /\ l.checkpoint THEN "finished" ELSE l.status
    <2>1. CASE l.status = "running" /\ l.checkpoint
      <3>1. Track!finishCrossed(l, ms) = [l EXCEPT !.status = "finished", !.ms = ms]
        BY <2>1 DEF Track!finishCrossed
      <3>2. ms \in 0..MaxLap
        BY <1>1
      <3> QED
        BY <2>1, <3>1, <3>2 DEF Track!LapStates
    <2>2. CASE ~(l.status = "running" /\ l.checkpoint)
      BY <2>2 DEF Track!finishCrossed
    <2> QED
      BY <2>1, <2>2
  <1>3. /\ Track!checkpoint(l) \in Track!LapStates
        /\ Track!checkpoint(l).status = l.status
        /\ Track!checkpoint(l).checkpoint = (l.checkpoint \/ l.status = "running")
    <2>1. (l.checkpoint \/ l.status = "running") \in BOOLEAN
      BY Zenon
    <2> QED
      BY <2>1 DEF Track!checkpoint, Track!LapStates
  <1>4. /\ Track!throttle(l) \in Track!LapStates
        /\ Track!throttle(l).checkpoint = l.checkpoint
        /\ Track!throttle(l).status = IF l.status = "waiting" THEN "running" ELSE l.status
    BY DEF Track!throttle, Track!LapStates
  <1> QED
    BY <1>2, <1>3, <1>4

LEMMA FreshLaps ==
    /\ Track!initialLapState \in Track!LapStates /\ Track!waitingLapState \in Track!LapStates
    /\ ~Track!initialLapState.checkpoint /\ Track!initialLapState.status = "intro"
    /\ ~Track!waitingLapState.checkpoint /\ Track!waitingLapState.status = "waiting"
  BY PagesAssumption
  DEF Track!TrackAssumption, Track!initialLapState, Track!waitingLapState, Track!Lap, Track!LapStates

(* A dispatch carries the scene on with the lap it is given. *)
LEMMA DispatchScene ==
    ASSUME NEW s \in TrackScenes, NEW l \in Track!LapStates, Track!Dispatch(s, l)
    PROVE  /\ scene' = [s EXCEPT !.lap = l]
           /\ scene' \in TrackScenes
           /\ UNCHANGED <<override, carsOwned, chosen, trackPhase, builds, built, error>>
  <1>1. CASE l # s.lap
    BY <1>1 DEF Track!Dispatch, Track!Tell, TrackScenes
  <1>2. CASE l = s.lap
    <2>1. [s EXCEPT !.lap = l] = s
      BY <1>2 DEF TrackScenes
    <2> QED
      BY <1>2, <2>1 DEF Track!Dispatch
  <1> QED
    BY <1>1, <1>2

LEMMA DriveInv ==
    ASSUME TrackInv, NEW to \in {"start", "road", "check"}, NEW ms \in 1..MaxLap, Track!Drive(to, ms)
    PROVE  TrackInv'
  <1> DEFINE s == [scene EXCEPT !.at = to,
                                !.passed = @ \/ (to = "check" /\ scene.lap.status = "running")]
             l == CASE to = "start" -> Track!finishCrossed(scene.lap, ms)
                    [] to = "check" -> Track!checkpoint(scene.lap)
                    [] OTHER -> scene.lap
  <1>1. scene # Track!NoScene /\ scene \in TrackScenes
    BY SceneHasLap DEF Track!Drive, Track!Driving, TrackInv
  <1>2. Track!Dispatch(s, l)
    BY DEF Track!Drive
  <1>3. (scene.passed \/ (to = "check" /\ scene.lap.status = "running")) \in BOOLEAN
    BY Zenon
  <1>4. /\ s \in TrackScenes /\ s.car = scene.car /\ s.lap = scene.lap
        /\ s.passed = (scene.passed \/ (to = "check" /\ scene.lap.status = "running"))
    BY <1>1, <1>3 DEF TrackScenes
  <1>5. scene.lap \in Track!LapStates
    BY <1>1 DEF TrackScenes
  <1>6. /\ l \in Track!LapStates
        /\ l.status \in {"intro", "waiting"} => ~l.checkpoint
        /\ l.status = "finished" => l.checkpoint
        /\ l.checkpoint => s.passed
    <2>1. CASE to = "start"
      <3>1. l = Track!finishCrossed(scene.lap, ms)
        BY <2>1
      <3> HIDE DEF l, s
      <3> QED
        <4>1. /\ l \in Track!LapStates
              /\ l.checkpoint = scene.lap.checkpoint
              /\ l.status = IF scene.lap.status = "running" /\ scene.lap.checkpoint
                            THEN "finished" ELSE scene.lap.status
          BY <1>5, <3>1, Reduced
        <4>2. s.passed = scene.passed
          BY <1>1, <1>4, <2>1 DEF TrackScenes
        <4> QED
          BY <1>1, <4>1, <4>2 DEF TrackInv, LapIsDriven
    <2>2. CASE to = "check"
      <3>1. l = Track!checkpoint(scene.lap)
        BY <2>2
      <3> HIDE DEF l, s
      <3> QED
        BY <1>1, <1>4, <1>5, <2>2, <3>1, Reduced DEF TrackInv, LapIsDriven
    <2>3. CASE to = "road"
      BY <1>1, <1>4, <1>5, <2>3 DEF TrackInv, LapIsDriven
    <2> QED
      BY <2>1, <2>2, <2>3
  <1> HIDE DEF s, l
  <1>7. /\ scene' = [s EXCEPT !.lap = l] /\ scene' \in TrackScenes
        /\ UNCHANGED <<override, carsOwned, chosen, trackPhase, builds, built, error>>
    BY <1>2, <1>4, <1>6, DispatchScene
  <1>8. scene'.car = scene.car /\ scene'.lap = l /\ scene'.passed = s.passed
    BY <1>4, <1>7 DEF TrackScenes
  <1> QED
    BY <1>1, <1>6, <1>7, <1>8, LapStep

LEMMA SelectedIsCar ==
    ASSUME NEW found \in SUBSET Cars, NEW pick, override \in BOOLEAN, override => found # {}
    PROVE  Track!SelectedOf(found, pick) \in Track!AllCars
  BY DEF Track!SelectedOf, Track!AllCars

LEMMA FetchedInv ==
    ASSUME TrackInv, NEW b \in builds, Track!Fetched(b) PROVE TrackInv'
  <1> DEFINE c == [b EXCEPT !.stage = "create"]
  <1>1. /\ b.stage = "fetch" /\ builds' = (builds \ {b}) \cup {c} /\ scene' = Track!NoScene
        /\ UNCHANGED <<override, carsOwned, chosen, trackPhase, built, error>>
    BY DEF Track!Fetched
  <1>2. ~b.cancelled /\ b \in Builds
    BY <1>1 DEF TrackInv, BuildIsSelected, TrackTypes
  <1>3. c \in Builds /\ c.stage = "create" /\ ~c.cancelled /\ c.car = b.car
    BY <1>2 DEF Builds
  <1>4. Track!selected' = Track!selected
    BY <1>1 DEF Track!selected, Track!SelectedOf
  <1> HIDE DEF c
  <1>5. TrackTypes' /\ LapIsDriven'
    BY <1>1, <1>3 DEF TrackInv, TrackTypes, LapIsDriven
  <1>6. BuildIsSelected'
    BY <1>1, <1>2, <1>3, <1>4 DEF TrackInv, BuildIsSelected
  <1>7. Track!SceneIsSelected'
    BY <1>1, <1>3 DEF Track!SceneIsSelected
  <1> QED
    BY <1>5, <1>6, <1>7 DEF TrackInv

LEMMA CreatedInv ==
    ASSUME TrackInv, NEW b \in builds, Track!Created(b) PROVE TrackInv'
  <1> DEFINE s == [car |-> b.car, lap |-> Track!initialLapState, at |-> "start",
                   orbited |-> FALSE, passed |-> FALSE]
  <1>1. /\ b.stage = "create" /\ builds' = builds \ {b}
        /\ scene' = IF b.cancelled THEN scene ELSE s
        /\ UNCHANGED <<override, carsOwned, chosen, trackPhase, built, error>>
    BY DEF Track!Created, Track!Unwanted
  <1>2. b \in Builds
    BY DEF TrackInv, TrackTypes
  <1>3. /\ s \in TrackScenes /\ s.car = b.car /\ s.lap = Track!initialLapState
        /\ s # Track!NoScene
    BY <1>2, FreshLaps DEF TrackScenes, Builds, Track!NoScene
  <1>4. Track!selected' = Track!selected
    BY <1>1 DEF Track!selected, Track!SelectedOf
  <1> HIDE DEF s
  <1>5. CASE b.cancelled
    BY <1>1, <1>4, <1>5
    DEF TrackInv, TrackTypes, LapIsDriven, BuildIsSelected, Track!SceneIsSelected
  <1>6. CASE ~b.cancelled
    <2>1. trackPhase = "racing" /\ b.car = Track!selected
      BY <1>6 DEF TrackInv, BuildIsSelected
    <2>2. TrackTypes' /\ LapIsDriven'
      BY <1>1, <1>3, <1>6, FreshLaps DEF TrackInv, TrackTypes, LapIsDriven
    <2>3. BuildIsSelected'
      BY <1>1, <1>4, <1>6, <2>1 DEF TrackInv, BuildIsSelected
    <2>4. Track!SceneIsSelected'
      BY <1>1, <1>3, <1>4, <1>6, <2>1 DEF Track!SceneIsSelected
    <2> QED
      BY <2>2, <2>3, <2>4 DEF TrackInv
  <1> QED
    BY <1>2, <1>5, <1>6 DEF Builds

LEMMA BuildFailsInv ==
    ASSUME TrackInv, NEW b \in builds, Track!BuildFails(b) PROVE TrackInv'
  <1>1. /\ builds' = builds \ {b} /\ (b.cancelled => UNCHANGED error)
        /\ (~b.cancelled => error' = TRUE)
        /\ UNCHANGED <<override, carsOwned, chosen, trackPhase, built, scene>>
    BY DEF Track!BuildFails
  <1>2. Track!selected' = Track!selected
    BY <1>1 DEF Track!selected, Track!SelectedOf
  <1>3. TrackTypes' /\ LapIsDriven' /\ BuildIsSelected'
    <2>1. error' \in BOOLEAN
      BY <1>1 DEF TrackInv, TrackTypes
    <2> QED
      BY <1>1, <1>2, <2>1 DEF TrackInv, TrackTypes, LapIsDriven, BuildIsSelected
  <1>4. Track!SceneIsSelected'
    <2>1. CASE b.cancelled
      BY <1>1, <1>2, <2>1 DEF TrackInv, Track!SceneIsSelected
    <2>2. CASE ~b.cancelled
      BY <1>1, <1>2, <2>2 DEF TrackInv, BuildIsSelected, Track!SceneIsSelected
    <2> QED
      BY <2>1, <2>2
  <1> QED
    BY <1>3, <1>4 DEF TrackInv

LEMMA TrackStepInv == TrackInv /\ Track!Step => TrackInv'
  <1> SUFFICES ASSUME TrackInv, Track!Step PROVE TrackInv'
    OBVIOUS
  <1>0. override \in BOOLEAN /\ carsOwned \subseteq Cars
    BY DEF TrackInv, TrackTypes
  <1>1. ASSUME NEW cars \in SUBSET Cars, Track!Found(cars) PROVE TrackInv'
    <2>1. /\ carsOwned' = cars /\ UNCHANGED <<override, chosen, trackPhase, scene>>
          /\ Track!Effects(Track!SelectedOf(cars, chosen), trackPhase)
      BY <1>1 DEF Track!Found
    <2>2. override => cars # {}
      BY <1>1 DEF Track!Found
    <2>3. Track!SelectedOf(cars, chosen) \in Track!AllCars
      BY <1>0, <2>2, SelectedIsCar
    <2>4. Track!selected' = Track!SelectedOf(cars, chosen)
      BY <2>1 DEF Track!selected, Track!SelectedOf
    <2>5. trackPhase \in {"garage", "racing"} /\ chosen' \in Track!AllCars \cup {NoCar}
      BY <2>1 DEF TrackInv, TrackTypes
    <2>6. trackPhase = "garage" => ~override /\ scene' = Track!NoScene
      BY <2>1 DEF TrackInv, BuildIsSelected
    <2> QED
      BY <2>1, <2>3, <2>4, <2>5, <2>6, EffectsInv
  <1>2. ASSUME NEW car \in carsOwned \cup {DefaultCar}, Track!handleDrive(car) PROVE TrackInv'
    <2>1. /\ trackPhase = "garage" /\ chosen' = car /\ trackPhase' = "racing"
          /\ UNCHANGED <<override, carsOwned, scene>>
          /\ Track!Effects(Track!SelectedOf(carsOwned, car), "racing")
      BY <1>2 DEF Track!handleDrive
    <2>2. ~override
      BY <2>1 DEF TrackInv, BuildIsSelected
    <2>3. Track!SelectedOf(carsOwned, car) \in Track!AllCars
      BY <1>0, <2>2, SelectedIsCar
    <2>4. Track!selected' = Track!SelectedOf(carsOwned, car)
      BY <2>1 DEF Track!selected, Track!SelectedOf
    <2>5. chosen' \in Track!AllCars
      BY <1>0, <2>1 DEF Track!AllCars
    <2> QED
      BY <1>0, <2>1, <2>3, <2>4, <2>5, EffectsInv
  <1>3. CASE Track!handleChangeCar
    <2>1. /\ trackPhase = "racing" /\ ~override /\ scene' = Track!NoScene
          /\ trackPhase' = "garage" /\ UNCHANGED <<override, carsOwned, chosen>>
          /\ Track!Effects(Track!selected, "garage")
      BY <1>3 DEF Track!handleChangeCar
    <2>2. Track!selected \in Track!AllCars
      BY <1>0, <2>1, SelectedIsCar DEF Track!selected
    <2>3. Track!selected' = Track!selected
      BY <2>1 DEF Track!selected, Track!SelectedOf
    <2> QED
      BY <1>0, <2>1, <2>2, <2>3, EffectsInv DEF TrackInv, TrackTypes
  <1>4. ASSUME NEW to \in DOMAIN Track!Beside, NEW ms \in 1..MaxLap, Track!Drive(to, ms)
        PROVE  TrackInv'
    BY <1>4, DriveInv DEF Track!Beside
  <1>5. CASE Track!Throttle
    <2> DEFINE s == [scene EXCEPT !.passed = FALSE]
    <2>1. scene # Track!NoScene /\ scene \in TrackScenes /\ scene.lap.status = "waiting"
          /\ Track!Dispatch(s, Track!throttle(scene.lap))
      BY <1>5, SceneHasLap DEF Track!Throttle, Track!Driving, TrackInv
    <2>2. s \in TrackScenes /\ s.car = scene.car /\ scene.lap \in Track!LapStates
      BY <2>1 DEF TrackScenes
    <2>3. MaxLap \in Nat
      BY PagesAssumption DEF Track!TrackAssumption
    <2>4. /\ Track!throttle(scene.lap) \in Track!LapStates
          /\ Track!throttle(scene.lap).status = "running"
          /\ ~Track!throttle(scene.lap).checkpoint
      BY <2>1, <2>2 DEF Track!throttle, Track!LapStates, TrackInv, LapIsDriven
    <2> HIDE DEF s
    <2>5. /\ scene' = [s EXCEPT !.lap = Track!throttle(scene.lap)] /\ scene' \in TrackScenes
          /\ UNCHANGED <<override, carsOwned, chosen, trackPhase, builds, built, error>>
      BY <2>1, <2>2, <2>4, DispatchScene
    <2>6. scene'.car = scene.car /\ scene'.lap = Track!throttle(scene.lap)
      BY <2>2, <2>5 DEF TrackScenes
    <2> QED
      BY <2>1, <2>4, <2>5, <2>6, LapStep
  <1>6. CASE Track!IntroSkip
    <2>1. scene # Track!NoScene /\ scene \in TrackScenes /\ scene.lap.status = "intro"
          /\ Track!Dispatch(scene, Track!introOver(scene.lap))
      BY <1>6, SceneHasLap DEF Track!IntroSkip, TrackInv
    <2>2. Track!introOver(scene.lap) = Track!waitingLapState
      BY <2>1 DEF Track!introOver
    <2>3. /\ scene' = [scene EXCEPT !.lap = Track!waitingLapState] /\ scene' \in TrackScenes
          /\ UNCHANGED <<override, carsOwned, chosen, trackPhase, builds, built, error>>
      BY <2>1, <2>2, FreshLaps, DispatchScene
    <2>4. scene'.car = scene.car /\ scene'.lap = Track!waitingLapState
      BY <2>1, <2>3 DEF TrackScenes
    <2> QED
      BY <2>1, <2>3, <2>4, FreshLaps, LapStep
  <1>7. CASE Track!OrbitComplete
    <2>1. /\ scene # Track!NoScene /\ scene \in TrackScenes
          /\ scene' = [scene EXCEPT !.orbited = TRUE]
          /\ UNCHANGED <<override, carsOwned, chosen, trackPhase, builds, built, error>>
      BY <1>7, SceneHasLap DEF Track!OrbitComplete, TrackInv
    <2>2. /\ scene' \in TrackScenes /\ scene'.car = scene.car /\ scene'.lap = scene.lap
          /\ scene'.passed = scene.passed
      BY <2>1 DEF TrackScenes
    <2> QED
      BY <2>1, <2>2, LapStep DEF TrackInv, LapIsDriven
  <1>8. CASE Track!handleRetry
    <2> DEFINE s == [[scene EXCEPT !.at = "start"] EXCEPT !.lap = Track!waitingLapState]
    <2>1. /\ scene # Track!NoScene /\ scene \in TrackScenes /\ scene' = s
          /\ UNCHANGED <<override, carsOwned, chosen, trackPhase, builds, built, error>>
      BY <1>8, SceneHasLap DEF Track!handleRetry, Track!Tell, TrackInv
    <2>2. s \in TrackScenes /\ s.car = scene.car /\ s.lap = Track!waitingLapState
      BY <2>1, FreshLaps DEF TrackScenes
    <2> HIDE DEF s
    <2> QED
      BY <2>1, <2>2, FreshLaps, LapStep
  <1>9. CASE Track!Tick
    <2>1. UNCHANGED <<override, carsOwned, chosen, trackPhase, builds, built, error, scene>>
      BY <1>9 DEF Track!Tick
    <2>2. scene # Track!NoScene /\ scene \in TrackScenes
      BY <1>9, SceneHasLap DEF Track!Tick, Track!Driving, TrackInv
    <2> QED
      BY <2>1, <2>2, LapStep DEF TrackInv, LapIsDriven
  <1> QED
    BY <1>1, <1>2, <1>3, <1>4, <1>5, <1>6, <1>7, <1>8, <1>9, FetchedInv, CreatedInv, BuildFailsInv
    DEF Track!Step

LEMMA TrackNextInv == TrackInv /\ [PagesNext]_pagesVars => TrackInv'
  <1> SUFFICES ASSUME TrackInv, [Track!Next]_(Track!vars) PROVE TrackInv'
    BY PageSteps
  <1>1. ASSUME UNCHANGED <<override, carsOwned, chosen, trackPhase, builds, built, error, scene>>
        PROVE  TrackInv'
    BY <1>1 DEF TrackInv, TrackTypes, LapIsDriven, BuildIsSelected, Track!SceneIsSelected,
                Track!selected, Track!SelectedOf
  <1>2. CASE Track!CountdownEnds
    <2>1. CASE scene # Track!NoScene
      <3>1. scene \in TrackScenes /\ Track!Dispatch(scene, Track!introOver(scene.lap))
        BY <1>2, <2>1, SceneHasLap DEF Track!CountdownEnds, TrackInv
      <3>2. scene.lap \in Track!LapStates
        BY <3>1 DEF TrackScenes
      <3>3. Track!introOver(scene.lap) = Track!waitingLapState \/ Track!introOver(scene.lap) = scene.lap
        BY DEF Track!introOver
      <3>4. Track!introOver(scene.lap) \in Track!LapStates
        BY <3>2, <3>3, FreshLaps
      <3>5. /\ scene' = [scene EXCEPT !.lap = Track!introOver(scene.lap)] /\ scene' \in TrackScenes
            /\ UNCHANGED <<override, carsOwned, chosen, trackPhase, builds, built, error>>
        BY <3>1, <3>4, DispatchScene
      <3>6. /\ scene'.car = scene.car /\ scene'.lap = Track!introOver(scene.lap)
            /\ scene'.passed = scene.passed
        BY <3>1, <3>5 DEF TrackScenes
      <3> QED
        BY <2>1, <3>1, <3>3, <3>5, <3>6, FreshLaps, LapStep DEF TrackInv, LapIsDriven
    <2>2. CASE scene = Track!NoScene
      BY <1>1, <1>2, <2>2 DEF Track!CountdownEnds
    <2> QED
      BY <2>1, <2>2
  <1>3. CASE UNCHANGED Track!vars
    BY <1>1, <1>3 DEF Track!vars
  <1> QED
    BY <1>2, <1>3, TrackStepInv DEF Track!Next

(* A lap that counts went through the checkpoint after its throttle.         *)
THEOREM LapsAreDriven == PagesSpec => []FinishedLapIsALap
  <1>1. TrackInv => FinishedLapIsALap
    BY DEF TrackInv, LapIsDriven, FinishedLapIsALap, Track!FinishedLapIsALap
  <1> QED
    BY <1>1, TrackInitInv, TrackNextInv, PTL DEF PagesSpec

-----------------------------------------------------------------------------
(* The 3D viewers.                                                         *)

ViewLoads == [token : Nat, of : Glbs, scene : Nat \ {0}, cancelled : BOOLEAN]

ViewTypes ==
    /\ viewKind \in {"preview", "tagging"}
    /\ viewUp \in BOOLEAN /\ wanted \in BOOLEAN /\ mounted \in BOOLEAN /\ isDisposed \in BOOLEAN
    /\ meshLoaded \in BOOLEAN /\ failed \in BOOLEAN
    /\ viewGlb \in Glbs \cup {None} /\ viewScene \in Nat /\ scenes \in Nat /\ token \in Nat
    /\ viewLoads \subseteq ViewLoads

(* There is a scene exactly while the viewer is mounted, and the flag that *)
(* disposes late loads is never behind what the page asked for.            *)
SceneIsMounted ==
    /\ isDisposed = ~wanted
    /\ viewUp => (mounted <=> viewScene # 0)

(* A load no cleanup cancelled is for this GLB and this scene.             *)
LoadsAreCurrent ==
    \A l \in viewLoads :
        ~l.cancelled => l.token = token /\ l.of = viewGlb /\ l.scene = viewScene /\ viewUp

(* What restores the look of a mesh is how it was authored.                *)
BaselineIsAuthored ==
    shown # Viewer!Nothing => snapshot = [i \in Parts |-> Viewer!Authored]

ViewInv ==
    /\ ViewTypes /\ SceneIsMounted /\ LoadsAreCurrent /\ BaselineIsAuthored
    /\ Viewer!ViewIsCurrent /\ Viewer!LookIsCurrent

LEMMA ViewInitInv == PagesInit => ViewInv
  <1> SUFFICES ASSUME PagesInit PROVE ViewInv
    OBVIOUS
  <1>1. /\ viewKind \in {"preview", "tagging"} /\ viewUp = TRUE /\ viewGlb = None
        /\ wanted = TRUE /\ mounted = TRUE /\ isDisposed = FALSE
        /\ viewScene = 1 /\ scenes = 1 /\ viewLoads = {} /\ token = 0
        /\ shown = Viewer!Nothing /\ meshLoaded = FALSE /\ failed = FALSE
    BY DEF PagesInit, Viewer!Init
  <1>2. ViewTypes
    BY <1>1 DEF ViewTypes
  <1>3. SceneIsMounted
    <2>1. viewScene # 0
      BY <1>1
    <2>2. isDisposed = ~wanted
      BY <1>1, Zenon
    <2>3. mounted <=> viewScene # 0
      BY <1>1, <2>1, Zenon
    <2> QED
      BY <2>2, <2>3, Zenon DEF SceneIsMounted
  <1>4. LoadsAreCurrent /\ BaselineIsAuthored
    BY <1>1 DEF LoadsAreCurrent, BaselineIsAuthored
  <1>5. Viewer!ViewIsCurrent /\ Viewer!LookIsCurrent
    BY <1>1 DEF Viewer!ViewIsCurrent, Viewer!LookIsCurrent, Viewer!Settled
  <1> QED
    BY <1>2, <1>3, <1>4, <1>5 DEF ViewInv

(* What the load effect leaves: every earlier load cancelled, and one for  *)
(* the new GLB in the new scene when there are both.                       *)
LEMMA LoadEffectLeaves ==
    ASSUME viewLoads \subseteq ViewLoads, token \in Nat,
           NEW g \in Glbs \cup {None}, NEW s \in Nat, Viewer!LoadEffect(g, s)
    PROVE  /\ viewLoads' \subseteq ViewLoads /\ token' \in Nat
           /\ \A l \in viewLoads' : ~l.cancelled => l.token = token' /\ l.of = g /\ l.scene = s
           /\ \/ g = None \/ s = 0
              \/ \E l \in viewLoads' : ~l.cancelled
           /\ \/ UNCHANGED <<meshLoaded, failed>>
              \/ meshLoaded' = FALSE /\ failed' = FALSE
           /\ s = 0 => \A l \in viewLoads' : l.cancelled
  <1>1. Viewer!Cancelled \subseteq {l \in ViewLoads : l.cancelled}
    BY DEF Viewer!Cancelled, ViewLoads
  <1>2. CASE g = None \/ s = 0
    BY <1>1, <1>2 DEF Viewer!LoadEffect
  <1>3. CASE ~(g = None \/ s = 0)
    <2> DEFINE n == [token |-> token', of |-> g, scene |-> s, cancelled |-> FALSE]
    <2>1. token' = token + 1 /\ viewLoads' = Viewer!Cancelled \cup {n}
          /\ meshLoaded' = FALSE /\ failed' = FALSE
      BY <1>3 DEF Viewer!LoadEffect
    <2>2. n \in ViewLoads /\ ~n.cancelled /\ n.token = token' /\ n.of = g /\ n.scene = s
      BY <1>3, <2>1 DEF ViewLoads
    <2> HIDE DEF n
    <2> QED
      BY <1>1, <1>3, <2>1, <2>2
  <1> QED
    BY <1>2, <1>3

LEMMA RestyleInv ==
    ASSUME ViewInv, NEW m \in Viewer!Modes, NEW hl \in SUBSET Parts, NEW colors \in SUBSET Parts,
           Viewer!Restyle(m, hl, colors)
    PROVE  ViewInv'
  <1>1. /\ viewMode' = m /\ solo' = hl /\ painted' = colors
        /\ UNCHANGED <<viewKind, viewUp, viewGlb, wanted, mounted, isDisposed, viewScene, scenes,
                       viewLoads, token, shown, told, meshLoaded, failed>>
    BY DEF Viewer!Restyle
  <1>2. ViewTypes' /\ SceneIsMounted' /\ LoadsAreCurrent' /\ Viewer!ViewIsCurrent'
    BY <1>1 DEF ViewInv, ViewTypes, SceneIsMounted, LoadsAreCurrent, Viewer!ViewIsCurrent, Viewer!Settled
  <1>3. BaselineIsAuthored' /\ Viewer!LookIsCurrent'
    <2>1. CASE shown = Viewer!Nothing
      BY <1>1, <2>1 DEF BaselineIsAuthored, Viewer!LookIsCurrent
    <2>2. CASE shown # Viewer!Nothing
      <3>1. snapshot' = Viewer!Baseline(material, snapshot)
            /\ material' = Viewer!Overlay(snapshot', m, hl, colors)
        BY <2>2 DEF Viewer!Restyle, Viewer!ApplyCanvasMode
      <3>2. snapshot = [i \in Parts |-> Viewer!Authored]
        BY <2>2 DEF ViewInv, BaselineIsAuthored
      <3>3. Viewer!Authored # Viewer!NoSnapshot
        BY DEF Viewer!Authored, Viewer!NoSnapshot
      <3>4. snapshot' = [i \in Parts |-> Viewer!Authored]
        BY <3>1, <3>2, <3>3 DEF Viewer!Baseline
      <3> QED
        BY <1>1, <3>1, <3>4 DEF BaselineIsAuthored, Viewer!LookIsCurrent
    <2> QED
      BY <2>1, <2>2
  <1> QED
    BY <1>2, <1>3 DEF ViewInv
LEMMA SetGlbInv ==
    ASSUME ViewInv, NEW g \in Glbs \cup {None}, Viewer!SetGlb(g) PROVE ViewInv'
  <1>1. /\ viewUp /\ viewGlb' = g /\ Viewer!LoadEffect(g, viewScene)
        /\ UNCHANGED <<viewKind, viewUp, wanted, mounted, isDisposed, viewScene, scenes, shown, told>>
        /\ UNCHANGED <<viewMode, solo, painted, material, snapshot>>
    BY DEF Viewer!SetGlb, Viewer!styleVars, Viewer!meshVars
  <1>2. /\ viewLoads' \subseteq ViewLoads /\ token' \in Nat
        /\ \A l \in viewLoads' : ~l.cancelled => l.token = token' /\ l.of = g /\ l.scene = viewScene
        /\ g = None \/ viewScene = 0 \/ \E l \in viewLoads' : ~l.cancelled
        /\ UNCHANGED <<meshLoaded, failed>> \/ (meshLoaded' = FALSE /\ failed' = FALSE)
    BY <1>1, LoadEffectLeaves DEF ViewInv, ViewTypes
  <1>3. ViewTypes'
    BY <1>1, <1>2 DEF ViewInv, ViewTypes
  <1>4. SceneIsMounted' /\ LoadsAreCurrent'
    BY <1>1, <1>2 DEF ViewInv, SceneIsMounted, LoadsAreCurrent
  <1>5. BaselineIsAuthored' /\ Viewer!LookIsCurrent'
    BY <1>1 DEF ViewInv, BaselineIsAuthored, Viewer!LookIsCurrent
  <1>6. ~Viewer!Settled'
    BY <1>1, <1>2 DEF ViewInv, SceneIsMounted, Viewer!Settled
  <1>7. Viewer!ViewIsCurrent'
    BY <1>1, <1>6 DEF ViewInv, Viewer!ViewIsCurrent
  <1> QED
    BY <1>3, <1>4, <1>5, <1>7 DEF ViewInv

LEMMA DisposeInv == ASSUME ViewInv, Viewer!dispose \/ Viewer!remount PROVE ViewInv'
  <1>1. /\ isDisposed' = ~wanted' /\ wanted' \in BOOLEAN /\ ~(mounted /\ wanted')
        /\ UNCHANGED <<viewKind, viewUp, viewGlb, mounted, viewScene, scenes, viewLoads, token,
                       shown, told, meshLoaded, failed>>
        /\ UNCHANGED <<viewMode, solo, painted, material, snapshot>>
    BY DEF Viewer!dispose, Viewer!remount, Viewer!styleVars, Viewer!meshVars
  <1>2. ViewTypes' /\ SceneIsMounted' /\ LoadsAreCurrent'
    BY <1>1 DEF ViewInv, ViewTypes, SceneIsMounted, LoadsAreCurrent
  <1>3. BaselineIsAuthored' /\ Viewer!LookIsCurrent'
    BY <1>1 DEF ViewInv, BaselineIsAuthored, Viewer!LookIsCurrent
  <1>4. Viewer!ViewIsCurrent'
    BY <1>1 DEF ViewInv, Viewer!ViewIsCurrent, Viewer!Settled
  <1> QED
    BY <1>2, <1>3, <1>4 DEF ViewInv

LEMMA CommitInv == ASSUME ViewInv, Viewer!Commit PROVE ViewInv'
  <1>1. /\ viewUp /\ mounted' = wanted /\ shown' = Viewer!Nothing
        /\ Viewer!LoadEffect(viewGlb, viewScene')
        /\ UNCHANGED <<viewKind, viewUp, viewGlb, wanted, isDisposed, told>>
        /\ UNCHANGED <<viewMode, solo, painted, material, snapshot>>
    BY DEF Viewer!Commit, Viewer!styleVars, Viewer!meshVars
  <1>2. viewScene' \in Nat /\ scenes' \in Nat /\ (mounted' <=> viewScene' # 0)
    BY DEF Viewer!Commit, ViewInv, ViewTypes
  <1>3. /\ viewLoads' \subseteq ViewLoads /\ token' \in Nat
        /\ \A l \in viewLoads' : ~l.cancelled => l.token = token' /\ l.of = viewGlb /\ l.scene = viewScene'
        /\ viewGlb = None \/ viewScene' = 0 \/ \E l \in viewLoads' : ~l.cancelled
        /\ UNCHANGED <<meshLoaded, failed>> \/ (meshLoaded' = FALSE /\ failed' = FALSE)
    <2> DEFINE s == viewScene'
    <2>1. s \in Nat /\ Viewer!LoadEffect(viewGlb, s)
      BY <1>1, <1>2
    <2> HIDE DEF s
    <2>2. /\ viewLoads' \subseteq ViewLoads /\ token' \in Nat
          /\ \A l \in viewLoads' : ~l.cancelled => l.token = token' /\ l.of = viewGlb /\ l.scene = s
          /\ viewGlb = None \/ s = 0 \/ \E l \in viewLoads' : ~l.cancelled
          /\ UNCHANGED <<meshLoaded, failed>> \/ (meshLoaded' = FALSE /\ failed' = FALSE)
      BY <2>1, LoadEffectLeaves DEF ViewInv, ViewTypes
    <2> QED
      BY <2>2 DEF s
  <1>4. ViewTypes'
    BY <1>1, <1>2, <1>3 DEF ViewInv, ViewTypes
  <1>5. SceneIsMounted' /\ LoadsAreCurrent'
    BY <1>1, <1>2, <1>3 DEF ViewInv, SceneIsMounted, LoadsAreCurrent
  <1>6. ~Viewer!Settled' /\ shown' = Viewer!Nothing'
    BY <1>1, <1>2, <1>3 DEF Viewer!Settled, Viewer!Nothing
  <1>7. BaselineIsAuthored' /\ Viewer!LookIsCurrent' /\ Viewer!ViewIsCurrent'
    BY <1>6 DEF BaselineIsAuthored, Viewer!LookIsCurrent, Viewer!ViewIsCurrent
  <1> QED
    BY <1>4, <1>5, <1>7 DEF ViewInv

LEMMA ViewUnmountInv == ASSUME ViewInv, Viewer!Unmount PROVE ViewInv'
  <1>1. /\ viewUp' = FALSE /\ viewScene' = 0 /\ shown' = Viewer!Nothing
        /\ viewLoads' = Viewer!Cancelled
        /\ UNCHANGED <<viewKind, viewGlb, wanted, mounted, isDisposed, scenes, token, told,
                       meshLoaded, failed>>
    BY DEF Viewer!Unmount
  <1>2. Viewer!Cancelled \subseteq {l \in ViewLoads : l.cancelled}
    BY DEF Viewer!Cancelled, ViewLoads, ViewInv, ViewTypes
  <1>3. ViewTypes'
    BY <1>1, <1>2 DEF ViewInv, ViewTypes
  <1>4. SceneIsMounted' /\ LoadsAreCurrent'
    BY <1>1, <1>2 DEF ViewInv, SceneIsMounted, LoadsAreCurrent
  <1>5. BaselineIsAuthored' /\ Viewer!LookIsCurrent' /\ Viewer!ViewIsCurrent'
    BY <1>1 DEF BaselineIsAuthored, Viewer!LookIsCurrent, Viewer!ViewIsCurrent, Viewer!Settled,
                Viewer!Nothing
  <1> QED
    BY <1>3, <1>4, <1>5 DEF ViewInv

(* A load that is not superseded is the one for this GLB and scene, and    *)
(* one that is superseded was cancelled or comes between the disposal the  *)
(* page asked for and its commit.                                          *)
LEMMA ViewLoadedInv == ASSUME ViewInv, NEW l \in viewLoads, Viewer!Loaded(l) PROVE ViewInv'
  <1>1. /\ viewLoads' = viewLoads \ {l}
        /\ UNCHANGED <<viewKind, viewUp, viewGlb, wanted, mounted, isDisposed, viewScene, scenes,
                       token, failed>>
        /\ UNCHANGED <<viewMode, solo, painted>>
    BY DEF Viewer!Loaded, Viewer!styleVars
  <1>2. l \in ViewLoads
    BY DEF ViewInv, ViewTypes
  <1>3. SceneIsMounted' /\ LoadsAreCurrent'
    BY <1>1 DEF ViewInv, SceneIsMounted, LoadsAreCurrent
  <1>4. CASE Viewer!Superseded(l)
    <2>1. UNCHANGED <<shown, told, meshLoaded, material, snapshot>>
      BY <1>4 DEF Viewer!Loaded, Viewer!meshVars
    <2>2. l.cancelled \/ ~wanted
      BY <1>4 DEF ViewInv, LoadsAreCurrent, SceneIsMounted, Viewer!Superseded
    <2>3. Viewer!Settled' => Viewer!Settled
      BY <1>1, <2>2 DEF Viewer!Settled
    <2>4. ViewTypes' /\ BaselineIsAuthored' /\ Viewer!LookIsCurrent'
      BY <1>1, <2>1 DEF ViewInv, ViewTypes, BaselineIsAuthored, Viewer!LookIsCurrent
    <2>5. Viewer!ViewIsCurrent'
      BY <1>1, <2>1, <2>3 DEF ViewInv, Viewer!ViewIsCurrent
    <2> QED
      BY <1>3, <2>4, <2>5 DEF ViewInv
  <1>5. CASE ~Viewer!Superseded(l)
    <2>1. /\ shown' = [of |-> l.of, scene |-> l.scene] /\ meshLoaded' = TRUE
          /\ told' = (IF viewKind = "tagging" THEN l.of ELSE told)
          /\ Viewer!ApplyCanvasMode([i \in Parts |-> Viewer!Authored],
                                    [i \in Parts |-> Viewer!NoSnapshot], viewMode, solo, painted)
      BY <1>5 DEF Viewer!Loaded
    <2>2. l.of = viewGlb /\ l.scene = viewScene /\ viewScene # 0
      BY <1>2, <1>5 DEF ViewInv, LoadsAreCurrent, Viewer!Superseded, ViewLoads
    <2>3. snapshot' = [i \in Parts |-> Viewer!Authored]
      BY <2>1 DEF Viewer!ApplyCanvasMode, Viewer!Baseline
    <2>4. material' = Viewer!Overlay(snapshot', viewMode, solo, painted)
      BY <2>1 DEF Viewer!ApplyCanvasMode
    <2>5. ViewTypes'
      BY <1>1, <2>1 DEF ViewInv, ViewTypes
    <2>6. BaselineIsAuthored' /\ Viewer!LookIsCurrent'
      BY <1>1, <2>3, <2>4 DEF BaselineIsAuthored, Viewer!LookIsCurrent
    <2>7. shown'.of = viewGlb' /\ shown'.scene = viewScene' /\ viewScene' # 0
          /\ meshLoaded' /\ (viewKind' = "tagging" => told' = viewGlb')
      BY <1>1, <2>1, <2>2
    <2>8. Viewer!ViewIsCurrent'
      BY <2>7 DEF Viewer!ViewIsCurrent
    <2> QED
      BY <1>3, <2>5, <2>6, <2>8 DEF ViewInv
  <1> QED
    BY <1>4, <1>5

LEMMA ViewLoadFailsInv == ASSUME ViewInv, NEW l \in viewLoads, Viewer!LoadFails(l) PROVE ViewInv'
  <1>1. /\ viewLoads' = viewLoads \ {l}
        /\ UNCHANGED <<viewKind, viewUp, viewGlb, wanted, mounted, isDisposed, viewScene, scenes,
                       token, shown, told>>
        /\ UNCHANGED <<viewMode, solo, painted, material, snapshot>>
    BY DEF Viewer!LoadFails, Viewer!styleVars, Viewer!meshVars
  <1>2. \/ l.cancelled /\ UNCHANGED <<meshLoaded, failed>>
        \/ /\ failed' = TRUE
           /\ meshLoaded' = (meshLoaded \/ (viewKind = "preview" /\ ~isDisposed))
    BY DEF Viewer!LoadFails, ViewInv, LoadsAreCurrent
  <1>3. meshLoaded' \in BOOLEAN /\ failed' \in BOOLEAN
    BY <1>2 DEF ViewInv, ViewTypes
  <1>4. ViewTypes'
    BY <1>1, <1>3 DEF ViewInv, ViewTypes
  <1>5. SceneIsMounted' /\ LoadsAreCurrent' /\ BaselineIsAuthored' /\ Viewer!LookIsCurrent'
    BY <1>1 DEF ViewInv, SceneIsMounted, LoadsAreCurrent, BaselineIsAuthored, Viewer!LookIsCurrent
  <1>6. Viewer!ViewIsCurrent'
    <2>1. CASE l.cancelled /\ UNCHANGED <<meshLoaded, failed>>
      BY <1>1, <2>1 DEF ViewInv, Viewer!ViewIsCurrent, Viewer!Settled
    <2>2. CASE /\ failed' = TRUE
               /\ meshLoaded' = (meshLoaded \/ (viewKind = "preview" /\ ~isDisposed))
      <3>1. Viewer!Settled' /\ viewKind' = "preview" => meshLoaded'
        BY <1>1, <2>2 DEF ViewInv, SceneIsMounted, Viewer!Settled
      <3> QED
        BY <1>1, <2>2, <3>1 DEF ViewInv, Viewer!ViewIsCurrent
    <2> QED
      BY <1>2, <2>1, <2>2
  <1> QED
    BY <1>4, <1>5, <1>6 DEF ViewInv

LEMMA ViewStepInv == ViewInv /\ [Viewer!Next]_(Viewer!vars) => ViewInv'
  <1> SUFFICES ASSUME ViewInv, [Viewer!Next]_(Viewer!vars) PROVE ViewInv'
    OBVIOUS
  <1>1. CASE UNCHANGED Viewer!vars
    BY <1>1
    DEF Viewer!vars, ViewInv, ViewTypes, SceneIsMounted, LoadsAreCurrent, BaselineIsAuthored,
        Viewer!ViewIsCurrent, Viewer!LookIsCurrent, Viewer!Settled
  <1>2. CASE Viewer!Next
    BY <1>2, RestyleInv, SetGlbInv, DisposeInv, CommitInv, ViewUnmountInv, ViewLoadedInv,
       ViewLoadFailsInv
    DEF Viewer!Next
  <1> QED
    BY <1>1, <1>2

LEMMA ViewsStayCurrent == PagesSpec => []ViewInv
  <1>1. ViewInv /\ [PagesNext]_pagesVars => ViewInv'
    BY PageSteps, ViewStepInv
  <1> QED
    BY <1>1, ViewInitInv, PTL DEF PagesSpec

-----------------------------------------------------------------------------
(* The landing page's live scenes.                                         *)

LiveLoads == [scene : Nat \ {0}, of : Nat, givenUp : BOOLEAN]

LiveTypes ==
    /\ liveKind \in {"hero", "dispose", "pause"}
    /\ liveUp \in BOOLEAN /\ isLive \in BOOLEAN /\ inView \in BOOLEAN
    /\ ready \in BOOLEAN /\ fetching \in BOOLEAN
    /\ liveScene \in Nat /\ liveScenes \in Nat /\ loops \in Nat /\ source \in Nat /\ created \in Nat
    /\ liveLoads \subseteq LiveLoads

(* There is a scene only on a live page, and only the hero of a live page  *)
(* fetches; the one blob URL alive is its source.                          *)
OnlyLiveWorks ==
    /\ liveScene # 0 => liveUp /\ isLive
    /\ fetching => Live!hero /\ liveUp /\ isLive
    /\ urls # {} => Live!hero /\ isLive
    /\ urls \subseteq {source} \ {Live!NoSource, Live!Embedded}

(* What is shown is in the live scene; a well is never ready without one,  *)
(* the hero only while it is static.                                       *)
ShownIsLive ==
    /\ container # Live!Nothing => container.scene = liveScene /\ liveScene # 0
    /\ liveUp /\ ready /\ (isLive \/ ~Live!hero) => liveScene # 0 /\ container # Live!Nothing
    /\ decorated \subseteq {liveScene}

LiveInv == LiveTypes /\ OnlyLiveWorks /\ ShownIsLive /\ Live!NothingIsWasted

LEMMA GivenUpLoads == liveLoads \subseteq LiveLoads => Live!GivenUp \subseteq LiveLoads
  BY DEF Live!GivenUp, LiveLoads

LEMMA NewLoads ==
    ASSUME NEW s \in Nat, NEW of \in Nat PROVE Live!Load(s, of) \subseteq LiveLoads
  <1>1. CASE s = 0
    BY <1>1 DEF Live!Load
  <1>2. CASE s # 0
    <2>1. [scene |-> s, of |-> of, givenUp |-> FALSE] \in LiveLoads
      BY <1>2 DEF LiveLoads
    <2> QED
      BY <2>1 DEF Live!Load
  <1> QED
    BY <1>1, <1>2

LEMMA LiveInitInv == PagesInit => LiveInv
  <1> SUFFICES ASSUME PagesInit PROVE LiveInv
    OBVIOUS
  <1>1. Live!Init
    BY DEF PagesInit
  <1>2. LiveTypes
    BY <1>1 DEF Live!Init, Live!NoSource, Live!Embedded, LiveTypes
  <1>3. OnlyLiveWorks
    BY <1>1 DEF Live!Init, OnlyLiveWorks
  <1>4. ShownIsLive
    <2>1. container = Live!Nothing /\ ready = FALSE /\ decorated = {}
      BY <1>1 DEF Live!Init
    <2> QED
      BY <2>1 DEF ShownIsLive
  <1>5. Live!NothingIsWasted
    <2>1. loops = 0 /\ liveScene = 0 /\ urls = {}
      BY <1>1 DEF Live!Init
    <2> QED
      BY <2>1 DEF Live!NothingIsWasted
  <1> QED
    BY <1>2, <1>3, <1>4, <1>5 DEF LiveInv

LEMMA HeroLiveInv == ASSUME LiveInv, Live!HeroLive PROVE LiveInv'
  <1>1. /\ Live!hero /\ liveUp /\ ~isLive /\ isLive' = TRUE /\ fetching' = TRUE
        /\ liveLoads' = Live!GivenUp \cup Live!Load(liveScene', source)
        /\ liveScenes' = liveScenes + 1 /\ liveScene' = liveScenes'
        /\ loops' = (IF inView THEN 2 ELSE 0)
        /\ container' = Live!Nothing /\ ready' = FALSE /\ decorated' = {}
        /\ UNCHANGED <<liveKind, liveUp, inView, source, urls, created>>
    BY DEF Live!HeroLive, Live!Build
  <1>2. liveScene' \in Nat /\ liveScene' # 0 /\ liveScenes' \in Nat
    BY <1>1 DEF LiveInv, LiveTypes
  <1>3. liveLoads' \subseteq LiveLoads
    <2> DEFINE s == liveScene'
    <2>1. s \in Nat /\ liveLoads' = Live!GivenUp \cup Live!Load(s, source)
      BY <1>1, <1>2
    <2> HIDE DEF s
    <2> QED
      BY <2>1, NewLoads, GivenUpLoads DEF LiveInv, LiveTypes
  <1>4. LiveTypes'
    BY <1>1, <1>2, <1>3 DEF LiveInv, LiveTypes
  <1>5. OnlyLiveWorks'
    BY <1>1 DEF LiveInv, OnlyLiveWorks, Live!hero, Live!NoSource, Live!Embedded
  <1>6. ShownIsLive'
    BY <1>1 DEF ShownIsLive, Live!Nothing, Live!NoSource
  <1>7. Live!NothingIsWasted'
    BY <1>1 DEF LiveInv, LiveTypes, Live!NothingIsWasted, Live!hero
  <1> QED
    BY <1>4, <1>5, <1>6, <1>7 DEF LiveInv

LEMMA HeroStaticInv == ASSUME LiveInv, Live!HeroStatic PROVE LiveInv'
  <1>1. /\ Live!hero /\ isLive' = FALSE /\ fetching' = FALSE /\ liveLoads' = Live!GivenUp
        /\ urls' = Live!Revoked(Live!NoSource)
        /\ liveScene' = 0 /\ loops' = 0 /\ container' = Live!Nothing /\ decorated' = {}
        /\ UNCHANGED <<liveKind, liveUp, inView, liveScenes, ready, source, created>>
    BY DEF Live!HeroStatic, Live!Teardown
  <1>2. urls' = {}
    BY <1>1 DEF LiveInv, OnlyLiveWorks, Live!Revoked
  <1>3. LiveTypes'
    BY <1>1, GivenUpLoads DEF LiveInv, LiveTypes
  <1>4. OnlyLiveWorks' /\ ShownIsLive'
    BY <1>1, <1>2 DEF OnlyLiveWorks, ShownIsLive, Live!hero, Live!Nothing, Live!NoSource
  <1>5. Live!NothingIsWasted'
    BY <1>1, <1>2 DEF LiveInv, Live!NothingIsWasted, Live!hero
  <1> QED
    BY <1>3, <1>4, <1>5 DEF LiveInv

LEMMA HeroScrollInv == ASSUME LiveInv, Live!HeroScroll PROVE LiveInv'
  <1>1. /\ Live!hero /\ liveUp /\ inView' = ~inView
        /\ loops' = (IF liveScene # 0 /\ inView' THEN loops + 1 ELSE 0)
        /\ UNCHANGED <<liveKind, liveUp, isLive, liveScene, liveScenes, liveLoads, container, ready,
                       decorated, source, urls, created, fetching>>
    BY DEF Live!HeroScroll
  <1>2. inView' \in BOOLEAN
    BY <1>1, Zenon
  <1>3. LiveTypes'
    BY <1>1, <1>2 DEF LiveInv, LiveTypes
  <1>4. OnlyLiveWorks' /\ ShownIsLive'
    BY <1>1 DEF LiveInv, OnlyLiveWorks, ShownIsLive, Live!hero, Live!Nothing
  <1>5. Live!NothingIsWasted'
    BY <1>1 DEF LiveInv, Live!NothingIsWasted, Live!hero
  <1> QED
    BY <1>3, <1>4, <1>5 DEF LiveInv

LEMMA WellChangesInv ==
    ASSUME LiveInv, NEW live \in BOOLEAN, NEW seen \in BOOLEAN, Live!WellChanges(live, seen)
    PROVE  LiveInv'
  <1>1. /\ ~Live!hero /\ liveUp /\ <<live, seen>> # <<isLive, inView>>
        /\ isLive' = live /\ inView' = seen
        /\ UNCHANGED <<liveKind, liveUp, source, urls, created, fetching>>
    BY DEF Live!WellChanges
  <1>2. urls' = {} /\ ~fetching'
    BY <1>1 DEF LiveInv, OnlyLiveWorks
  <1>3. CASE ~live \/ (~seen /\ liveScene # 0 /\ liveKind = "dispose")
    <2>1. /\ liveScene' = 0 /\ loops' = 0 /\ container' = Live!Nothing /\ decorated' = {}
          /\ ready' = FALSE /\ liveLoads' = Live!GivenUp /\ UNCHANGED liveScenes
      BY <1>3 DEF Live!WellChanges, Live!Teardown
    <2>2. LiveTypes'
      BY <1>1, <2>1, GivenUpLoads DEF LiveInv, LiveTypes
    <2>3. OnlyLiveWorks' /\ ShownIsLive'
      BY <1>1, <1>2, <2>1 DEF OnlyLiveWorks, ShownIsLive, Live!hero, Live!Nothing
    <2>4. Live!NothingIsWasted'
      BY <1>1, <1>2, <2>1 DEF Live!NothingIsWasted, Live!hero
    <2> QED
      BY <2>2, <2>3, <2>4 DEF LiveInv
  <1>4. CASE live /\ seen /\ liveScene = 0
    <2>1. /\ liveScenes' = liveScenes + 1 /\ liveScene' = liveScenes' /\ loops' = 1
          /\ container' = Live!Nothing /\ ready' = FALSE /\ decorated' = {}
          /\ liveLoads' = liveLoads \cup Live!Load(liveScene', source)
      BY <1>4 DEF Live!WellChanges, Live!Build
    <2>2. liveScene' \in Nat /\ liveScenes' \in Nat
      BY <2>1 DEF LiveInv, LiveTypes
    <2>3. liveLoads' \subseteq LiveLoads
      <3> DEFINE s == liveScene'
      <3>1. s \in Nat /\ liveLoads' = liveLoads \cup Live!Load(s, source)
        BY <2>1, <2>2
      <3> HIDE DEF s
      <3> QED
        BY <3>1, NewLoads DEF LiveInv, LiveTypes
    <2>4. LiveTypes'
      BY <1>1, <2>1, <2>2, <2>3 DEF LiveInv, LiveTypes
    <2>5. OnlyLiveWorks' /\ ShownIsLive'
      BY <1>1, <1>2, <1>4, <2>1 DEF OnlyLiveWorks, ShownIsLive, Live!hero, Live!Nothing
    <2>6. Live!NothingIsWasted'
      BY <1>1, <1>2, <1>4, <2>1 DEF Live!NothingIsWasted, Live!hero
    <2> QED
      BY <2>4, <2>5, <2>6 DEF LiveInv
  <1>5. CASE live /\ seen /\ liveScene # 0
    <2>1. /\ loops' = loops + 1
          /\ UNCHANGED <<liveScene, liveScenes, container, ready, liveLoads, decorated>>
      BY <1>5 DEF Live!WellChanges
    <2>2. isLive /\ ~inView
      BY <1>1, <1>5 DEF LiveInv, LiveTypes, OnlyLiveWorks
    <2>3. loops' = 1
      BY <2>1, <2>2 DEF LiveInv, Live!NothingIsWasted
    <2>4. LiveTypes'
      BY <1>1, <2>1, <2>3 DEF LiveInv, LiveTypes
    <2>5. OnlyLiveWorks' /\ ShownIsLive'
      BY <1>1, <1>2, <1>5, <2>1 DEF LiveInv, OnlyLiveWorks, ShownIsLive, Live!hero, Live!Nothing
    <2>6. Live!NothingIsWasted'
      BY <1>1, <1>2, <1>5, <2>3 DEF LiveInv, Live!NothingIsWasted, Live!hero
    <2> QED
      BY <2>4, <2>5, <2>6 DEF LiveInv
  <1>6. CASE live /\ ~seen /\ ~(liveScene # 0 /\ liveKind = "dispose")
    <2>1. /\ loops' = 0
          /\ UNCHANGED <<liveScene, liveScenes, container, ready, liveLoads, decorated>>
      BY <1>6 DEF Live!WellChanges
    <2>2. LiveTypes'
      BY <1>1, <2>1 DEF LiveInv, LiveTypes
    <2>3. OnlyLiveWorks' /\ ShownIsLive'
      BY <1>1, <1>2, <1>6, <2>1 DEF LiveInv, OnlyLiveWorks, ShownIsLive, Live!hero, Live!Nothing
    <2>4. Live!NothingIsWasted'
      BY <1>1, <1>2, <1>6, <2>1 DEF LiveInv, Live!NothingIsWasted, Live!hero
    <2> QED
      BY <2>2, <2>3, <2>4 DEF LiveInv
  <1> QED
    BY <1>3, <1>4, <1>5, <1>6

LEMMA LiveUnmountInv == ASSUME LiveInv, Live!Unmount PROVE LiveInv'
  <1>1. /\ liveUp' = FALSE /\ fetching' = FALSE /\ liveLoads' = Live!GivenUp
        /\ urls' = (IF isLive THEN Live!Revoked(Live!NoSource) ELSE urls)
        /\ liveScene' = 0 /\ loops' = 0 /\ container' = Live!Nothing /\ decorated' = {}
        /\ UNCHANGED <<liveKind, isLive, inView, liveScenes, ready, source, created>>
    BY DEF Live!Unmount, Live!Teardown
  <1>2. urls' = {}
    BY <1>1 DEF LiveInv, OnlyLiveWorks, Live!Revoked
  <1>3. LiveTypes'
    BY <1>1, GivenUpLoads DEF LiveInv, LiveTypes
  <1>4. OnlyLiveWorks' /\ ShownIsLive'
    BY <1>1, <1>2 DEF OnlyLiveWorks, ShownIsLive, Live!hero, Live!Nothing, Live!NoSource
  <1>5. Live!NothingIsWasted'
    BY <1>1, <1>2 DEF LiveInv, Live!NothingIsWasted, Live!hero
  <1> QED
    BY <1>3, <1>4, <1>5 DEF LiveInv

(* The hero's next source: the blob URL of the last one is revoked.        *)
LEMMA SetSourceInv ==
    ASSUME LiveInv, fetching, NEW s \in Nat \ {0}, Live!SetSource(s), fetching' = FALSE, created' \in Nat,
           UNCHANGED <<liveKind, liveUp, isLive, inView, liveScene, liveScenes, loops, container,
                       ready, decorated>>
    PROVE  LiveInv'
  <1>1. source' = s /\ Live!hero /\ liveUp /\ isLive
    BY DEF Live!SetSource, LiveInv, OnlyLiveWorks
  <1>2. liveLoads' \subseteq LiveLoads
    BY NewLoads, GivenUpLoads DEF Live!SetSource, LiveInv, LiveTypes
  <1>3. urls' \subseteq {s} \ {Live!NoSource, Live!Embedded}
    BY <1>1 DEF Live!SetSource, Live!Revoked, LiveInv, OnlyLiveWorks, Live!NoSource, Live!Embedded
  <1>4. LiveTypes'
    BY <1>1, <1>2 DEF LiveInv, LiveTypes
  <1>5. OnlyLiveWorks' /\ ShownIsLive'
    BY <1>1, <1>3 DEF LiveInv, OnlyLiveWorks, ShownIsLive, Live!hero, Live!Nothing, Live!NoSource,
                      Live!Embedded
  <1>6. Live!NothingIsWasted'
    BY <1>1, <1>3 DEF LiveInv, Live!NothingIsWasted, Live!hero
  <1> QED
    BY <1>4, <1>5, <1>6 DEF LiveInv

LEMMA LiveLoadedInv ==
    ASSUME LiveInv, NEW l \in liveLoads, Live!Loaded(l) \/ Live!LoadFails(l) PROVE LiveInv'
  <1>1. /\ liveLoads' = liveLoads \ {l}
        /\ UNCHANGED <<liveKind, liveUp, isLive, inView, liveScene, liveScenes, loops, source, urls,
                       created, fetching>>
    BY DEF Live!Loaded, Live!LoadFails
  <1>2. OnlyLiveWorks' /\ Live!NothingIsWasted'
    BY <1>1 DEF LiveInv, OnlyLiveWorks, Live!NothingIsWasted, Live!hero, Live!NoSource, Live!Embedded
  <1>3. CASE UNCHANGED <<container, ready, decorated>>
    BY <1>1, <1>2, <1>3 DEF LiveInv, LiveTypes, ShownIsLive, Live!hero, Live!Nothing
  <1>4. CASE ~UNCHANGED <<container, ready, decorated>>
    <2>1. /\ l.scene = liveScene /\ container' = [of |-> l.of, scene |-> l.scene] /\ ready' = TRUE
          /\ decorated' = (IF Live!hero THEN {} ELSE decorated \cup {l.scene})
      BY <1>4 DEF Live!Loaded, Live!LoadFails, Live!Superseded
    <2>2. l.scene # 0
      BY DEF LiveInv, LiveTypes, LiveLoads
    <2>3. container' # Live!Nothing' /\ container'.scene = liveScene' /\ liveScene' # 0
      BY <1>1, <2>1, <2>2 DEF Live!Nothing
    <2>4. LiveTypes'
      BY <1>1, <2>1 DEF LiveInv, LiveTypes
    <2>5. ShownIsLive'
      BY <1>1, <2>1, <2>3 DEF LiveInv, ShownIsLive
    <2> QED
      BY <1>2, <2>4, <2>5 DEF LiveInv
  <1> QED
    BY <1>3, <1>4

LEMMA LiveStepInv == LiveInv /\ [Live!Next]_(Live!vars) => LiveInv'
  <1> SUFFICES ASSUME LiveInv, [Live!Next]_(Live!vars) PROVE LiveInv'
    OBVIOUS
  <1>1. CASE UNCHANGED Live!vars
    BY <1>1
    DEF Live!vars, LiveInv, LiveTypes, OnlyLiveWorks, ShownIsLive, Live!NothingIsWasted, Live!hero,
        Live!Nothing
  <1>2. CASE Live!FetchBytes
    <2> DEFINE s == Live!Embedded + created'
    <2>1. /\ fetching /\ fetching' = FALSE /\ Live!SetSource(s)
          /\ created' \in Nat /\ s \in Nat \ {0}
          /\ UNCHANGED <<liveKind, liveUp, isLive, inView, liveScene, liveScenes, loops, container,
                         ready, decorated>>
      BY <1>2 DEF Live!FetchBytes, Live!Embedded, LiveInv, LiveTypes
    <2> HIDE DEF s
    <2> QED
      BY <2>1, SetSourceInv
  <1>3. CASE Live!FetchFails
    <2>1. /\ fetching /\ fetching' = FALSE /\ Live!SetSource(Live!Embedded)
          /\ created' \in Nat /\ Live!Embedded \in Nat \ {0}
          /\ UNCHANGED <<liveKind, liveUp, isLive, inView, liveScene, liveScenes, loops, container,
                         ready, decorated>>
      BY <1>3 DEF Live!FetchFails, Live!Embedded, LiveInv, LiveTypes
    <2> QED
      BY <2>1, SetSourceInv
  <1>4. CASE Live!Dwell
    BY <1>4
    DEF Live!Dwell, LiveInv, LiveTypes, OnlyLiveWorks, ShownIsLive, Live!NothingIsWasted, Live!hero,
        Live!Nothing
  <1> QED
    BY <1>1, <1>2, <1>3, <1>4, HeroLiveInv, HeroStaticInv, HeroScrollInv, WellChangesInv,
       LiveUnmountInv, LiveLoadedInv
    DEF Live!Next

LEMMA LiveScenesStay == PagesSpec => []LiveInv
  <1>1. LiveInv /\ [PagesNext]_pagesVars => LiveInv'
    BY PageSteps, LiveStepInv
  <1> QED
    BY <1>1, LiveInitInv, PTL DEF PagesSpec

(* Every 3D scene shows what its page selected last, in the look it asked  *)
(* for, and runs only while it can be seen: a late load is never added to  *)
(* a scene that is gone, whatever was disposed, remounted or scrolled away *)
(* while it was under way.                                                 *)
THEOREM ScenesStayCurrent == PagesSpec => []ScenesAreCurrent
  <1>1. TrackInv /\ ViewInv /\ LiveInv => ScenesAreCurrent
    <2>1. TrackInv => Track!SceneIsSelected
      BY DEF TrackInv
    <2>2. ViewInv => Viewer!ViewIsCurrent /\ Viewer!LookIsCurrent
      BY DEF ViewInv
    <2>3. LiveInv => Live!ModelIsLive /\ Live!NothingIsWasted
      BY DEF LiveInv, ShownIsLive, Live!ModelIsLive
    <2> QED
      BY <2>1, <2>2, <2>3 DEF ScenesAreCurrent
  <1>2. PagesSpec => []TrackInv
    BY TrackInitInv, TrackNextInv, PTL DEF PagesSpec
  <1> QED
    BY <1>1, <1>2, ViewsStayCurrent, LiveScenesStay, PTL

-----------------------------------------------------------------------------
(* The create page.                                                        *)

Policies == {"PERMISSIONLESS", "ALLOW_LIST", "RESTRICTED"}

Forms == [policy : Policies, named : BOOLEAN, fee : BOOLEAN]

Asks == [stage : {"none", "capturing", "sent", "failed"}, of : Nat, at : Nat, live : BOOLEAN]

Mints == [glb : Nat, labels : Nat, form : Forms, caption : [of : Nat, at : Nat],
          stage : {"stills", "uploading", "signing"}]

(* What may be published: the parts tagged on this mesh, and a whole form. *)
WholeMints ==
    {m \in Mints : /\ m.labels = m.glb /\ m.form.named
                   /\ m.form.fee = (m.form.policy = "ALLOW_LIST")}

MintTypes ==
    /\ glb \in Nat /\ labels \in {0, glb} /\ form \in Forms
    /\ caption \in [of : Nat, at : Nat] /\ ask \in Asks

(* An answer that still counts was asked for this model, and a fee is only *)
(* ever set under the policy that sells access.                            *)
MintInv ==
    /\ MintTypes
    /\ ask.stage = "sent" /\ ask.live => ask.at = glb
    /\ form.fee => form.policy = "ALLOW_LIST"
    /\ mints \subseteq WholeMints /\ \A m1, m2 \in mints : m1 = m2
    /\ published \in WholeMints \cup {Mint!NoMint}
    /\ Mint!WordsAreForThisModel

LEMMA MintInitInv == PagesInit => MintInv
  <1> SUFFICES ASSUME PagesInit PROVE MintInv
    OBVIOUS
  <1>1. Mint!Init
    BY DEF PagesInit
  <1>2. MintTypes
    <2>1. form \in Forms
      BY <1>1 DEF Mint!Init, Forms, Policies
    <2>2. ask \in Asks /\ caption \in [of : Nat, at : Nat]
      BY <1>1 DEF Mint!Init, Asks, Mint!NoAsk, Mint!NoCaption
    <2> QED
      BY <1>1, <2>1, <2>2 DEF Mint!Init, MintTypes
  <1>3. ~form.fee /\ ask.stage # "sent"
    BY <1>1 DEF Mint!Init, Mint!NoAsk
  <1>4. mints = {} /\ published = Mint!NoMint /\ caption = Mint!NoCaption /\ nudge = 0
    BY <1>1 DEF Mint!Init
  <1> QED
    BY <1>2, <1>3, <1>4 DEF MintInv, Mint!WordsAreForThisModel

(* The captioner is reset: no answer under way counts any more.            *)
LEMMA ResetDrops ==
    ASSUME ask \in Asks, Mint!Reset PROVE ask' \in Asks /\ ~(ask'.stage = "sent" /\ ask'.live)
  <1>1. CASE ask.stage = "failed"
    BY <1>1 DEF Mint!Reset, Mint!NoAsk, Asks
  <1>2. CASE ask.stage # "failed"
    <2>1. ask' = [ask EXCEPT !.live = FALSE]
      BY <1>2 DEF Mint!Reset
    <2> QED
      BY <2>1 DEF Asks
  <1> QED
    BY <1>1, <1>2

(* A new model: the words of the last one go.                              *)
LEMMA NewModelInv ==
    ASSUME MintInv, Mint!setGlbBytes, form' \in Forms, form'.fee = form.fee,
           form'.policy = form.policy, UNCHANGED <<mints, published>>
    PROVE  MintInv'
  <1>1. glb' = glb + 1 /\ labels' = 0 /\ caption' = Mint!NoCaption /\ nudge' = 0 /\ Mint!Reset
    BY DEF Mint!setGlbBytes, Mint!ClearCaption
  <1>2. ask' \in Asks /\ ~(ask'.stage = "sent" /\ ask'.live)
    BY <1>1, ResetDrops DEF MintInv, MintTypes
  <1>3. MintTypes'
    BY <1>1, <1>2 DEF MintInv, MintTypes, Mint!NoCaption
  <1>4. Mint!WordsAreForThisModel'
    BY <1>1 DEF Mint!WordsAreForThisModel, Mint!NoCaption
  <1> QED
    BY <1>2, <1>3, <1>4 DEF MintInv

(* A click that closes over a whole form, while no mint is under way.      *)
LEMMA ProceedMintInv ==
    ASSUME MintInv, Mint!FormShown, Mint!proceedMint
    PROVE  /\ mints' \subseteq WholeMints /\ \A m1, m2 \in mints' : m1 = m2
           /\ published' = published
  <1>1. CASE Mint!Missing \/ ~Mint!MintFree
    BY <1>1 DEF Mint!proceedMint, Mint!minting, MintInv
  <1>2. CASE ~(Mint!Missing \/ ~Mint!MintFree)
    <2> DEFINE c == IF mode = "upload" THEN caption ELSE Mint!NoCaption
               st == IF form.policy = "ALLOW_LIST" THEN "stills" ELSE "uploading"
               m == [glb |-> glb, labels |-> labels, form |-> form, caption |-> c, stage |-> st]
    <2>1. mints' = mints \cup {m} /\ published' = published
      BY <1>2 DEF Mint!proceedMint
    <2>2. c \in [of : Nat, at : Nat] /\ st \in {"stills", "uploading", "signing"}
      BY DEF MintInv, MintTypes, Mint!NoCaption
    <2>3. labels = glb /\ form.named /\ form.fee = (form.policy = "ALLOW_LIST")
      <3>1. form.fee \in BOOLEAN
        BY DEF MintInv, MintTypes, Forms
      <3>2. form.named /\ (form.policy = "ALLOW_LIST" => form.fee)
        BY <1>2 DEF Mint!Missing
      <3>3. form.fee => form.policy = "ALLOW_LIST"
        BY DEF MintInv
      <3>4. form.fee = (form.policy = "ALLOW_LIST")
        BY <3>1, <3>2, <3>3
      <3> QED
        BY <3>2, <3>4 DEF MintInv, MintTypes, Mint!FormShown
    <2> HIDE DEF c, st
    <2>4. m \in Mints
      BY <2>2 DEF MintInv, MintTypes, Mints
    <2>5. m \in WholeMints
      BY <2>3, <2>4 DEF WholeMints
    <2> HIDE DEF m
    <2> QED
      BY <1>2, <2>1, <2>5 DEF MintInv, Mint!MintFree
  <1> QED
    BY <1>1, <1>2

LEMMA MintStepsInv ==
    ASSUME MintInv, NEW m \in mints, Mint!MintStep(m) PROVE MintInv'
  <1>1. UNCHANGED <<glb, labels, form, caption, ask, nudge>>
    BY DEF Mint!MintStep, Mint!model, Mint!captioner
  <1>2. m \in WholeMints /\ mints = {m}
    BY DEF MintInv
  <1>3. \A st \in {"stills", "uploading", "signing"} : [m EXCEPT !.stage = st] \in WholeMints
    BY <1>2 DEF WholeMints, Mints
  <1>4. /\ \/ mints' = (mints \ {m}) \cup {[m EXCEPT !.stage = "uploading"]}
           \/ mints' = (mints \ {m}) \cup {[m EXCEPT !.stage = "signing"]}
           \/ mints' = mints \ {m}
        /\ published' \in {m, published}
    BY DEF Mint!MintStep
  <1>5. mints' \subseteq WholeMints /\ \A m1, m2 \in mints' : m1 = m2
    BY <1>2, <1>3, <1>4
  <1>6. MintTypes' /\ Mint!WordsAreForThisModel'
    BY <1>1 DEF MintInv, MintTypes, Mint!WordsAreForThisModel, Mint!NoCaption
  <1> QED
    BY <1>1, <1>2, <1>4, <1>5, <1>6 DEF MintInv, Mint!NoMint

(* A step that leaves the model, the form and the mints.                   *)
LEMMA CaptionerInv ==
    ASSUME MintInv, ask' \in Asks, ask'.stage = "sent" /\ ask'.live => ask'.at = glb,
           caption' \in [of : Nat, at : Nat], caption' # Mint!NoCaption => caption'.at = glb,
           nudge' \in {0, glb}, UNCHANGED <<glb, labels, form, mints, published>>
    PROVE  MintInv'
  BY DEF MintInv, MintTypes, Mint!WordsAreForThisModel, Mint!NoCaption, Mint!NoMint

LEMMA SendAsks ==
    ASSUME MintInv, NEW frames \in Nat, Mint!Send(frames)
    PROVE  ask' \in Asks /\ (ask'.stage = "sent" /\ ask'.live => ask'.at = glb)
  <1>1. CASE mintSession = None
    <2>1. ask' = Mint!NoAsk
      BY <1>1 DEF Mint!Send
    <2>2. Mint!NoAsk \in Asks /\ Mint!NoAsk.stage # "sent"
      BY DEF Asks, Mint!NoAsk
    <2> QED
      BY <2>1, <2>2
  <1>2. CASE mintSession # None
    <2>1. ask' = [stage |-> "sent", of |-> frames, at |-> glb, live |-> TRUE] /\ glb \in Nat
      BY <1>2 DEF Mint!Send, MintInv, MintTypes
    <2> QED
      BY <2>1 DEF Asks
  <1> QED
    BY <1>1, <1>2

LEMMA DescribeInv ==
    ASSUME MintInv,
           \/ \E a \in Minters \cup {None} : Mint!SessionChanges(a)
           \/ Mint!SetMode \/ Mint!TypeCaption \/ Mint!onDescribe \/ Mint!Captured
           \/ Mint!onRetryDescribe \/ Mint!Answered \/ Mint!QuotaRecovers
    PROVE  MintInv'
  <1>0. /\ ask \in Asks /\ (ask.stage = "sent" /\ ask.live => ask.at = glb)
        /\ caption \in [of : Nat, at : Nat] /\ (caption # Mint!NoCaption => caption.at = glb)
        /\ nudge \in {0, glb} /\ glb \in Nat /\ Mint!NoCaption \in [of : Nat, at : Nat]
    BY DEF MintInv, MintTypes, Mint!WordsAreForThisModel, Mint!NoCaption
  <1>1. CASE \E a \in Minters \cup {None} : Mint!SessionChanges(a)
    <2>1. /\ Mint!Reset
          /\ UNCHANGED <<glb, labels, form, caption, nudge, mints, published>>
      BY <1>1 DEF Mint!SessionChanges, Mint!model, Mint!minting
    <2> QED
      BY <1>0, <2>1, ResetDrops, CaptionerInv
  <1>2. CASE Mint!SetMode
    <2>1. /\ Mint!Reset /\ caption' = Mint!NoCaption /\ nudge' = 0
          /\ UNCHANGED <<glb, labels, form, mints, published>>
      BY <1>2 DEF Mint!SetMode, Mint!ClearCaption, Mint!minting
    <2> QED
      BY <1>0, <2>1, ResetDrops, CaptionerInv
  <1>3. CASE Mint!TypeCaption
    <2>1. /\ caption' \in {Mint!NoCaption, [of |-> glb, at |-> glb]}
          /\ UNCHANGED <<glb, labels, form, ask, nudge, mints, published>>
      BY <1>3 DEF Mint!TypeCaption, Mint!model, Mint!minting
    <2>2. caption' \in [of : Nat, at : Nat] /\ (caption' # Mint!NoCaption => caption'.at = glb)
      BY <1>0, <2>1
    <2> QED
      BY <1>0, <2>1, <2>2, CaptionerInv
  <1>4. CASE Mint!onDescribe
    <2>1. /\ ask' = [Mint!NoAsk EXCEPT !.stage = "capturing", !.of = glb]
          /\ UNCHANGED <<glb, labels, form, caption, nudge, mints, published>>
      BY <1>4 DEF Mint!onDescribe, Mint!model, Mint!minting
    <2>2. ask' \in Asks /\ ask'.stage # "sent"
      BY <1>0, <2>1 DEF Asks, Mint!NoAsk
    <2> QED
      BY <1>0, <2>1, <2>2, CaptionerInv
  <1>5. CASE Mint!Captured
    <2>1. /\ (\E frames \in {ask.of, glb} : Mint!Send(frames)) \/ ask' = Mint!NoAsk
          /\ UNCHANGED <<glb, labels, form, caption, nudge, mints, published>>
      BY <1>5 DEF Mint!Captured, Mint!model, Mint!minting
    <2>2. ask' \in Asks /\ (ask'.stage = "sent" /\ ask'.live => ask'.at = glb)
      <3>1. CASE \E frames \in {ask.of, glb} : Mint!Send(frames)
        <4>1. ask.of \in Nat
          BY <1>0 DEF Asks
        <4> QED
          BY <1>0, <3>1, <4>1, SendAsks
      <3>2. CASE ask' = Mint!NoAsk
        BY <3>2 DEF Asks, Mint!NoAsk
      <3> QED
        BY <2>1, <3>1, <3>2
    <2> QED
      BY <1>0, <2>1, <2>2, CaptionerInv
  <1>6. CASE Mint!onRetryDescribe
    <2>1. /\ Mint!Send(ask.of)
          /\ UNCHANGED <<glb, labels, form, caption, nudge, mints, published>>
      BY <1>6 DEF Mint!onRetryDescribe, Mint!model, Mint!minting
    <2>2. ask.of \in Nat
      BY <1>0 DEF Asks
    <2>3. ask' \in Asks /\ (ask'.stage = "sent" /\ ask'.live => ask'.at = glb)
      BY <2>1, <2>2, SendAsks
    <2> QED
      BY <1>0, <2>1, <2>3, CaptionerInv
  <1>7. CASE Mint!Answered
    <2>1. /\ ask.stage = "sent"
          /\ \/ ask' = Mint!NoAsk
             \/ ask' = [Mint!NoAsk EXCEPT !.stage = "failed", !.of = ask.of]
          /\ \/ UNCHANGED caption
             \/ ask.live /\ caption' = [of |-> ask.of, at |-> ask.at]
          /\ UNCHANGED <<glb, labels, form, nudge, mints, published>>
      BY <1>7 DEF Mint!Answered, Mint!Stale, Mint!model, Mint!minting
    <2>2. ask' \in Asks /\ ask'.stage # "sent"
      <3>1. ask.of \in Nat
        BY <1>0 DEF Asks
      <3>2. Mint!NoAsk \in Asks /\ Mint!NoAsk.stage # "sent"
        BY DEF Asks, Mint!NoAsk
      <3>3. CASE ask' = [Mint!NoAsk EXCEPT !.stage = "failed", !.of = ask.of]
        BY <3>1, <3>2, <3>3 DEF Asks
      <3> QED
        BY <2>1, <3>2, <3>3
    <2>3. caption' \in [of : Nat, at : Nat] /\ (caption' # Mint!NoCaption => caption'.at = glb)
      BY <1>0, <2>1 DEF Asks
    <2> QED
      BY <1>0, <2>1, <2>2, <2>3, CaptionerInv
  <1>8. CASE Mint!QuotaRecovers
    <2>1. UNCHANGED <<glb, labels, form, caption, ask, nudge, mints, published>>
      BY <1>8 DEF Mint!QuotaRecovers, Mint!model, Mint!minting
    <2> QED
      BY <1>0, <2>1, CaptionerInv
  <1> QED
    BY <1>1, <1>2, <1>3, <1>4, <1>5, <1>6, <1>7, <1>8

LEMMA MintNextInv == MintInv /\ [Mint!Next]_(Mint!vars) => MintInv'
  <1> SUFFICES ASSUME MintInv, [Mint!Next]_(Mint!vars) PROVE MintInv'
    OBVIOUS
  <1>0. form \in Forms /\ form.fee \in BOOLEAN
    BY DEF MintInv, MintTypes, Forms
  <1>1. CASE UNCHANGED Mint!vars \/ Mint!Generate
    <2>1. UNCHANGED <<glb, labels, form, caption, ask, nudge, mints, published>>
      BY <1>1 DEF Mint!vars, Mint!Generate, Mint!model, Mint!captioner, Mint!minting
    <2> QED
      BY <2>1 DEF MintInv, MintTypes, Mint!WordsAreForThisModel, Mint!NoCaption, Mint!NoMint
  <1>2. CASE Mint!Upload
    <2>1. Mint!setGlbBytes /\ form' = [form EXCEPT !.named = TRUE] /\ UNCHANGED <<mints, published>>
      BY <1>2 DEF Mint!Upload
    <2>2. form' \in Forms /\ form'.fee = form.fee /\ form'.policy = form.policy
      BY <1>0, <2>1 DEF Forms
    <2> QED
      BY <2>1, <2>2, NewModelInv
  <1>3. CASE Mint!Generated
    <2>1. form' = form
      BY <1>3 DEF Mint!Generated
    <2>2. CASE Mint!setGlbBytes /\ UNCHANGED <<mints, published>>
      BY <1>0, <2>1, <2>2, NewModelInv
    <2>3. \/ Mint!setGlbBytes /\ UNCHANGED <<mints, published>>
          \/ UNCHANGED <<glb, labels, Mint!captioner, nudge, Mint!minting>>
      BY <1>3 DEF Mint!Generated
    <2>4. CASE UNCHANGED <<glb, labels, Mint!captioner, nudge, Mint!minting>>
      <3>1. UNCHANGED <<glb, labels, caption, ask, nudge, mints, published>>
        BY <2>4 DEF Mint!captioner, Mint!minting
      <3> QED
        BY <2>1, <3>1 DEF MintInv, MintTypes, Mint!WordsAreForThisModel, Mint!NoCaption, Mint!NoMint
    <2> QED
      BY <2>2, <2>3, <2>4
  <1>4. CASE Mint!ConfirmOrTag
    <2>1. /\ labels' \in {labels, glb}
          /\ UNCHANGED <<glb, form, caption, ask, nudge, mints, published>>
      BY <1>4 DEF Mint!ConfirmOrTag, Mint!captioner, Mint!minting
    <2> QED
      BY <2>1 DEF MintInv, MintTypes, Mint!WordsAreForThisModel, Mint!NoCaption, Mint!NoMint
  <1>5. CASE Mint!EditForm
    <2>1. UNCHANGED <<glb, labels, caption, ask, nudge, mints, published>>
      BY <1>5 DEF Mint!EditForm, Mint!model, Mint!captioner, Mint!minting
    <2>2. form' \in Forms /\ (form'.fee => form'.policy = "ALLOW_LIST")
      <3>1. ASSUME NEW p \in Policies, Mint!onPolicyChange(p)
            PROVE  form' \in Forms /\ (form'.fee => form'.policy = "ALLOW_LIST")
        <4>1. (form.fee /\ p = "ALLOW_LIST") \in BOOLEAN
          BY Zenon
        <4> DEFINE fee == form.fee /\ p = "ALLOW_LIST"
        <4>2. form' = [form EXCEPT !.policy = p, !.fee = fee]
          BY <3>1 DEF Mint!onPolicyChange
        <4>3. fee => p = "ALLOW_LIST"
          OBVIOUS
        <4> HIDE DEF fee
        <4> QED
          BY <1>0, <4>1, <4>2, <4>3 DEF Forms, fee
      <3>2. ASSUME NEW b \in BOOLEAN, form' = [form EXCEPT !.named = b]
            PROVE  form' \in Forms /\ (form'.fee => form'.policy = "ALLOW_LIST")
        BY <1>0, <3>2 DEF Forms, MintInv
      <3>3. ASSUME NEW b \in BOOLEAN, form.policy = "ALLOW_LIST", form' = [form EXCEPT !.fee = b]
            PROVE  form' \in Forms /\ (form'.fee => form'.policy = "ALLOW_LIST")
        BY <1>0, <3>3 DEF Forms
      <3> QED
        BY <1>5, <3>1, <3>2, <3>3 DEF Mint!EditForm, Policies
    <2> QED
      BY <2>1, <2>2 DEF MintInv, MintTypes, Mint!WordsAreForThisModel, Mint!NoCaption, Mint!NoMint
  <1>6. CASE Mint!onMint \/ Mint!PublishAnyway \/ Mint!GoBack
    <2>1. /\ UNCHANGED <<glb, labels, form, caption, ask>> /\ nudge' \in {0, glb}
      BY <1>6 DEF Mint!onMint, Mint!PublishAnyway, Mint!GoBack, Mint!model, Mint!captioner
    <2>2. \/ Mint!FormShown /\ Mint!proceedMint
          \/ UNCHANGED Mint!minting
      BY <1>6 DEF Mint!onMint, Mint!PublishAnyway, Mint!GoBack
    <2>3. /\ mints' \subseteq WholeMints /\ \A m1, m2 \in mints' : m1 = m2
          /\ published' = published
      BY <2>2, ProceedMintInv DEF Mint!minting, MintInv
    <2> QED
      BY <2>1, <2>3 DEF MintInv, MintTypes, Mint!WordsAreForThisModel, Mint!NoCaption, Mint!NoMint
  <1> QED
    BY <1>1, <1>2, <1>3, <1>4, <1>5, <1>6, DescribeInv, MintStepsInv DEF Mint!Next

(* Numbers: a set of them has a least one, and what holds of 0 and of      *)
(* every next number holds of all.                                         *)
LEMMA LeastOne ==
    ASSUME NEW T \in SUBSET Nat, T # {}
    PROVE  \E x \in T : \A y \in T : x <= y
<1>1. PICK x \in T : \A y \in T : <<y, x>> \notin OpToRel(<, Nat)
  BY NatLessThanWellFounded, WFMin
<1>2. ASSUME NEW y \in T PROVE x <= y
  <2>1. x \in Nat /\ y \in Nat OBVIOUS
  <2>2. ~(y < x) BY <1>1, <2>1 DEF OpToRel
  <2>3. QED BY <2>1, <2>2
<1>3. QED BY <1>2

LEMMA CountUp ==
    ASSUME NEW N \in Nat, NEW S, 0 \in S, \A n \in 0..N - 1 : n \in S => n + 1 \in S
    PROVE  0..N \subseteq S
<1> SUFFICES ASSUME (0..N) \ S # {} PROVE FALSE
  OBVIOUS
<1>1. (0..N) \ S \in SUBSET Nat OBVIOUS
<1>2. PICK x \in (0..N) \ S : \A y \in (0..N) \ S : x <= y BY <1>1, LeastOne
<1>3. x \in 1..N BY <1>2
<1>4. x - 1 \in 0..N - 1 /\ x - 1 \in S BY <1>2, <1>3
<1>5. QED BY <1>2, <1>3, <1>4

-----------------------------------------------------------------------------
(* The labels of a base.  The list so far has the labels met so far.       *)
OutTo(T, names, m) ==
    {f \in [0..m -> Seq(T)] :
       /\ f[0] = <<>>
       /\ \A n \in 1..m : f[n] = IF Design!Contains(f[n - 1], names[n]) THEN f[n - 1]
                                 ELSE Append(f[n - 1], names[n])}

LEMMA OutExists ==
    ASSUME NEW T, NEW names \in Seq(T)
    PROVE  OutTo(T, names, Len(names)) # {}
<1> DEFINE S == {k \in Nat : k <= Len(names) => OutTo(T, names, k) # {}}
<1>1. 0 \in S
  <2>1. [n \in 0..0 |-> <<>>] \in OutTo(T, names, 0) BY DEF OutTo
  <2>2. QED BY <2>1
<1>2. ASSUME NEW k \in 0..Len(names) - 1, k \in S PROVE k + 1 \in S
  <2>1. k \in Nat /\ k + 1 \in 1..Len(names) /\ names[k + 1] \in T OBVIOUS
  <2>2. PICK f : f \in OutTo(T, names, k) BY <1>2, <2>1
  <2>3. f \in [0..k -> Seq(T)] /\ f[0] = <<>>
        /\ \A n \in 1..k : f[n] = IF Design!Contains(f[n - 1], names[n]) THEN f[n - 1]
                                  ELSE Append(f[n - 1], names[n])
    BY <2>2 DEF OutTo
  <2> DEFINE last == IF Design!Contains(f[k], names[k + 1]) THEN f[k] ELSE Append(f[k], names[k + 1])
             g == [n \in 0..k + 1 |-> IF n <= k THEN f[n] ELSE last]
  <2>4. last \in Seq(T)
    <3>1. f[k] \in Seq(T) BY <2>1, <2>3
    <3>2. QED BY <2>1, <3>1
  <2> HIDE DEF last
  <2>5. g \in [0..k + 1 -> Seq(T)] BY <2>3, <2>4
  <2>6. g[0] = <<>> /\ g[k + 1] = last /\ \A n \in 0..k : g[n] = f[n] BY <2>1, <2>3
  <2>7. \A n \in 1..k + 1 :
          g[n] = IF Design!Contains(g[n - 1], names[n]) THEN g[n - 1]
                 ELSE Append(g[n - 1], names[n])
    <3> HIDE DEF g
    <3>1. ASSUME NEW n \in 1..k
          PROVE  g[n] = IF Design!Contains(g[n - 1], names[n]) THEN g[n - 1]
                        ELSE Append(g[n - 1], names[n])
      <4>1. n \in 0..k /\ n - 1 \in 0..k OBVIOUS
      <4>2. g[n] = f[n] /\ g[n - 1] = f[n - 1] BY <4>1, <2>6
      <4>3. QED BY <4>2, <2>3
    <3>2. (k + 1) - 1 = k /\ g[k] = f[k] BY <2>1, <2>6
    <3>3. g[k + 1] = IF Design!Contains(g[(k + 1) - 1], names[k + 1]) THEN g[(k + 1) - 1]
                     ELSE Append(g[(k + 1) - 1], names[k + 1])
      BY <3>2, <2>6 DEF last
    <3>4. \A n \in 1..k + 1 : n \in 1..k \/ n = k + 1 BY <2>1
    <3>5. QED BY <3>1, <3>3, <3>4
  <2>8. g \in OutTo(T, names, k + 1)
    <3> HIDE DEF g
    <3>1. QED BY <2>5, <2>6, <2>7 DEF OutTo
  <2>9. QED BY <2>1, <2>8
<1>3. Len(names) \in Nat OBVIOUS
<1> HIDE DEF S
<1>4. 0..Len(names) \subseteq S BY <1>1, <1>2, <1>3, CountUp
<1>5. Len(names) \in S BY <1>3, <1>4
<1>6. QED BY <1>5 DEF S

(* They are the labels of the parts, one at least.                         *)
LEMMA UniqueLabels ==
    ASSUME NEW T, NEW names \in Seq(T), names # <<>>
    PROVE  /\ Design!deriveUniqueLabels(names) \in Seq(T)
           /\ Len(Design!deriveUniqueLabels(names)) > 0
           /\ Design!ToSet(Design!deriveUniqueLabels(names)) = Design!ToSet(names)
<1> DEFINE N == Len(names)
           A(f) == f = [n \in 0..N |->
                          IF n = 0 THEN <<>>
                          ELSE IF Design!Contains(f[n - 1], names[n]) THEN f[n - 1]
                          ELSE Append(f[n - 1], names[n])]
           h == CHOOSE g : A(g)
           Met(n) == {names[i] : i \in 1..n}
           S == {n \in Nat : n <= N => h[n] \in Seq(T) /\ Design!ToSet(h[n]) = Met(n)}
<1>0. N \in Nat /\ N # 0 /\ DOMAIN names = 1..N /\ \A n \in 1..N : names[n] \in T
  BY EmptySeq
<1>1. PICK f : f \in OutTo(T, names, N) BY OutExists
<1>2. A(f)
  <2>1. f \in [0..N -> Seq(T)] /\ f[0] = <<>>
        /\ \A n \in 1..N : f[n] = IF Design!Contains(f[n - 1], names[n]) THEN f[n - 1]
                                  ELSE Append(f[n - 1], names[n])
    BY <1>1 DEF OutTo
  <2> HIDE DEF N
  <2>2. \A n \in 0..N : n = 0 \/ n \in 1..N BY <1>0
  <2>3. \A n \in 0..N : f[n] = IF n = 0 THEN <<>>
                               ELSE IF Design!Contains(f[n - 1], names[n]) THEN f[n - 1]
                               ELSE Append(f[n - 1], names[n])
    BY <1>0, <2>1, <2>2
  <2>4. QED BY <2>1, <2>3
<1>3. Design!deriveUniqueLabels(names) = h[N] BY DEF Design!deriveUniqueLabels
<1>4. A(h) BY <1>2
<1> HIDE DEF h, N
<1>5. h[0] = <<>> /\ \A n \in 1..N :
          h[n] = IF Design!Contains(h[n - 1], names[n]) THEN h[n - 1] ELSE Append(h[n - 1], names[n])
  <2>1. 0 \in 0..N /\ \A n \in 1..N : n \in 0..N /\ n # 0 BY <1>0
  <2>2. QED BY <1>4, <2>1
<1>6. 0 \in S
  <2>1. <<>> \in Seq(T) /\ Design!ToSet(<<>>) = {} /\ 1..0 = {} BY DEF Design!ToSet
  <2>2. QED BY <1>5, <2>1
<1>7. ASSUME NEW n \in 0..N - 1, n \in S PROVE n + 1 \in S
  <2>1. n \in Nat /\ n <= N /\ n + 1 \in 1..N /\ (n + 1) - 1 = n BY <1>0
  <2> DEFINE s == h[n]
             l == names[n + 1]
  <2>2. s \in Seq(T) /\ l \in T /\ Design!ToSet(s) = Met(n) BY <1>0, <1>7, <2>1
  <2>3. h[n + 1] = IF Design!Contains(s, l) THEN s ELSE Append(s, l)
    BY <1>5, <2>1
  <2>4. Met(n + 1) = Met(n) \cup {l}
    <3>1. \A i : i \in 1..(n + 1) <=> i \in 1..n \/ i = n + 1 BY <2>1
    <3>2. QED BY <3>1
  <2>5. h[n + 1] \in Seq(T) /\ Design!ToSet(h[n + 1]) = Met(n + 1) => n + 1 \in S
    BY <2>1
  <2> HIDE DEF s, l, Met, S
  <2>6. Len(s) \in Nat /\ DOMAIN s = 1..Len(s) BY <2>2
  <2>7. CASE Design!Contains(s, l)
    <3>1. l \in Design!ToSet(s) BY <2>6, <2>7 DEF Design!Contains, Design!ToSet
    <3>2. h[n + 1] = s BY <2>3, <2>7
    <3>3. Met(n + 1) = Design!ToSet(s) BY <2>2, <2>4, <3>1
    <3>4. QED BY <2>2, <2>5, <3>2, <3>3
  <2>8. CASE ~Design!Contains(s, l)
    <3> DEFINE t == Append(s, l)
    <3>1. /\ t \in Seq(T) /\ Len(t) = Len(s) + 1 /\ DOMAIN t = 1..(Len(s) + 1)
          /\ t[Len(s) + 1] = l /\ \A i \in 1..Len(s) : t[i] = s[i]
      BY <2>2, <2>6
    <3> HIDE DEF t
    <3>2. Design!ToSet(t) = Design!ToSet(s) \cup {l}
      <4>1. \A i : i \in 1..(Len(s) + 1) <=> i \in 1..Len(s) \/ i = Len(s) + 1 BY <2>6
      <4>2. Design!ToSet(t) = {t[i] : i \in 1..(Len(s) + 1)} BY <3>1 DEF Design!ToSet
      <4>3. Design!ToSet(s) = {s[i] : i \in 1..Len(s)} BY <2>6 DEF Design!ToSet
      <4>4. QED BY <3>1, <4>1, <4>2, <4>3
    <3>3. h[n + 1] = t BY <2>3, <2>8 DEF t
    <3>4. QED BY <2>2, <2>4, <2>5, <3>1, <3>2, <3>3
  <2>9. QED BY <2>7, <2>8
<1>8. 0..N \subseteq S
  <2> HIDE DEF S
  <2>1. QED BY <1>0, <1>6, <1>7, CountUp
<1>9. h[N] \in Seq(T) /\ Design!ToSet(h[N]) = Met(N)
  <2>1. N \in 0..N /\ N <= N BY <1>0
  <2>2. N \in S BY <1>8, <2>1
  <2> HIDE DEF Met
  <2>3. QED BY <2>1, <2>2
<1>10. Met(N) = Design!ToSet(names) /\ names[1] \in Met(N) BY <1>0 DEF Design!ToSet
<1> HIDE DEF Met
<1>11. Len(h[N]) > 0
  <2>1. Len(h[N]) \in Nat BY <1>9
  <2>2. h[N] # <<>> BY <1>9, <1>10 DEF Design!ToSet
  <2>3. Len(h[N]) # 0 BY <1>9, <2>2, EmptySeq
  <2>4. QED BY <2>1, <2>3
<1>12. QED BY <1>3, <1>9, <1>10, <1>11

-----------------------------------------------------------------------------
(* The editor.  N turns of the hue, one for each row of a roll, differ on   *)
(* the circle.                                                             *)
Turn(v, N) == ((v - 1) * 720) \div N

LEMMA TurnsDiffer ==
    ASSUME NEW N \in 1..720, NEW i \in 1..N, NEW j \in 1..N, i < j
    PROVE  /\ Turn(i, N) \in Nat /\ Turn(j, N) \in Nat
           /\ Turn(i, N) < Turn(j, N) /\ Turn(j, N) < 720
<1> DEFINE a == (i - 1) * 720
           b == (j - 1) * 720
           p == a \div N
           q == b \div N
           r == a % N
           s == b % N
<1>1. /\ i \in Nat /\ j \in Nat /\ N \in Nat /\ N > 0
      /\ a \in Nat /\ b \in Nat /\ b >= a + 720 /\ b + 720 <= N * 720
  OBVIOUS
<1> HIDE DEF a, b
<1>2. p \in Int /\ r \in 0..(N - 1) /\ a = N * p + r
  <2>1. p \in Int BY <1>1
  <2>2. r \in 0..(N - 1) BY <1>1
  <2>3. a = N * p + r BY <1>1
  <2>4. QED BY <2>1, <2>2, <2>3
<1>3. q \in Int /\ s \in 0..(N - 1) /\ b = N * q + s
  <2>1. q \in Int BY <1>1
  <2>2. s \in 0..(N - 1) BY <1>1
  <2>3. b = N * q + s BY <1>1
  <2>4. QED BY <2>1, <2>2, <2>3
<1> HIDE DEF p, q, r, s
<1>4. p >= 0
  <2> SUFFICES ASSUME p <= 0 - 1 PROVE FALSE
    BY <1>2
  <2>1. N * p <= N * (0 - 1) BY <1>1, <1>2
  <2>2. N * (0 - 1) = 0 - N BY <1>1
  <2>3. QED BY <1>1, <1>2, <2>1, <2>2
<1>5. p < q
  <2> SUFFICES ASSUME q <= p PROVE FALSE
    BY <1>2, <1>3
  <2>1. N * q <= N * p BY <1>1, <1>2, <1>3
  <2>2. QED BY <1>1, <1>2, <1>3, <2>1
<1>6. q < 720
  <2> SUFFICES ASSUME q >= 720 PROVE FALSE
    BY <1>3
  <2>1. N * q >= N * 720 BY <1>1, <1>3
  <2>2. QED BY <1>1, <1>3, <2>1
<1>7. QED BY <1>2, <1>3, <1>4, <1>5, <1>6 DEF p, q, a, b, Turn

HueAt(c, v, N) == (c + Turn(v, N)) % 720

LEMMA HuesDiffer ==
    ASSUME NEW N \in 1..720, NEW i \in 1..N, NEW j \in 1..N, i < j, NEW c \in Int
    PROVE  HueAt(c, i, N) # HueAt(c, j, N)
<1> DEFINE p == Turn(i, N)
           q == Turn(j, N)
           a == c + p
           b == c + q
           u == a \div 720
           v == b \div 720
           r == a % 720
           s == b % 720
<1>1. p \in Nat /\ q \in Nat /\ p < q /\ q < 720
  <2>1. /\ Turn(i, N) \in Nat /\ Turn(j, N) \in Nat
        /\ Turn(i, N) < Turn(j, N) /\ Turn(j, N) < 720
    BY TurnsDiffer, Zenon
  <2>2. QED BY <2>1
<1> HIDE DEF p, q
<1>2. a \in Int /\ b \in Int /\ a < b /\ b < a + 720 BY <1>1
<1> HIDE DEF a, b
<1>3. u \in Int /\ v \in Int /\ r \in Int /\ s \in Int BY <1>2
<1>4. a = 720 * u + r BY <1>2
<1>5. b = 720 * v + s BY <1>2
<1> HIDE DEF u, v, r, s
<1>6. r # s BY <1>2, <1>3, <1>4, <1>5
<1>7. QED BY <1>6 DEF r, s, a, b, p, q, HueAt

-----------------------------------------------------------------------------
(* What the editor knows of its labels.                                    *)
LabelsOf(b) == Design!deriveUniqueLabels(PartLabels[b])
PartsOf(b) == IF PartLabels[b] = <<>> THEN {"primary"} ELSE Design!ToSet(PartLabels[b])

LEMMA DesignConstants ==
    /\ NoDesignBase \notin DesignBases
    /\ \A b \in DesignBases : PartLabels[b] \in Seq(Design!ToSet(PartLabels[b]))
    /\ MaxVariants \in 1..720 /\ VariantPrices \in Seq(Nat) \ {<<>>}
    /\ Head(VariantPrices) \in Design!ToSet(VariantPrices)
    /\ Seeds \subseteq Int
    /\ Schemes \subseteq {"analogous", "complementary", "triadic", "tetradic"}
<1>1. Design!DesignAssumption BY PagesAssumption
<1>2. VariantPrices \in Seq(Nat) \ {<<>>} BY <1>1 DEF Design!DesignAssumption
<1>3. Head(VariantPrices) \in Design!ToSet(VariantPrices)
  <2>1. Len(VariantPrices) \in Nat /\ Len(VariantPrices) # 0 BY <1>2, EmptySeq
  <2>2. 1 \in DOMAIN VariantPrices /\ Head(VariantPrices) = VariantPrices[1] BY <1>2, <2>1
  <2>3. QED BY <2>2 DEF Design!ToSet
<1>4. QED BY <1>1, <1>2, <1>3 DEF Design!DesignAssumption

LEMMA LabelsAreParts ==
    ASSUME NEW b \in DesignBases
    PROVE  /\ Len(LabelsOf(b)) \in Nat \ {0} /\ DOMAIN LabelsOf(b) = 1..Len(LabelsOf(b))
           /\ Design!ToSet(LabelsOf(b)) = PartsOf(b) /\ LabelsOf(b)[1] \in PartsOf(b)
<1> DEFINE out == LabelsOf(b)
<1>1. /\ out \in Seq(PartsOf(b)) /\ Len(out) > 0 /\ Design!ToSet(out) = PartsOf(b)
  <2>1. CASE PartLabels[b] = <<>>
    <3>1. out = <<"primary">> BY <2>1 DEF LabelsOf, Design!deriveUniqueLabels
    <3>2. Design!ToSet(<<"primary">>) = {"primary"} BY DEF Design!ToSet
    <3>3. QED BY <2>1, <3>1, <3>2 DEF PartsOf
  <2>2. CASE PartLabels[b] # <<>>
    <3>1. PartLabels[b] \in Seq(Design!ToSet(PartLabels[b])) BY DesignConstants
    <3>2. QED BY <2>2, <3>1, UniqueLabels DEF PartsOf, LabelsOf
  <2>3. QED BY <2>1, <2>2
<1> HIDE DEF out
<1>2. Len(out) \in Nat \ {0} /\ DOMAIN out = 1..Len(out) BY <1>1
<1>3. out[1] \in PartsOf(b) BY <1>1, <1>2
<1>4. QED BY <1>1, <1>2, <1>3 DEF out

(* A place for each label.                                                 *)
LEMMA PlaceOfLabel ==
    ASSUME NEW b \in DesignBases, NEW l \in PartsOf(b)
    PROVE  Design!SelectInSeq(LabelsOf(b), LAMBDA x : x = l) \in 1..Len(LabelsOf(b))
<1> DEFINE out == LabelsOf(b)
           I == {i \in 1..Len(out) : out[i] = l}
<1>1. Len(out) \in Nat /\ DOMAIN out = 1..Len(out) /\ l \in Design!ToSet(out)
  BY LabelsAreParts
<1>2. Design!SelectInSeq(out, LAMBDA x : x = l) = IF I # {} THEN Design!Min(I) ELSE 0
  BY DEF Design!SelectInSeq
<1> HIDE DEF out
<1>3. I # {} BY <1>1 DEF Design!ToSet
<1>4. I \in SUBSET Nat /\ I \subseteq 1..Len(out) BY <1>1
<1> HIDE DEF I
<1>5. PICK x \in I : \A y \in I : x <= y BY <1>3, <1>4, LeastOne
<1>6. Design!Min(I) \in I BY <1>5 DEF Design!Min
<1>7. QED BY <1>2, <1>3, <1>4, <1>6 DEF out

-----------------------------------------------------------------------------
(* The rows.  Each has a color for every label of the base and a price; of *)
(* those of one roll, a label tells which is which.                        *)
LabelSet(b) == IF b = NoDesignBase THEN {"primary"} ELSE PartsOf(b)
PriceSet == Design!ToSet(VariantPrices)
RowOf(b) == [palette : [LabelSet(b) -> 0..Design!Gray], price : PriceSet]

Turned(rs, M, N, c, l) ==
  \A i \in M : i \in 1..N /\ rs[i].palette[l] = (c + Turn(i, N)) % 720

Apart(b, rs, M) ==
  /\ M \subseteq DOMAIN rs
  /\ M = {} \/ \E N \in 1..720, c \in Int, l \in LabelSet(b) : Turned(rs, M, N, c, l)

OnePrice(rs, pv, p) == ~pv => \A i \in DOMAIN rs : rs[i].price = p

EditorInv ==
  /\ designBase \in DesignBases \cup {NoDesignBase}
  /\ rows \in Seq(RowOf(designBase)) /\ Len(rows) \in 1..MaxVariants
  /\ globalPrice \in PriceSet /\ perVariant \in BOOLEAN
  /\ OnePrice(rows, perVariant, globalPrice)
  /\ Apart(designBase, rows, rolled)
  /\ seed \in Seeds /\ scheme \in Schemes

LEMMA ApartKept ==
    ASSUME NEW b, NEW rs, NEW M, Apart(b, rs, M),
           NEW ss, NEW K \in SUBSET M, K \subseteq DOMAIN ss,
           \A i \in K : ss[i].palette = rs[i].palette
    PROVE  Apart(b, ss, K)
<1>1. CASE M = {}
  <2>1. K = {} BY <1>1
  <2>2. QED BY <2>1 DEF Apart
<1>2. CASE M # {}
  <2>1. PICK N \in 1..720, c \in Int, l \in LabelSet(b) : Turned(rs, M, N, c, l)
    BY <1>2 DEF Apart
  <2>2. Turned(ss, K, N, c, l) BY <2>1 DEF Turned
  <2>3. QED BY <2>2 DEF Apart
<1>3. QED BY <1>1, <1>2

LEMMA NobodyApart == ASSUME NEW b, NEW rs PROVE Apart(b, rs, {})
  BY DEF Apart

LEMMA FreshRow ==
    ASSUME NEW b \in DesignBases \cup {NoDesignBase}, NEW names, NEW p \in PriceSet,
           Design!ToSet(names) = LabelSet(b)
    PROVE  Design!newVariantRow(names, p) \in RowOf(b)
  BY DEF Design!newVariantRow, RowOf, Design!Default, Design!Gray, Design!Circle

(* The list starts with one such row.                                      *)
LEMMA StartRows ==
    ASSUME NEW b, NEW r \in RowOf(b), r.price = Head(VariantPrices)
    PROVE  /\ <<r>> \in Seq(RowOf(b)) /\ Len(<<r>>) \in 1..MaxVariants
           /\ OnePrice(<<r>>, FALSE, Head(VariantPrices)) /\ Apart(b, <<r>>, {})
<1>1. <<r>> \in Seq(RowOf(b)) /\ Len(<<r>>) = 1 /\ <<r>>[1] = r /\ DOMAIN <<r>> = 1..1 OBVIOUS
<1>2. 1 \in 1..MaxVariants BY DesignConstants
<1>3. OnePrice(<<r>>, FALSE, Head(VariantPrices)) BY DEF OnePrice
<1>4. QED BY <1>1, <1>2, <1>3, NobodyApart

LEMMA EditorInit == Design!Init => EditorInv
<1> SUFFICES ASSUME Design!Init PROVE EditorInv
  OBVIOUS
<1> DEFINE r == Design!newVariantRow(<<"primary">>, Head(VariantPrices))
<1>1. Design!ToSet(<<"primary">>) = LabelSet(NoDesignBase) BY DEF Design!ToSet, LabelSet
<1>2. Head(VariantPrices) \in PriceSet BY DesignConstants DEF PriceSet
<1>3. r \in RowOf(NoDesignBase) BY <1>1, <1>2, FreshRow
<1>4. r.price = Head(VariantPrices) BY DEF Design!newVariantRow
<1> HIDE DEF r
<1>5. /\ <<r>> \in Seq(RowOf(NoDesignBase)) /\ Len(<<r>>) \in 1..MaxVariants
      /\ OnePrice(<<r>>, FALSE, Head(VariantPrices)) /\ Apart(NoDesignBase, <<r>>, {})
  BY <1>3, <1>4, StartRows
<1>6. /\ rows = <<r>> /\ designBase = NoDesignBase /\ globalPrice = Head(VariantPrices)
      /\ perVariant = FALSE /\ rolled = {} /\ seed \in Seeds /\ scheme \in Schemes
  BY DEF Design!Init, r
<1>7. QED BY <1>2, <1>5, <1>6 DEF EditorInv

LEMMA PickInv == ASSUME EditorInv, NEW b \in DesignBases, Design!PickBase(b) PROVE EditorInv'
<1> DEFINE r == Design!newVariantRow(LabelsOf(b), Head(VariantPrices))
<1>1. Design!ToSet(LabelsOf(b)) = LabelSet(b)
  BY LabelsAreParts, DesignConstants DEF LabelSet
<1>2. Head(VariantPrices) \in PriceSet BY DesignConstants DEF PriceSet
<1>3. r \in RowOf(b) BY <1>1, <1>2, FreshRow
<1>4. r.price = Head(VariantPrices) BY DEF Design!newVariantRow
<1>5. /\ rows' = <<r>> /\ designBase' = b /\ globalPrice' = Head(VariantPrices)
      /\ perVariant' = FALSE /\ rolled' = {} /\ seed' = seed /\ scheme' = scheme
  BY DEF Design!PickBase, LabelsOf
<1> HIDE DEF r
<1>6. /\ <<r>> \in Seq(RowOf(b)) /\ Len(<<r>>) \in 1..MaxVariants
      /\ OnePrice(<<r>>, FALSE, Head(VariantPrices)) /\ Apart(b, <<r>>, {})
  BY <1>3, <1>4, StartRows
<1>7. seed' \in Seeds /\ scheme' \in Schemes BY <1>5 DEF EditorInv
<1> HIDE <1>5
<1>8. QED BY <1>2, <1>5, <1>6, <1>7 DEF EditorInv

(* An edit that leaves the base and the palettes of the rolled rows.       *)
LEMMA EditedInv ==
    ASSUME EditorInv, designBase' = designBase,
           rows' \in Seq(RowOf(designBase)), Len(rows') \in 1..MaxVariants,
           globalPrice' \in PriceSet, perVariant' \in BOOLEAN,
           OnePrice(rows', perVariant', globalPrice'),
           rolled' \subseteq rolled, rolled' \subseteq DOMAIN rows',
           \A i \in rolled' : rows'[i].palette = rows[i].palette,
           seed' \in Seeds, scheme' \in Schemes
    PROVE  EditorInv'
<1>1. Apart(designBase, rows', rolled') BY ApartKept DEF EditorInv
<1>2. Apart(designBase', rows', rolled') BY <1>1
<1>3. designBase' \in DesignBases \cup {NoDesignBase} /\ rows' \in Seq(RowOf(designBase'))
  BY DEF EditorInv
<1>4. QED BY <1>2, <1>3 DEF EditorInv

LEMMA RowFacts ==
    ASSUME EditorInv
    PROVE  /\ Len(rows) \in Nat /\ DOMAIN rows = 1..Len(rows)
           /\ \A i \in DOMAIN rows : /\ rows[i] \in RowOf(designBase)
                                     /\ DOMAIN rows[i].palette = LabelSet(designBase)
           /\ rolled \subseteq DOMAIN rows /\ MaxVariants \in Nat
<1>1. Len(rows) \in Nat /\ DOMAIN rows = 1..Len(rows)
      /\ \A i \in DOMAIN rows : rows[i] \in RowOf(designBase)
  BY DEF EditorInv
<1>2. \A r \in RowOf(designBase) : DOMAIN r.palette = LabelSet(designBase) BY DEF RowOf
<1>3. rolled \subseteq DOMAIN rows BY DEF EditorInv, Apart
<1>4. MaxVariants \in Nat BY DesignConstants
<1>5. QED BY <1>1, <1>2, <1>3, <1>4

LEMMA PaintInv ==
    ASSUME EditorInv, NEW i \in DOMAIN rows, NEW l \in DOMAIN rows[i].palette,
           Design!setRowPalette(i, l)
    PROVE  EditorInv'
<1> DEFINE e == [rows[i] EXCEPT !.palette = [rows[i].palette EXCEPT ![l] = Design!Mine]]
<1>1. /\ rows' = [rows EXCEPT ![i] = e] /\ rolled' = rolled \ {i} /\ designBase' = designBase
      /\ globalPrice' = globalPrice /\ perVariant' = perVariant
      /\ seed' = seed /\ scheme' = scheme
  BY DEF Design!setRowPalette, Design!Edit
<1>2. rows[i] \in RowOf(designBase) BY RowFacts
<1>3. e \in RowOf(designBase) /\ e.price = rows[i].price
  BY <1>2 DEF RowOf, Design!Mine, Design!Gray, Design!Circle
<1> HIDE DEF e
<1>4. rows \in Seq(RowOf(designBase)) /\ i \in 1..Len(rows) BY RowFacts DEF EditorInv
<1>5. /\ rows' \in Seq(RowOf(designBase)) /\ Len(rows') = Len(rows)
      /\ \A j \in 1..Len(rows) : rows'[j] = IF j = i THEN e ELSE rows[j]
  BY <1>1, <1>3, <1>4, ExceptSeq
<1>6. DOMAIN rows' = 1..Len(rows) /\ rolled \subseteq 1..Len(rows) BY <1>5, RowFacts
<1>7. OnePrice(rows', perVariant', globalPrice')
  BY <1>1, <1>3, <1>5, <1>6, RowFacts DEF OnePrice, EditorInv
<1>8. \A j \in rolled' : rows'[j].palette = rows[j].palette BY <1>1, <1>5, <1>6
<1>9. QED
  <2>1. /\ Len(rows') \in 1..MaxVariants /\ globalPrice' \in PriceSet /\ perVariant' \in BOOLEAN
        /\ seed' \in Seeds /\ scheme' \in Schemes
    BY <1>1, <1>5 DEF EditorInv
  <2>2. rolled' \subseteq rolled /\ rolled' \subseteq DOMAIN rows' BY <1>1, <1>6
  <2>3. QED BY <1>1, <1>5, <1>7, <1>8, <2>1, <2>2, EditedInv

LEMMA PriceInv ==
    ASSUME EditorInv, NEW i \in DOMAIN rows, NEW p \in PriceSet, Design!setRowPrice(i, p)
    PROVE  EditorInv'
<1> DEFINE e == [rows[i] EXCEPT !.price = p]
<1>1. /\ rows' = [rows EXCEPT ![i] = e] /\ rolled' = rolled /\ designBase' = designBase
      /\ globalPrice' = globalPrice /\ perVariant' = perVariant /\ perVariant = TRUE
      /\ seed' = seed /\ scheme' = scheme
  BY DEF Design!setRowPrice, Design!Edit, EditorInv
<1>2. rows[i] \in RowOf(designBase) BY RowFacts
<1>3. e \in RowOf(designBase) /\ e.palette = rows[i].palette BY <1>2 DEF RowOf
<1> HIDE DEF e
<1>4. rows \in Seq(RowOf(designBase)) /\ i \in 1..Len(rows) BY RowFacts DEF EditorInv
<1>5. /\ rows' \in Seq(RowOf(designBase)) /\ Len(rows') = Len(rows)
      /\ \A j \in 1..Len(rows) : rows'[j] = IF j = i THEN e ELSE rows[j]
  BY <1>1, <1>3, <1>4, ExceptSeq
<1>6. DOMAIN rows' = 1..Len(rows) /\ rolled \subseteq 1..Len(rows) BY <1>5, RowFacts
<1>7. OnePrice(rows', perVariant', globalPrice') BY <1>1 DEF OnePrice
<1>8. \A j \in rolled' : rows'[j].palette = rows[j].palette BY <1>1, <1>3, <1>5, <1>6
<1>9. QED
  <2>1. /\ Len(rows') \in 1..MaxVariants /\ globalPrice' \in PriceSet /\ perVariant' \in BOOLEAN
        /\ seed' \in Seeds /\ scheme' \in Schemes
    BY <1>1, <1>5 DEF EditorInv
  <2>2. rolled' \subseteq rolled /\ rolled' \subseteq DOMAIN rows' BY <1>1, <1>6
  <2>3. QED BY <1>1, <1>5, <1>7, <1>8, <2>1, <2>2, EditedInv

(* One price for all.                                                      *)
LEMMA PricedRows ==
    ASSUME EditorInv, NEW p \in PriceSet
    PROVE  /\ Design!Priced(p) \in Seq(RowOf(designBase)) /\ Len(Design!Priced(p)) = Len(rows)
           /\ DOMAIN Design!Priced(p) = DOMAIN rows
           /\ \A i \in DOMAIN rows : /\ Design!Priced(p)[i].price = p
                                     /\ Design!Priced(p)[i].palette = rows[i].palette
<1> DEFINE s == Design!Priced(p)
           n == Len(rows)
<1>1. n \in Nat /\ DOMAIN rows = 1..n BY RowFacts
<1>2. s = [i \in 1..n |-> [rows[i] EXCEPT !.price = p]] BY <1>1 DEF Design!Priced
<1>3. \A r \in RowOf(designBase) : /\ [r EXCEPT !.price = p] \in RowOf(designBase)
                                   /\ [r EXCEPT !.price = p].price = p
                                   /\ [r EXCEPT !.price = p].palette = r.palette
  BY DEF RowOf
<1>4. \A i \in 1..n : rows[i] \in RowOf(designBase) BY <1>1, RowFacts
<1> HIDE DEF n, s
<1>5. /\ s \in [1..n -> RowOf(designBase)]
      /\ \A i \in 1..n : s[i].price = p /\ s[i].palette = rows[i].palette
  BY <1>2, <1>3, <1>4
<1>6. s \in Seq(RowOf(designBase)) /\ Len(s) = n BY <1>1, <1>5, SeqDef
<1>7. QED BY <1>1, <1>5, <1>6 DEF s, n

LEMMA GlobalPriceInv ==
    ASSUME EditorInv, NEW p \in PriceSet, Design!setGlobalPrice(p)
    PROVE  EditorInv'
<1>1. /\ rows' = (IF perVariant THEN rows ELSE Design!Priced(p)) /\ rolled' = rolled
      /\ designBase' = designBase /\ globalPrice' = p /\ perVariant' = perVariant
      /\ seed' = seed /\ scheme' = scheme
  BY DEF Design!setGlobalPrice, Design!Edit
<1>2. /\ rows' \in Seq(RowOf(designBase)) /\ Len(rows') = Len(rows) /\ DOMAIN rows' = DOMAIN rows
      /\ \A i \in DOMAIN rows : rows'[i].palette = rows[i].palette
      /\ OnePrice(rows', perVariant', p)
  <2>1. CASE perVariant BY <1>1, <2>1 DEF EditorInv, OnePrice
  <2>2. CASE ~perVariant BY <1>1, <2>2, PricedRows DEF OnePrice
  <2>3. QED BY <2>1, <2>2
<1>3. /\ Len(rows') \in 1..MaxVariants /\ perVariant' \in BOOLEAN
      /\ seed' \in Seeds /\ scheme' \in Schemes
  BY <1>1, <1>2 DEF EditorInv
<1>4. rolled' \subseteq rolled /\ rolled' \subseteq DOMAIN rows' BY <1>1, <1>2, RowFacts
<1>5. QED BY <1>1, <1>2, <1>3, <1>4, EditedInv

LEMMA ToggleInv == ASSUME EditorInv, Design!togglePerVariantPricing PROVE EditorInv'
<1>1. /\ rows' = (IF perVariant THEN Design!Priced(globalPrice) ELSE rows) /\ rolled' = rolled
      /\ designBase' = designBase /\ globalPrice' = globalPrice /\ perVariant' = ~perVariant
      /\ seed' = seed /\ scheme' = scheme
  BY DEF Design!togglePerVariantPricing, Design!Edit
<1>2. globalPrice \in PriceSet BY DEF EditorInv
<1>3. /\ rows' \in Seq(RowOf(designBase)) /\ Len(rows') = Len(rows) /\ DOMAIN rows' = DOMAIN rows
      /\ \A i \in DOMAIN rows : rows'[i].palette = rows[i].palette
      /\ OnePrice(rows', perVariant', globalPrice')
  <2>1. CASE ~perVariant BY <1>1, <2>1 DEF EditorInv, OnePrice
  <2>2. CASE perVariant BY <1>1, <1>2, <2>2, PricedRows DEF OnePrice
  <2>3. QED BY <2>1, <2>2
<1>4. /\ Len(rows') \in 1..MaxVariants /\ perVariant' \in BOOLEAN /\ globalPrice' \in PriceSet
      /\ seed' \in Seeds /\ scheme' \in Schemes
  BY <1>1, <1>3 DEF EditorInv
<1>5. rolled' \subseteq rolled /\ rolled' \subseteq DOMAIN rows' BY <1>1, <1>3, RowFacts
<1>6. QED BY <1>1, <1>3, <1>4, <1>5, EditedInv

LEMMA AddRowInv == ASSUME EditorInv, Design!addRow PROVE EditorInv'
<1> DEFINE r == Design!newVariantRow(LabelsOf(designBase), globalPrice)
<1>1. /\ rows' = Append(rows, r) /\ Len(rows) < MaxVariants /\ rolled' = rolled
      /\ designBase' = designBase /\ globalPrice' = globalPrice /\ perVariant' = perVariant
      /\ seed' = seed /\ scheme' = scheme
  BY DEF Design!addRow, Design!Edit, Design!Labels, LabelsOf
<1>2. designBase \in DesignBases BY DEF Design!addRow, Design!Edit, Design!Editable, EditorInv
<1>3. Design!ToSet(LabelsOf(designBase)) = LabelSet(designBase)
  BY <1>2, LabelsAreParts, DesignConstants DEF LabelSet
<1>4. globalPrice \in PriceSet BY DEF EditorInv
<1>5. r \in RowOf(designBase) BY <1>2, <1>3, <1>4, FreshRow
<1>6. r.price = globalPrice BY DEF Design!newVariantRow
<1> HIDE DEF r
<1>7. rows \in Seq(RowOf(designBase)) BY DEF EditorInv
<1>8. /\ rows' \in Seq(RowOf(designBase)) /\ Len(rows') = Len(rows) + 1
      /\ (\A i \in 1..Len(rows) : rows'[i] = rows[i]) /\ rows'[Len(rows) + 1] = r
  BY <1>1, <1>5, <1>7, AppendProperties
<1>9. Len(rows) \in Nat /\ DOMAIN rows = 1..Len(rows) /\ rolled \subseteq 1..Len(rows)
  BY RowFacts
<1>10. DOMAIN rows' = 1..(Len(rows) + 1) BY <1>8
<1>11. \A i \in DOMAIN rows' : i \in DOMAIN rows \/ i = Len(rows) + 1 BY <1>9, <1>10
<1>12. OnePrice(rows', perVariant', globalPrice')
  BY <1>1, <1>6, <1>8, <1>9, <1>11 DEF OnePrice, EditorInv
<1>13. Len(rows') \in 1..MaxVariants BY <1>1, <1>8, <1>9, DesignConstants
<1>14. rolled' \subseteq rolled /\ rolled' \subseteq DOMAIN rows' BY <1>1, <1>9, <1>10
<1>15. \A i \in rolled' : rows'[i].palette = rows[i].palette BY <1>1, <1>8, <1>9
<1>16. perVariant' \in BOOLEAN /\ globalPrice' \in PriceSet /\ seed' \in Seeds /\ scheme' \in Schemes
  BY <1>1 DEF EditorInv
<1>17. QED BY <1>1, <1>8, <1>12, <1>13, <1>14, <1>15, <1>16, EditedInv

(* Both of the minuses drop the last row.                                  *)
LEMMA DropRowInv ==
    ASSUME EditorInv, Len(rows) > 1, rows' = Design!Front(rows), rolled' = rolled \ {Len(rows)},
           designBase' = designBase, globalPrice' = globalPrice, perVariant' = perVariant,
           seed' = seed, scheme' = scheme
    PROVE  EditorInv'
<1> DEFINE n == Len(rows) - 1
<1>1. n \in Nat /\ n > 0 /\ DOMAIN rows = 1..Len(rows) /\ Len(rows) = n + 1
      /\ rolled \subseteq DOMAIN rows /\ \A i \in DOMAIN rows : rows[i] \in RowOf(designBase)
  BY RowFacts
<1>2. rows' = SubSeq(rows, 1, n) BY DEF Design!Front
<1> HIDE DEF n
<1>3. \A i \in 1..n : i \in DOMAIN rows BY <1>1
<1>4. /\ rows' \in Seq(RowOf(designBase)) /\ Len(rows') = n
      /\ \A i \in 1..n : rows'[i] = rows[i]
  <2>1. 1 \in Int /\ n \in Int /\ 1 <= n /\ n - 1 + 1 = n /\ \A i \in 1..n : 1 + i - 1 = i
    BY <1>1
  <2>2. \A i \in 1..n : rows[i] \in RowOf(designBase) BY <1>1, <1>3
  <2>3. /\ SubSeq(rows, 1, n) \in Seq(RowOf(designBase))
        /\ Len(SubSeq(rows, 1, n)) = IF 1 <= n THEN n - 1 + 1 ELSE 0
        /\ \A i \in 1..(n - 1 + 1) : SubSeq(rows, 1, n)[i] = rows[1 + i - 1]
    BY <2>1, <2>2, SubSeqProperties
  <2>4. QED BY <1>2, <2>1, <2>3
<1>5. DOMAIN rows' = 1..n BY <1>4
<1>6. OnePrice(rows', perVariant', globalPrice')
  <2>1. ASSUME ~perVariant, NEW i \in 1..n PROVE rows'[i].price = globalPrice
    <3>1. rows[i].price = globalPrice BY <1>3, <2>1 DEF OnePrice, EditorInv
    <3>2. QED BY <1>4, <3>1
  <2>2. QED BY <1>5, <2>1 DEF OnePrice
<1>7. Len(rows') \in 1..MaxVariants BY <1>1, <1>4, RowFacts DEF EditorInv
<1>8. \A i \in rolled' : i \in 1..n BY <1>1
<1>9. rolled' \subseteq rolled /\ rolled' \subseteq DOMAIN rows' BY <1>5, <1>8
<1>10. \A i \in rolled' : rows'[i].palette = rows[i].palette BY <1>4, <1>8
<1>11. perVariant' \in BOOLEAN /\ globalPrice' \in PriceSet /\ seed' \in Seeds /\ scheme' \in Schemes
  BY DEF EditorInv
<1>12. QED BY <1>4, <1>6, <1>7, <1>9, <1>10, <1>11, EditedInv

(* Only rows that may be there are locked, so the minus of the random      *)
(* controls leaves one at least.                                           *)
LocksInv == locked \subseteq 1..MaxVariants

LEMMA LastLock ==
    ASSUME LocksInv PROVE Design!minRandomN >= 1 /\ Design!minRandomN \in Nat
<1>1. MaxVariants \in Nat BY DesignConstants
<1>2. CASE locked = {} BY <1>2 DEF Design!minRandomN
<1>3. CASE locked # {}
  <2> DEFINE T == {MaxVariants - i : i \in locked}
  <2>1. T \in SUBSET Nat /\ T # {}
    <3>1. \A i \in locked : MaxVariants - i \in Nat BY <1>1 DEF LocksInv
    <3>2. QED BY <1>3, <3>1
  <2>2. PICK x \in T : \A y \in T : x <= y BY <2>1, LeastOne
  <2>3. PICK i \in locked : x = MaxVariants - i BY <2>2
  <2>4. \A j \in locked : j <= i BY <1>1, <2>2, <2>3 DEF LocksInv
  <2>5. Design!minRandomN = CHOOSE k \in locked : \A j \in locked : j <= k
    BY <1>3 DEF Design!minRandomN
  <2>6. Design!minRandomN \in locked BY <2>4, <2>5
  <2>7. QED BY <1>1, <2>6 DEF LocksInv
<1>4. QED BY <1>2, <1>3

LEMMA MinusInv ==
    ASSUME EditorInv, LocksInv, Design!removeRow \/ Design!onChangeVariantCount
    PROVE  EditorInv'
<1>1. Len(rows) > 1
  <2>1. CASE Design!removeRow BY <2>1 DEF Design!removeRow
  <2>2. CASE Design!onChangeVariantCount
    <3>1. Len(rows) > Design!minRandomN BY <2>2 DEF Design!onChangeVariantCount
    <3>2. QED BY <3>1, LastLock, RowFacts
  <2>3. QED BY <2>1, <2>2
<1>2. /\ rows' = Design!Front(rows) /\ rolled' = rolled \ {Len(rows)}
      /\ designBase' = designBase /\ globalPrice' = globalPrice /\ perVariant' = perVariant
      /\ seed' = seed /\ scheme' = scheme
  BY DEF Design!removeRow, Design!onChangeVariantCount, Design!Edit
<1>3. QED BY <1>1, <1>2, DropRowInv

(* A roll: the hues of the first label's place tell the rows apart.        *)
LEMMA Offset ==
    ASSUME NEW s \in Schemes, NEW k \in Nat, NEW K \in Nat
    PROVE  Design!hueOffsetFor(s, k, K) \in Int
<1>1. s \in {"analogous", "complementary", "triadic", "tetradic"} BY DesignConstants
<1>2. CASE s = "analogous" BY <1>2 DEF Design!hueOffsetFor
<1>3. CASE s = "complementary" BY <1>3 DEF Design!hueOffsetFor
<1>4. CASE s = "triadic" BY <1>4 DEF Design!hueOffsetFor
<1>5. CASE s = "tetradic" BY <1>5 DEF Design!hueOffsetFor
<1>6. QED BY <1>1, <1>2, <1>3, <1>4, <1>5

Hues == 0..719

(* A color of row i in a roll.                                             *)
RolledColor(l, i) ==
  Design!generateVariantColors(seed, scheme, Len(LabelsOf(designBase)), Len(rows))[i]
    [Design!SelectInSeq(LabelsOf(designBase), LAMBDA x : x = l)]

LEMMA RowCount == ASSUME EditorInv PROVE Len(rows) \in 1..MaxVariants /\ Len(rows) \in 1..720
<1>1. Len(rows) \in 1..MaxVariants BY DEF EditorInv
<1>2. MaxVariants \in 1..720 BY DesignConstants
<1>3. ASSUME NEW n \in 1..MaxVariants PROVE n \in 1..720 BY <1>2
<1>4. QED BY <1>1, <1>3

LEMMA RolledColors ==
    ASSUME EditorInv, designBase \in DesignBases, NEW l \in PartsOf(designBase)
    PROVE  /\ \A i \in 1..Len(rows) : RolledColor(l, i) \in Hues
           /\ \E c \in Int : \A i \in 1..Len(rows) :
                RolledColor(l, i) = (c + Turn(i, Len(rows))) % 720
<1>1. seed \in Int /\ scheme \in Schemes BY DesignConstants DEF EditorInv
<1>2. Len(rows) \in 1..720 BY RowCount
<1>3. Len(LabelsOf(designBase)) \in Nat BY LabelsAreParts
<1> DEFINE K == Len(LabelsOf(designBase))
           N == Len(rows)
           k == Design!SelectInSeq(LabelsOf(designBase), LAMBDA x : x = l)
           c == seed + Design!hueOffsetFor(scheme, k - 1, K)
<1>4. k \in 1..K BY PlaceOfLabel
<1>5. \A i \in 1..N : RolledColor(l, i) = Design!generateVariantColors(seed, scheme, K, N)[i][k]
  BY DEF RolledColor
<1>6. K \in Nat /\ N \in 1..720 BY <1>2, <1>3
<1> HIDE DEF k, K, N
<1>7. k - 1 \in Nat /\ K \in Nat /\ N \in 1..720 BY <1>4, <1>6
<1>8. c \in Int BY <1>1, <1>7, Offset
<1>9. \A i \in 1..N : /\ RolledColor(l, i) \in Hues
                      /\ RolledColor(l, i) = (c + Turn(i, N)) % 720
  <2>1. ASSUME NEW i \in 1..N
        PROVE  /\ RolledColor(l, i) \in Hues
               /\ RolledColor(l, i) = (c + Turn(i, N)) % 720
    <3> DEFINE o == Design!hueOffsetFor(scheme, k - 1, K)
               t == Turn(i, N)
    <3>1. RolledColor(l, i) = (seed + t + o) % 720
      BY <1>4, <1>5, <2>1 DEF Design!generateVariantColors, Design!Circle, Turn
    <3>2. o \in Int BY <1>1, <1>7, Offset
    <3>3. t \in Int BY <1>7 DEF Turn
    <3>4. c = seed + o OBVIOUS
    <3> HIDE DEF o, t, c
    <3>5. seed + t + o = c + t BY <1>1, <3>2, <3>3, <3>4
    <3>6. RolledColor(l, i) = (c + t) % 720 BY <3>1, <3>5
    <3>7. (c + t) % 720 \in 0..719
      <4>1. ASSUME NEW a \in Int PROVE a % 720 \in 0..719 OBVIOUS
      <4>2. c + t \in Int BY <1>8, <3>3
      <4>3. QED BY <4>1, <4>2
    <3>8. QED BY <3>6, <3>7 DEF Hues, t
  <2> HIDE DEF c
  <2>2. QED BY <2>1
<1> HIDE DEF c
<1>10. /\ \A i \in 1..N : RolledColor(l, i) \in Hues
      /\ \E d \in Int : \A i \in 1..N : RolledColor(l, i) = (d + Turn(i, N)) % 720
  <2> DEFINE A(d) == \A i \in 1..N : RolledColor(l, i) = (d + Turn(i, N)) % 720
  <2>1. A(c) BY <1>9
  <2> HIDE DEF A
  <2>2. \E d \in Int : A(d) BY <1>8, <2>1
  <2>3. \A i \in 1..N : RolledColor(l, i) \in Hues BY <1>9
  <2>4. QED BY <2>2, <2>3, Zenon DEF A
<1>11. QED BY <1>10 DEF N

LEMMA RollInv == ASSUME EditorInv, Design!onRandomGenerate PROVE EditorInv'
<1> DEFINE n == Len(rows)
           P(i) == [l \in PartsOf(designBase) |-> RolledColor(l, i)]
           s == [i \in 1..n |-> IF i \in locked THEN rows[i] ELSE [rows[i] EXCEPT !.palette = P(i)]]
<1>1. designBase \in DesignBases
  BY DEF Design!onRandomGenerate, Design!Edit, Design!Editable, EditorInv
<1>2. LabelSet(designBase) = PartsOf(designBase) /\ Design!ToSet(LabelsOf(designBase)) = PartsOf(designBase)
  BY <1>1, LabelsAreParts, DesignConstants DEF LabelSet
<1>3. n \in Nat /\ DOMAIN rows = 1..n /\ (\A i \in 1..n : rows[i] \in RowOf(designBase))
      /\ n \in 1..MaxVariants /\ n \in 1..720
  BY RowFacts, RowCount
<1>4. /\ rows' = s /\ rolled' = DOMAIN rows \ locked /\ designBase' = designBase
      /\ globalPrice' = globalPrice /\ perVariant' = perVariant
      /\ seed' = seed /\ scheme' = scheme
  <2>1. /\ rolled' = DOMAIN rows \ locked /\ designBase' = designBase
        /\ globalPrice' = globalPrice /\ perVariant' = perVariant
        /\ seed' = seed /\ scheme' = scheme
    BY DEF Design!onRandomGenerate, Design!Edit
  <2>2. rows' = s
    BY <1>2, <1>3 DEF Design!onRandomGenerate, Design!Labels, LabelsOf, RolledColor
  <2>3. QED BY <2>1, <2>2
<1> HIDE DEF n
<1>5. \A i \in 1..n : P(i) \in [LabelSet(designBase) -> 0..Design!Gray]
  <2>1. ASSUME NEW i \in 1..n, NEW l \in PartsOf(designBase)
        PROVE  RolledColor(l, i) \in 0..Design!Gray
    <3>1. i \in 1..Len(rows) BY DEF n
    <3>2. \A j \in 1..Len(rows) : RolledColor(l, j) \in Hues BY <1>1, RolledColors, Zenon
    <3>3. RolledColor(l, i) \in Hues BY <3>1, <3>2
    <3>4. QED BY <3>3 DEF Hues, Design!Gray, Design!Circle
  <2>2. QED BY <1>2, <2>1
<1>6. \A i \in 1..n : /\ s[i] \in RowOf(designBase) /\ s[i].price = rows[i].price
                      /\ i \notin locked => s[i].palette = P(i)
  <2> HIDE DEF P
  <2>1. \A r \in RowOf(designBase), p \in [LabelSet(designBase) -> 0..Design!Gray] :
          /\ [r EXCEPT !.palette = p] \in RowOf(designBase)
          /\ [r EXCEPT !.palette = p].price = r.price
          /\ [r EXCEPT !.palette = p].palette = p
    BY DEF RowOf
  <2>2. ASSUME NEW i \in 1..n
        PROVE  /\ s[i] \in RowOf(designBase) /\ s[i].price = rows[i].price
               /\ i \notin locked => s[i].palette = P(i)
    <3>1. s[i] = IF i \in locked THEN rows[i] ELSE [rows[i] EXCEPT !.palette = P(i)] OBVIOUS
    <3> HIDE DEF s
    <3>2. QED BY <1>3, <1>5, <2>1, <3>1
  <2>3. QED BY <2>2
<1>7. DOMAIN s = 1..n OBVIOUS
<1> HIDE DEF s
<1>8. s \in Seq(RowOf(designBase)) /\ Len(s) = n
  <2>1. s \in [1..n -> RowOf(designBase)] BY <1>4, <1>6, <1>7 DEF s
  <2>2. QED BY <1>3, <2>1, SeqDef
<1>9. OnePrice(s, perVariant, globalPrice)
  BY <1>3, <1>6, <1>7 DEF OnePrice, EditorInv
<1>10. Apart(designBase, s, DOMAIN rows \ locked)
  <2>1. PICK l \in PartsOf(designBase) : TRUE BY <1>1, LabelsAreParts
  <2>2. PICK c \in Int : \A i \in 1..n : RolledColor(l, i) = (c + Turn(i, n)) % 720
    BY <1>1, RolledColors DEF n
  <2>3. Turned(s, DOMAIN rows \ locked, n, c, l)
    <3>1. ASSUME NEW i \in 1..n, i \notin locked
          PROVE  s[i].palette[l] = (c + Turn(i, n)) % 720
      <4>1. P(i)[l] = RolledColor(l, i) OBVIOUS
      <4> HIDE DEF P
      <4>2. s[i].palette = P(i) BY <1>6, <3>1
      <4>3. QED BY <2>2, <4>1, <4>2
    <3>2. QED BY <1>3, <3>1 DEF Turned
  <2>4. QED BY <1>2, <1>3, <1>7, <2>3 DEF Apart
<1>11. /\ globalPrice' \in PriceSet /\ perVariant' \in BOOLEAN
       /\ seed' \in Seeds /\ scheme' \in Schemes
  BY <1>4 DEF EditorInv
<1>12. Len(rows') \in 1..MaxVariants /\ rows' \in Seq(RowOf(designBase')) BY <1>3, <1>4, <1>8
<1>13. /\ OnePrice(rows', perVariant', globalPrice') /\ Apart(designBase', rows', rolled')
       /\ designBase' \in DesignBases \cup {NoDesignBase}
  BY <1>1, <1>4, <1>9, <1>10
<1>14. QED BY <1>11, <1>12, <1>13 DEF EditorInv

(* Nothing is edited while the page is busy: who bakes has the rows it     *)
(* began with, and what a launch signs for was baked of them.              *)
ArtOf(rs, b) == [i \in DOMAIN rs |-> Design!resolvePartColors(rs[i].palette, b)]

TaskInv ==
  \/ task = Design!NoTask
  \/ task.kind = "pick" /\ designPhase = "downloading-base"
  \/ /\ task.kind \in {"preview", "launch"} /\ task.base = designBase /\ task.rows = rows
     /\ designBase # NoDesignBase
     /\ \/ designPhase = "building-variants"
        \/ /\ task.kind = "launch" /\ designPhase \in {"uploading", "signing"}
           /\ art = ArtOf(rows, designBase)

DesignInv == EditorInv /\ LocksInv /\ TaskInv

(* An edit of the rows.                                                    *)
Edits ==
  \/ \E i \in DOMAIN rows :
       \/ \E l \in DOMAIN rows[i].palette : Design!setRowPalette(i, l)
       \/ \E p \in PriceSet : Design!setRowPrice(i, p)
       \/ Design!onToggleLock(i)
  \/ \E p \in PriceSet : Design!setGlobalPrice(p)
  \/ \E from \in Seeds, s \in Schemes : Design!ChooseHarmony(from, s)
  \/ Design!togglePerVariantPricing \/ Design!addRow
  \/ Design!removeRow \/ Design!onChangeVariantCount \/ Design!onRandomGenerate

Handles ==
  \/ \E i \in DOMAIN rows : Design!SelectTile(i)
  \/ \E kind \in {"preview", "launch"} : Design!Bake(kind)
  \/ Design!runBuildVariants \/ Design!Uploaded \/ Design!Finish \/ Design!Fail

LEMMA DesignCases ==
    Design!Next => (\E b \in DesignBases : Design!PickBase(b)) \/ Edits \/ Handles
  BY DEF Design!Next, Edits, Handles, PriceSet

LEMMA SameEditor ==
    ASSUME EditorInv, designBase' = designBase, UNCHANGED Design!designVars
    PROVE  EditorInv'
<1>1. /\ rows' = rows /\ globalPrice' = globalPrice /\ perVariant' = perVariant
      /\ rolled' = rolled /\ seed' = seed /\ scheme' = scheme
  BY DEF Design!designVars
<1>2. QED BY <1>1 DEF EditorInv

LEMMA EditsKeepEditor == ASSUME EditorInv, LocksInv, Edits PROVE EditorInv'
<1>1. ASSUME NEW i \in DOMAIN rows, NEW l \in DOMAIN rows[i].palette, Design!setRowPalette(i, l)
      PROVE  EditorInv'
  BY <1>1, PaintInv
<1>2. ASSUME NEW i \in DOMAIN rows, NEW p \in PriceSet, Design!setRowPrice(i, p) PROVE EditorInv'
  BY <1>2, PriceInv
<1>3. ASSUME NEW i \in DOMAIN rows, Design!onToggleLock(i) PROVE EditorInv'
  <2>1. /\ rows' = rows /\ globalPrice' = globalPrice /\ perVariant' = perVariant
        /\ rolled' = rolled /\ seed' = seed /\ scheme' = scheme /\ designBase' = designBase
    BY <1>3 DEF Design!onToggleLock, Design!Edit
  <2>2. QED BY <2>1 DEF EditorInv
<1>4. ASSUME NEW p \in PriceSet, Design!setGlobalPrice(p) PROVE EditorInv'
  BY <1>4, GlobalPriceInv
<1>5. ASSUME NEW from \in Seeds, NEW s \in Schemes, Design!ChooseHarmony(from, s) PROVE EditorInv'
  <2>1. /\ rows' = rows /\ globalPrice' = globalPrice /\ perVariant' = perVariant
        /\ rolled' = rolled /\ seed' = from /\ scheme' = s /\ designBase' = designBase
    BY <1>5 DEF Design!ChooseHarmony, Design!Edit
  <2>2. QED BY <2>1 DEF EditorInv
<1>6. Design!togglePerVariantPricing => EditorInv' BY ToggleInv
<1>7. Design!addRow => EditorInv' BY AddRowInv
<1>8. Design!removeRow \/ Design!onChangeVariantCount => EditorInv' BY MinusInv
<1>9. Design!onRandomGenerate => EditorInv' BY RollInv
<1>10. QED BY <1>1, <1>2, <1>3, <1>4, <1>5, <1>6, <1>7, <1>8, <1>9 DEF Edits

LEMMA HandlesKeepEditor == ASSUME EditorInv, Handles PROVE EditorInv'
<1>1. designBase' = designBase /\ UNCHANGED Design!designVars
  BY DEF Handles, Design!SelectTile, Design!Bake, Design!runBuildVariants, Design!Uploaded,
         Design!Finish, Design!Fail
<1>2. QED BY <1>1, SameEditor

LEMMA LocksStep == ASSUME EditorInv, LocksInv, Design!Next PROVE LocksInv'
<1>1. ASSUME NEW b \in DesignBases, Design!PickBase(b) PROVE locked' = {}
  BY <1>1 DEF Design!PickBase
<1>2. ASSUME NEW i \in DOMAIN rows, Design!onToggleLock(i) PROVE locked' \subseteq locked \cup {i}
  BY <1>2 DEF Design!onToggleLock
<1>3. Design!onChangeVariantCount => locked' \subseteq locked BY DEF Design!onChangeVariantCount
<1>4. Handles => locked' = locked
  BY DEF Handles, Design!SelectTile, Design!Bake, Design!runBuildVariants, Design!Uploaded,
         Design!Finish, Design!Fail, Design!designVars
<1>5. Edits => \/ locked' = locked \/ Design!onChangeVariantCount
               \/ \E i \in DOMAIN rows : Design!onToggleLock(i)
  BY DEF Edits, Design!setRowPalette, Design!setRowPrice, Design!setGlobalPrice,
         Design!ChooseHarmony, Design!togglePerVariantPricing, Design!addRow, Design!removeRow,
         Design!onRandomGenerate
<1>6. locked' \subseteq locked \/ \E i \in DOMAIN rows : locked' \subseteq locked \cup {i}
  BY <1>1, <1>2, <1>3, <1>4, <1>5, DesignCases
<1>7. ASSUME NEW i \in DOMAIN rows PROVE i \in 1..MaxVariants
  <2>1. i \in 1..Len(rows) /\ Len(rows) \in 1..MaxVariants /\ MaxVariants \in Nat
    BY RowFacts, RowCount
  <2>2. QED BY <2>1
<1>8. QED BY <1>6, <1>7 DEF LocksInv

LEMMA IdleTask == ASSUME TaskInv, designPhase \notin Design!BusyPhases PROVE task = Design!NoTask
  BY DEF TaskInv, Design!BusyPhases

LEMMA TaskStep == ASSUME TaskInv, Design!Next PROVE TaskInv'
<1>1. ASSUME NEW b \in DesignBases, Design!PickBase(b) PROVE TaskInv'
  BY <1>1 DEF Design!PickBase, Design!NoTask, TaskInv
<1>2. CASE Edits
  <2>1. Design!Edit
    BY <1>2 DEF Edits, Design!setRowPalette, Design!setRowPrice, Design!setGlobalPrice,
         Design!ChooseHarmony, Design!togglePerVariantPricing, Design!addRow, Design!removeRow,
         Design!onRandomGenerate, Design!onChangeVariantCount, Design!onToggleLock
  <2>2. task = Design!NoTask BY <2>1, IdleTask DEF Design!Edit, Design!Editable
  <2>3. task' = Design!NoTask BY <2>1, <2>2 DEF Design!Edit, Design!NoTask
  <2>4. QED BY <2>3 DEF TaskInv, Design!NoTask
<1>3. ASSUME NEW i \in DOMAIN rows, Design!SelectTile(i) PROVE TaskInv'
  <2>1. /\ task' = task /\ designPhase' = designPhase /\ designBase' = designBase
        /\ rows' = rows /\ art' = art
    BY <1>3 DEF Design!SelectTile, Design!designVars
  <2>2. QED BY <2>1 DEF TaskInv, Design!NoTask, ArtOf, Design!resolvePartColors
<1>4. ASSUME NEW kind \in {"preview", "launch"}, Design!Bake(kind) PROVE TaskInv'
  <2>1. /\ task' = [kind |-> kind, base |-> designBase, rows |-> rows]
        /\ designPhase' = "building-variants" /\ designBase' = designBase /\ rows' = rows
        /\ designBase # NoDesignBase
    BY <1>4 DEF Design!Bake, Design!designVars, Design!Editable
  <2>2. QED BY <2>1 DEF TaskInv
<1>5. CASE Design!runBuildVariants
  <2>1. /\ task.kind \in {"preview", "launch"} /\ designPhase = "building-variants"
        /\ art' = ArtOf(task.rows, task.base)
        /\ designBase' = designBase /\ rows' = rows
    BY <1>5 DEF Design!runBuildVariants, Design!designVars, ArtOf
  <2>2. task # Design!NoTask BY <2>1 DEF Design!NoTask
  <2>3. task.base = designBase /\ task.rows = rows /\ designBase # NoDesignBase
    BY <2>1, <2>2 DEF TaskInv
  <2>4. art' = ArtOf(rows', designBase') BY <2>1, <2>3
  <2>5. CASE task.kind = "preview"
    <3>1. task' = Design!NoTask BY <1>5, <2>5 DEF Design!runBuildVariants, Design!NoTask
    <3>2. QED BY <3>1 DEF TaskInv, Design!NoTask
  <2>6. CASE task.kind = "launch"
    <3>1. task' = task /\ designPhase' = "uploading"
      BY <1>5, <2>6 DEF Design!runBuildVariants
    <3> HIDE DEF ArtOf
    <3>2. QED BY <2>1, <2>3, <2>4, <2>6, <3>1 DEF TaskInv
  <2>7. QED BY <2>1, <2>5, <2>6
<1>6. CASE Design!Uploaded
  <2>1. /\ designPhase = "uploading" /\ designPhase' = "signing" /\ task' = task
        /\ designBase' = designBase /\ rows' = rows /\ art' = art
    BY <1>6 DEF Design!Uploaded, Design!designVars
  <2>2. ArtOf(rows', designBase') = ArtOf(rows, designBase) BY <2>1
  <2>3. QED BY <2>1, <2>2 DEF TaskInv, Design!NoTask
<1>7. CASE Design!Finish \/ Design!Fail
  <2>1. task' = Design!NoTask BY <1>7 DEF Design!Finish, Design!Fail, Design!NoTask
  <2>2. QED BY <2>1 DEF TaskInv, Design!NoTask
<1>8. QED BY <1>1, <1>2, <1>3, <1>4, <1>5, <1>6, <1>7, DesignCases DEF Handles

LEMMA DesignStep == DesignInv /\ [Design!Next]_(Design!vars) => DesignInv'
<1> SUFFICES ASSUME DesignInv, [Design!Next]_(Design!vars) PROVE DesignInv'
  OBVIOUS
<1>1. CASE Design!Next
  <2>1. EditorInv'
    <3>1. ASSUME NEW b \in DesignBases, Design!PickBase(b) PROVE EditorInv'
      BY <3>1, PickInv DEF DesignInv
    <3>2. QED BY <1>1, <3>1, DesignCases, EditsKeepEditor, HandlesKeepEditor DEF DesignInv
  <2>2. QED BY <1>1, <2>1, LocksStep, TaskStep DEF DesignInv
<1>2. CASE UNCHANGED Design!vars
  <2>1. /\ designBase' = designBase /\ UNCHANGED Design!designVars /\ rows' = rows
        /\ locked' = locked /\ task' = task /\ designPhase' = designPhase /\ art' = art
    BY <1>2 DEF Design!vars, Design!designVars
  <2>2. EditorInv' BY <2>1, SameEditor DEF DesignInv
  <2>3. LocksInv' BY <2>1 DEF LocksInv, DesignInv
  <2>4. ArtOf(rows', designBase') = ArtOf(rows, designBase) BY <2>1
  <2>5. TaskInv' BY <2>1, <2>4 DEF TaskInv, DesignInv, Design!NoTask
  <2>6. QED BY <2>2, <2>3, <2>5 DEF DesignInv
<1>3. QED BY <1>1, <1>2

LEMMA DesignStart == PagesInit => DesignInv
<1> SUFFICES ASSUME Design!Init PROVE DesignInv
  BY DEF PagesInit
<1>1. EditorInv BY EditorInit
<1>2. LocksInv BY DEF Design!Init, LocksInv
<1>3. TaskInv BY DEF Design!Init, TaskInv
<1>4. QED BY <1>1, <1>2, <1>3 DEF DesignInv

(* What is signed is what the rows show.                                   *)
LEMMA ShownIsMinted == ASSUME DesignInv PROVE Design!MintsWhatIsShown
<1> SUFFICES ASSUME task.kind = "launch", designPhase \in {"uploading", "signing"}
             PROVE  /\ task.base = designBase /\ Len(art) = Len(rows)
                    /\ \A i \in DOMAIN art :
                         LET parts == PartLabels[designBase]
                         IN  IF parts = <<>> THEN art[i] = <<rows[i].palette["primary"]>>
                             ELSE \A p \in DOMAIN parts : art[i][p] = rows[i].palette[parts[p]]
  BY DEF Design!MintsWhatIsShown
<1>1. task.base = designBase /\ designBase # NoDesignBase /\ art = ArtOf(rows, designBase)
  BY DEF DesignInv, TaskInv, Design!NoTask
<1>2. designBase \in DesignBases BY <1>1 DEF DesignInv, EditorInv
<1>3. /\ Len(rows) \in Nat /\ DOMAIN rows = 1..Len(rows)
      /\ \A i \in DOMAIN rows : DOMAIN rows[i].palette = PartsOf(designBase)
  BY <1>2, RowFacts, DesignConstants DEF LabelSet, DesignInv
<1>4. DOMAIN art = 1..Len(rows)
      /\ \A i \in DOMAIN art : art[i] = Design!resolvePartColors(rows[i].palette, designBase)
  BY <1>1, <1>3 DEF ArtOf
<1>5. Len(art) = Len(rows)
  <2>1. art = [i \in 1..Len(rows) |-> Design!resolvePartColors(rows[i].palette, designBase)]
    BY <1>1, <1>3 DEF ArtOf
  <2>2. QED BY <1>3, <2>1
<1>6. ASSUME NEW i \in DOMAIN art, PartLabels[designBase] = <<>>
      PROVE  art[i] = <<rows[i].palette["primary"]>>
  <2>1. "primary" \in DOMAIN rows[i].palette BY <1>3, <1>4, <1>6 DEF PartsOf
  <2>2. art[i] = [k \in DOMAIN <<"primary">> |->
                    IF <<"primary">>[k] \in DOMAIN rows[i].palette
                    THEN rows[i].palette[<<"primary">>[k]] ELSE Design!Gray]
    BY <1>4, <1>6 DEF Design!resolvePartColors
  <2>3. DOMAIN <<"primary">> = 1..1 /\ \A k \in 1..1 : <<"primary">>[k] = "primary" OBVIOUS
  <2>4. art[i] = [k \in 1..1 |-> rows[i].palette["primary"]] BY <2>1, <2>2, <2>3
  <2>5. QED BY <2>4
<1>7. ASSUME NEW i \in DOMAIN art, PartLabels[designBase] # <<>>,
             NEW p \in DOMAIN PartLabels[designBase]
      PROVE  art[i][p] = rows[i].palette[PartLabels[designBase][p]]
  <2>1. PartLabels[designBase][p] \in DOMAIN rows[i].palette
    BY <1>3, <1>4, <1>7 DEF PartsOf, Design!ToSet
  <2>2. QED BY <1>4, <1>7, <2>1 DEF Design!resolvePartColors
<1>8. QED BY <1>1, <1>5, <1>6, <1>7

LEMMA RowsStayWhole == ASSUME DesignInv PROVE Design!RowsAreWhole
<1>1. designBase # NoDesignBase =>
        \A i \in DOMAIN rows : DOMAIN rows[i].palette = Design!ToSet(Design!Labels)
  <2> SUFFICES ASSUME designBase # NoDesignBase, NEW i \in DOMAIN rows
               PROVE  DOMAIN rows[i].palette = Design!ToSet(Design!Labels)
    OBVIOUS
  <2>1. designBase \in DesignBases BY DEF DesignInv, EditorInv
  <2>2. DOMAIN rows[i].palette = LabelSet(designBase) BY RowFacts DEF DesignInv
  <2>3. Design!ToSet(Design!Labels) = PartsOf(designBase)
    BY <2>1, LabelsAreParts DEF Design!Labels, LabelsOf
  <2>4. QED BY <2>2, <2>3 DEF LabelSet
<1>2. ~perVariant => \A i \in DOMAIN rows : rows[i].price = globalPrice
  BY DEF DesignInv, EditorInv, OnePrice
<1>3. ASSUME NEW i \in rolled, NEW j \in rolled, i # j
      PROVE  rows[i].palette # rows[j].palette
  <2>1. Apart(designBase, rows, rolled) BY DEF DesignInv, EditorInv
  <2>2. PICK N \in 1..720, c \in Int, l \in LabelSet(designBase) : Turned(rows, rolled, N, c, l)
    BY <2>1 DEF Apart
  <2>3. /\ i \in 1..N /\ j \in 1..N
        /\ rows[i].palette[l] = (c + Turn(i, N)) % 720
        /\ rows[j].palette[l] = (c + Turn(j, N)) % 720
    BY <2>2 DEF Turned
  <2>4. i < j \/ j < i BY <1>3, <2>3
  <2>5. ASSUME NEW v \in 1..N, NEW w \in 1..N, v < w
        PROVE  HueAt(c, v, N) # HueAt(c, w, N)
    BY <2>5, HuesDiffer
  <2>6. rows[i].palette[l] = HueAt(c, i, N) /\ rows[j].palette[l] = HueAt(c, j, N)
    BY <2>3 DEF HueAt
  <2>7. rows[i].palette[l] # rows[j].palette[l] BY <2>3, <2>4, <2>5, <2>6
  <2>8. QED BY <2>7
<1>4. QED BY <1>1, <1>2, <1>3 DEF Design!RowsAreWhole

(* Whatever happens around the click: a model is minted with the words of  *)
(* its own mesh and a whole form; a collection of exactly the colors and   *)
(* prices its rows show, no part of a palette missing, the variants of one *)
(* roll all different.                                                     *)
THEOREM MintsStayWhole == PagesSpec => []MintsAreWhole
<1>1. MintInv /\ DesignInv => MintsAreWhole
  BY ShownIsMinted, RowsStayWhole DEF MintsAreWhole, MintInv, WholeMints, Mint!MintsAreWhole
<1>2. MintInv /\ DesignInv /\ [PagesNext]_pagesVars => MintInv' /\ DesignInv'
  <2>1. [PagesNext]_pagesVars => [Design!Next]_(Design!vars)
    <3>1. Design!Next \/ UNCHANGED editVars \/ ~[PagesNext]_pagesVars BY DEF PagesNext, pagesVars
    <3>2. UNCHANGED editVars => UNCHANGED Design!vars
      BY DEF editVars, Design!vars, Design!designVars
    <3>3. QED BY <3>1, <3>2
  <2>2. QED BY <2>1, PageSteps, MintNextInv, DesignStep
<1>3. QED BY <1>1, <1>2, MintInitInv, DesignStart, PTL DEF PagesSpec

-----------------------------------------------------------------------------
(* The types of the pages, besides what their invariants hold.             *)

(* The launch page.                                                        *)
LaunchBounds ==
    /\ session \in BOOLEAN /\ owned \subseteq Entitled
    /\ unlocked \in {"none", "entitlement", "creator"} /\ variantGlbs \in Bases \cup {NoBase}
    /\ \A f \in flows : f.collection \in 0..Len(collections)

LEMMA LaunchBoundsStep ==
    ASSUME IInv, LaunchBounds, [Next]_vars
    PROVE  LaunchBounds'
<1>0. flows \subseteq Flow /\ collections \in Seq(Collection) /\ Len(collections) \in Nat
      /\ baseGlb \in Bases \cup {NoBase}
  BY DEF IInv, Typed
<1>1. ASSUME session' \in BOOLEAN, owned' \subseteq Entitled,
             unlocked' \in {"none", "entitlement", "creator"},
             variantGlbs' \in Bases \cup {NoBase},
             Len(collections') \in Nat, Len(collections) <= Len(collections'),
             \A g \in flows' : \/ g.collection \in {0, Len(collections')}
                               \/ \E f \in flows : g.collection = f.collection
      PROVE  LaunchBounds'
  BY <1>0, <1>1 DEF LaunchBounds
<1>2. ASSUME UNCHANGED <<session, owned>>,
             unlocked' \in {unlocked, "none", "entitlement", "creator"},
             variantGlbs' \in Bases \cup {NoBase}, collections' = collections,
             \A g \in flows' : g.collection = 0 \/ \E f \in flows : g.collection = f.collection
      PROVE  LaunchBounds'
  BY <1>0, <1>1, <1>2 DEF LaunchBounds
<1>3. ASSUME Click PROVE LaunchBounds'
  <2>1. \A k : NewFlow(k).collection = 0 BY DEF NewFlow
  <2>2. ASSUME NEW m \in Bases, PickBase(m) PROVE LaunchBounds'
    <3>1. [NewFlow("pick") EXCEPT !.base = m].collection = 0 BY DEF NewFlow
    <3>2. flows' \subseteq flows \cup {[NewFlow("pick") EXCEPT !.base = m]} BY <2>2 DEF PickBase
    <3>3. QED BY <1>2, <2>2, <3>1, <3>2 DEF PickBase
  <2>3. CASE onUnlock BY <1>2, <2>1, <2>3 DEF onUnlock, LaunchBounds
  <2>4. CASE onPreview \/ onLaunch \/ onMintEncrypted
    BY <1>2, <2>1, <2>4 DEF onPreview, onLaunch, onMintEncrypted, LaunchBounds
  <2>5. QED BY <1>3, <2>2, <2>3, <2>4 DEF Click
<1>4. ASSUME NEW f \in flows, Continue(f) PROVE LaunchBounds'
  <2>0. f \in Flow BY <1>0
  <2>1. CASE FinishPick(f) \/ FinishUnlock(f)
    <3>1. flows' \subseteq flows BY <2>1 DEF FinishPick, FinishUnlock, Ends, Fail
    <3>2. QED
      BY <1>2, <2>1, <3>1 DEF FinishPick, FinishUnlock, decryptEncryptedBase, LaunchBounds
  <2>2. CASE runBuildVariants(f)
    <3>1. variantGlbs' \in {variantGlbs, f.glb} /\ f.glb \in Bases \cup {NoBase}
      BY <2>0, <2>2 DEF runBuildVariants, Flow
    <3>2. [f EXCEPT !.step = "register"].collection = f.collection BY <2>0 DEF Flow
    <3>3. \A g \in flows' : \E h \in flows : g.collection = h.collection
      BY <2>2, <3>2 DEF runBuildVariants, Ends, Becomes, Fail
    <3>4. /\ session' \in BOOLEAN /\ owned' \subseteq Entitled
          /\ UNCHANGED <<unlocked, collections>>
      BY <2>2 DEF runBuildVariants, LaunchBounds
    <3>5. QED BY <1>0, <1>1, <3>1, <3>3, <3>4 DEF LaunchBounds
  <2>3. CASE Register(f) \/ Relay(f) \/ Certify(f)
    <3>1. /\ [f EXCEPT !.step = "relay", !.registered = @ + 1].collection = f.collection
          /\ [f EXCEPT !.step = "certify"].collection = f.collection
          /\ [f EXCEPT !.failed = @ + 1].collection = f.collection
          /\ [f EXCEPT !.step = "charge"].collection = f.collection
      BY <2>0 DEF Flow
    <3>2. \A g \in flows' : \E h \in flows : g.collection = h.collection
      BY <2>3, <3>1 DEF Register, Relay, Certify, Becomes, Ends, Fail
    <3>3. QED BY <1>2, <2>3, <3>2 DEF Register, Relay, Certify, LaunchBounds
  <2>4. CASE SignLaunch(f) \/ LaunchCap(f)
    <3>1. \/ Len(collections') = Len(collections) + 1
          \/ collections' = collections
      BY <1>0, <2>4 DEF SignLaunch, LaunchCap
    <3>2. [f EXCEPT !.step = "mint", !.collection = Len(collections) + 1].collection
            = Len(collections) + 1
      BY <2>0 DEF Flow
    <3>3. \A g \in flows' : g \in flows \/ g.collection = Len(collections')
      <4>1. CASE SignLaunch(f)
        <5>1. flows' \subseteq flows BY <4>1 DEF SignLaunch, Ends, Fail
        <5>2. QED BY <5>1
      <4>2. CASE LaunchCap(f) /\ ~(flows' \subseteq flows)
        <5>1. /\ collections' = Append(collections, [base |-> f.base, art |-> NoBase, tokens |-> FALSE])
              /\ Becomes(f, [f EXCEPT !.step = "mint", !.collection = Len(collections) + 1])
          BY <4>2 DEF LaunchCap, Ends, Fail
        <5>2. Len(collections') = Len(collections) + 1 BY <1>0, <5>1
        <5>3. QED BY <3>2, <5>1, <5>2 DEF Becomes
      <4>3. QED BY <2>4, <4>1, <4>2
    <3>4. UNCHANGED <<session, owned, unlocked, variantGlbs>>
      BY <2>4 DEF SignLaunch, LaunchCap
    <3>5. QED BY <1>0, <1>1, <3>1, <3>3, <3>4 DEF LaunchBounds
  <2>5. CASE MintTokens(f)
    <3>1. Len(collections') = Len(collections) BY <1>0, <2>5 DEF MintTokens
    <3>2. flows' \subseteq flows BY <2>5 DEF MintTokens, Ends, Fail
    <3>3. UNCHANGED <<session, owned, unlocked, variantGlbs>> BY <2>5 DEF MintTokens
    <3>4. QED BY <1>0, <1>1, <3>1, <3>2, <3>3 DEF LaunchBounds
  <2>6. QED BY <1>4, <2>1, <2>2, <2>3, <2>4, <2>5 DEF Continue
<1>5. CASE SignOut \/ SignInAgain \/ LoadOwnedEntitlements \/ Leave \/ Reload \/ UNCHANGED vars
  <2>1. /\ session' \in BOOLEAN /\ owned' \subseteq Entitled
        /\ unlocked' \in {"none", "entitlement", "creator"}
        /\ variantGlbs' \in Bases \cup {NoBase}
    BY <1>5 DEF SignOut, SignInAgain, LoadOwnedEntitlements, Leave, Reload, Mount, vars,
                pageVars, LaunchBounds
  <2>2. collections' = collections
    BY <1>5 DEF SignOut, SignInAgain, LoadOwnedEntitlements, Leave, Reload, Mount, vars
  <2>3. \A g \in flows' : \E f \in flows : g.collection = f.collection
    <3>1. ASSUME NEW f \in flows, NEW n PROVE [f EXCEPT !.left = n].collection = f.collection
      BY <1>0 DEF Flow
    <3>2. ASSUME NEW g \in flows', Leave PROVE \E f \in flows : g.collection = f.collection
      <4>1. CASE flows' = flows BY <4>1
      <4>2. CASE flows' # flows
        <5>1. PICK n \in 1..MaxLeft :
                 flows' = {IF Here(f) THEN [f EXCEPT !.left = n] ELSE f : f \in flows}
          BY <3>2, <4>2 DEF Leave
        <5>2. PICK f \in flows : g = IF Here(f) THEN [f EXCEPT !.left = n] ELSE f
          BY <3>2, <5>1
        <5>3. g.collection = f.collection BY <3>1, <5>2
        <5>4. QED BY <5>3
      <4>3. QED BY <4>1, <4>2
    <3>3. CASE SignOut \/ SignInAgain \/ LoadOwnedEntitlements \/ Reload \/ UNCHANGED vars
      BY <3>3 DEF SignOut, SignInAgain, LoadOwnedEntitlements, Reload, vars
    <3>4. QED BY <1>5, <3>2, <3>3
  <2>4. QED BY <1>0, <1>1, <2>1, <2>2, <2>3
<1>6. QED BY <1>3, <1>4, <1>5 DEF Next

LEMMA LaunchBoundsStart == Init => LaunchBounds
BY DEF Init, LaunchBounds

LEMMA LaunchIsTyped == IInv /\ LaunchBounds => TypeOK
BY DEF IInv, Typed, LaunchBounds, TypeOK

-----------------------------------------------------------------------------
(* The track: laps last no longer than the longest, the record of a car is *)
(* a lap of some car, and builds are numbered.                             *)
LapBounds ==
    /\ lap \in Track!LapStates /\ pb \in 0..MaxLap
    /\ best \in [Track!AllCars -> [ms : 0..MaxLap, by : Track!AllCars]]
    /\ lastResult \in BOOLEAN /\ orbitDone \in BOOLEAN

TrackBounds ==
    /\ LapBounds /\ counted \in BOOLEAN
    /\ \A b \in builds : b.n \in 1..built

LEMMA TrackBoundsStart == Track!Init => TrackBounds
<1> SUFFICES ASSUME Track!Init PROVE TrackBounds OBVIOUS
<1>1. MaxLap \in Nat BY PagesAssumption DEF Track!TrackAssumption
<1>2. /\ lap = Track!initialLapState /\ pb = 0 /\ builds = {}
      /\ best = [c \in Track!AllCars |-> [ms |-> 0, by |-> c]]
      /\ lastResult = FALSE /\ orbitDone = FALSE /\ counted = FALSE
  BY DEF Track!Init
<1>3. best \in [Track!AllCars -> [ms : 0..MaxLap, by : Track!AllCars]] BY <1>1, <1>2
<1>4. lastResult \in BOOLEAN /\ orbitDone \in BOOLEAN /\ counted \in BOOLEAN BY <1>2
<1>5. QED BY <1>1, <1>2, <1>3, <1>4, FreshLaps DEF TrackBounds, LapBounds

(* A change of the car or of the phase: the lap begins anew.               *)
LEMMA EffectsBound ==
    ASSUME TrackInv, TrackBounds, NEW car \in Track!AllCars \cup {NoCar}, NEW ph,
           Track!Effects(car, ph), best' = best
    PROVE  LapBounds' /\ \A b \in builds' : b.n \in 1..built'
<1>0. built \in Nat /\ builds \subseteq Builds BY DEF TrackInv, TrackTypes
<1>1. Track!PbOnSelect(car) \in 0..MaxLap
  <2>1. MaxLap \in Nat BY PagesAssumption DEF Track!TrackAssumption
  <2>2. QED BY <2>1 DEF Track!PbOnSelect, TrackBounds, LapBounds
<1>2. lap' \in Track!LapStates /\ pb' \in 0..MaxLap
  BY <1>1, FreshLaps DEF Track!Effects, TrackBounds, LapBounds
<1>3. lastResult' \in BOOLEAN /\ orbitDone' \in BOOLEAN
  BY DEF Track!Effects, TrackBounds, LapBounds
<1>4. \A b \in Track!Cancelled : b.n \in 1..built
  <2>1. \A x \in builds : [x EXCEPT !.cancelled = TRUE].n = x.n BY <1>0 DEF Builds
  <2>2. QED BY <2>1 DEF Track!Cancelled, TrackBounds
<1>5. ASSUME UNCHANGED <<builds, built>>
      PROVE  \A b \in builds' : b.n \in 1..built'
  BY <1>5 DEF TrackBounds
<1>6. ASSUME builds' = Track!Cancelled, built' = built
      PROVE  \A b \in builds' : b.n \in 1..built'
  BY <1>4, <1>6
<1>7. ASSUME built' = built + 1,
             builds' = Track!Cancelled \cup
               {[n |-> built', car |-> car, stage |-> "fetch", cancelled |-> FALSE]}
      PROVE  \A b \in builds' : b.n \in 1..built'
  <2>1. [n |-> built', car |-> car, stage |-> "fetch", cancelled |-> FALSE].n = built' OBVIOUS
  <2>2. built' \in 1..built' /\ 1..built \subseteq 1..built' BY <1>0, <1>7
  <2>3. \A b \in builds' : b \in Track!Cancelled \/ b.n = built' BY <1>7, <2>1
  <2>4. QED BY <1>4, <2>2, <2>3
<1>8. \A b \in builds' : b.n \in 1..built' BY <1>5, <1>6, <1>7 DEF Track!Effects
<1>9. QED BY <1>2, <1>3, <1>8 DEF LapBounds, TrackBounds

LEMMA TellBounds ==
    ASSUME LapBounds, NEW s \in TrackScenes, NEW l \in Track!LapStates, Track!Tell(s, l)
    PROVE  LapBounds' /\ UNCHANGED <<builds, built>>
<1>1. l.ms \in 0..MaxLap /\ s.car \in Track!AllCars BY DEF Track!LapStates, TrackScenes
<1>2. lap' = l /\ pb' \in {pb, l.ms} /\ orbitDone' = orbitDone /\ UNCHANGED <<builds, built>>
  BY DEF Track!Tell
<1>3. best' \in {best, [best EXCEPT ![Track!selected] = [ms |-> l.ms, by |-> s.car]]}
  BY DEF Track!Tell
<1>4. best' \in [Track!AllCars -> [ms : 0..MaxLap, by : Track!AllCars]]
  BY <1>1, <1>3 DEF LapBounds
<1>5. lastResult' \in BOOLEAN BY DEF Track!Tell
<1>6. QED BY <1>1, <1>2, <1>4, <1>5 DEF LapBounds

LEMMA DispatchBounds ==
    ASSUME LapBounds, NEW s \in TrackScenes, NEW l \in Track!LapStates, Track!Dispatch(s, l)
    PROVE  LapBounds' /\ UNCHANGED <<builds, built>>
BY TellBounds DEF Track!Dispatch, LapBounds

(* Whom the page may have selected.                                        *)
LEMMA SelectedKnown ==
    ASSUME NEW found \in SUBSET Cars, NEW pick
    PROVE  Track!SelectedOf(found, pick) \in Track!AllCars \cup {NoCar}
BY DEF Track!SelectedOf, Track!AllCars

LEMMA TrackBoundsStep ==
    ASSUME TrackInv, TrackBounds, [Track!Next]_(Track!vars)
    PROVE  TrackBounds'
<1>0. carsOwned \subseteq Cars /\ builds \subseteq Builds BY DEF TrackInv, TrackTypes
<1>1. ASSUME scene # Track!NoScene PROVE scene \in TrackScenes /\ scene.lap \in Track!LapStates
  <2>1. scene \in TrackScenes BY <1>1, SceneHasLap DEF TrackInv
  <2>2. QED BY <2>1 DEF TrackScenes
<1>2. LapBounds' /\ \A b \in builds' : b.n \in 1..built'
  <2>1. CASE UNCHANGED Track!vars BY <2>1 DEF Track!vars, TrackBounds, LapBounds
  <2>2. ASSUME LapBounds', UNCHANGED <<builds, built>>
        PROVE  LapBounds' /\ \A b \in builds' : b.n \in 1..built'
    BY <2>2 DEF TrackBounds
  <2>3. ASSUME NEW s \in TrackScenes, NEW l \in Track!LapStates, Track!Dispatch(s, l)
        PROVE  LapBounds' /\ UNCHANGED <<builds, built>>
    BY <2>3, DispatchBounds DEF TrackBounds
  <2>4. CASE Track!CountdownEnds
    <3>1. CASE scene # Track!NoScene
      <4>1. Track!introOver(scene.lap) \in Track!LapStates BY <1>1, <3>1, FreshLaps DEF Track!introOver
      <4>2. Track!Dispatch(scene, Track!introOver(scene.lap)) BY <2>4, <3>1 DEF Track!CountdownEnds
      <4>3. QED BY <1>1, <2>2, <2>3, <3>1, <4>1, <4>2
    <3>2. CASE scene = Track!NoScene
      BY <2>4, <3>2 DEF Track!CountdownEnds, TrackBounds, LapBounds
    <3>3. QED BY <3>1, <3>2
  <2>5. ASSUME NEW cars \in SUBSET Cars, Track!Found(cars)
        PROVE  LapBounds' /\ \A b \in builds' : b.n \in 1..built'
    BY <2>5, SelectedKnown, EffectsBound DEF Track!Found
  <2>6. ASSUME NEW car, Track!handleDrive(car)
        PROVE  LapBounds' /\ \A b \in builds' : b.n \in 1..built'
    BY <1>0, <2>6, SelectedKnown, EffectsBound DEF Track!handleDrive
  <2>7. CASE Track!handleChangeCar
    BY <1>0, <2>7, SelectedKnown, EffectsBound DEF Track!handleChangeCar, Track!selected
  <2>8. ASSUME NEW b \in builds, Track!Fetched(b) \/ Track!Created(b) \/ Track!BuildFails(b)
        PROVE  LapBounds' /\ \A c \in builds' : c.n \in 1..built'
    <3>1. [b EXCEPT !.stage = "create"].n = b.n BY <1>0 DEF Builds
    <3>2. built' = built /\ \A c \in builds' : \E d \in builds : c.n = d.n
      BY <2>8, <3>1 DEF Track!Fetched, Track!Created, Track!BuildFails
    <3>3. lap' \in {lap, Track!waitingLapState} /\ lastResult' \in {lastResult, FALSE}
          /\ UNCHANGED <<pb, best, orbitDone>>
      BY <2>8 DEF Track!Fetched, Track!Created, Track!BuildFails
    <3>4. lastResult' \in BOOLEAN BY <3>3 DEF TrackBounds, LapBounds
    <3>5. LapBounds' BY <3>3, <3>4, FreshLaps DEF TrackBounds, LapBounds
    <3>6. QED BY <3>2, <3>5 DEF TrackBounds
  <2>9. ASSUME NEW to \in DOMAIN Track!Beside, NEW ms \in 1..MaxLap, Track!Drive(to, ms)
        PROVE  LapBounds' /\ \A b \in builds' : b.n \in 1..built'
    <3> DEFINE s == [scene EXCEPT !.at = to,
                                  !.passed = @ \/ (to = "check" /\ scene.lap.status = "running")]
               l == CASE to = "start" -> Track!finishCrossed(scene.lap, ms)
                      [] to = "check" -> Track!checkpoint(scene.lap)
                      [] OTHER -> scene.lap
    <3>1. scene # Track!NoScene /\ Track!Dispatch(s, l) BY <2>9 DEF Track!Drive, Track!Driving
    <3>2. to \in {"start", "road", "check"} BY DEF Track!Beside
    <3>3. l \in Track!LapStates BY <1>1, <3>1, <3>2, Reduced
    <3>4. (scene.passed \/ (to = "check" /\ scene.lap.status = "running")) \in BOOLEAN BY Zenon
    <3>5. s \in TrackScenes BY <1>1, <3>1, <3>2, <3>4 DEF TrackScenes
    <3> HIDE DEF s, l
    <3>6. QED BY <2>2, <2>3, <3>1, <3>3, <3>5
  <2>10. CASE Track!Throttle
    <3>1. scene # Track!NoScene BY <2>10 DEF Track!Throttle, Track!Driving
    <3>2. [scene EXCEPT !.passed = FALSE] \in TrackScenes BY <1>1, <3>1 DEF TrackScenes
    <3>3. Track!throttle(scene.lap) \in Track!LapStates
      BY <1>1, <3>1 DEF Track!throttle, Track!LapStates
    <3>4. QED BY <2>2, <2>3, <2>10, <3>2, <3>3 DEF Track!Throttle
  <2>11. CASE Track!Tick
    <3>1. scene # Track!NoScene BY <2>11 DEF Track!Tick, Track!Driving
    <3>2. QED BY <1>1, <2>11, <3>1 DEF Track!Tick, TrackBounds, LapBounds
  <2>12. CASE Track!IntroSkip
    <3>1. scene # Track!NoScene BY <2>12 DEF Track!IntroSkip
    <3>2. Track!introOver(scene.lap) \in Track!LapStates BY <1>1, <3>1, FreshLaps DEF Track!introOver
    <3>3. QED BY <1>1, <2>2, <2>3, <2>12, <3>1, <3>2 DEF Track!IntroSkip
  <2>13. CASE Track!OrbitComplete
    <3>1. orbitDone' \in BOOLEAN BY <2>13 DEF Track!OrbitComplete
    <3>2. QED BY <2>13, <3>1 DEF Track!OrbitComplete, TrackBounds, LapBounds
  <2>14. CASE Track!handleRetry
    <3>1. scene # Track!NoScene /\ Track!Tell([scene EXCEPT !.at = "start"], Track!waitingLapState)
      BY <2>14 DEF Track!handleRetry
    <3>2. [scene EXCEPT !.at = "start"] \in TrackScenes BY <1>1, <3>1 DEF TrackScenes
    <3>3. QED BY <2>2, <3>1, <3>2, FreshLaps, TellBounds DEF TrackBounds
  <2>15. QED
    BY <2>1, <2>4, <2>5, <2>6, <2>7, <2>8, <2>9, <2>10, <2>11, <2>12, <2>13, <2>14
    DEF Track!Next, Track!Step
<1>3. counted' \in BOOLEAN
  <2>1. Track!Counting' \in BOOLEAN BY DEF Track!Counting
  <2>2. counted \in BOOLEAN BY DEF TrackBounds
  <2>3. counted' \in {counted, Track!Counting', counted /\ Track!Counting'}
    BY DEF Track!Next, Track!CountdownEnds, Track!vars
  <2>4. (counted /\ Track!Counting') \in BOOLEAN BY Zenon
  <2>5. QED BY <2>1, <2>2, <2>3, <2>4
<1>4. QED BY <1>2, <1>3 DEF TrackBounds

LEMMA TrackIsTyped == TrackInv /\ TrackBounds => Track!TypeOK
<1> SUFFICES ASSUME TrackInv, TrackBounds PROVE Track!TypeOK OBVIOUS
<1>1. scene = Track!NoScene \/ (scene.car \in Track!AllCars /\ scene.lap \in Track!LapStates)
  BY DEF TrackInv, TrackTypes, TrackScenes
<1>2. \A b \in builds : b.n \in 1..built /\ b.car \in Track!AllCars /\ b.stage \in {"fetch", "create"}
  BY DEF TrackInv, TrackTypes, Builds, TrackBounds
<1>3. {override, error, lastResult, orbitDone, counted} \subseteq BOOLEAN
  BY DEF TrackInv, TrackTypes, TrackBounds, LapBounds
<1>4. QED BY <1>1, <1>2, <1>3 DEF TrackInv, TrackTypes, TrackBounds, LapBounds, Track!TypeOK

-----------------------------------------------------------------------------
(* The publish page: nothing on it is of a model that was never loaded.    *)
Statuses == {"idle", "thinking", "done", "error", "quota", "unavailable"}
KnownAsks == [stage : {"none", "capturing", "sent", "failed"}, of : 0..MaxMints,
              at : 0..MaxMints, live : BOOLEAN]

SourceBounds ==
    /\ mintSession \in Minters \cup {None} /\ mode \in {"tripo", "upload"}
    /\ glb \in 0..MaxMints /\ nudge \in 0..MaxMints
    /\ generating \in BOOLEAN /\ modelConfirmed \in BOOLEAN

AskBounds == caption \in Mint!Captions /\ status \in Statuses /\ ask \in KnownAsks

PublishBounds ==
    /\ mintStatus \in {"idle", "uploading", "signing", "success", "error"}
    /\ \A m \in mints \cup ({published} \ {Mint!NoMint}) : m.caption \in Mint!Captions

MintBounds == SourceBounds /\ AskBounds /\ PublishBounds

LEMMA MintLimit == MaxMints \in Nat
BY PagesAssumption DEF Mint!MintAssumption

LEMMA Captionless == Mint!NoCaption \in Mint!Captions /\ Mint!NoAsk \in KnownAsks
BY MintLimit DEF Mint!NoCaption, Mint!NoAsk, Mint!Captions, KnownAsks

LEMMA MintBoundsStart == Mint!Init => MintBounds
<1> SUFFICES ASSUME Mint!Init PROVE MintBounds OBVIOUS
<1>1. generating = FALSE /\ modelConfirmed = FALSE BY DEF Mint!Init
<1>2. generating \in BOOLEAN /\ modelConfirmed \in BOOLEAN BY <1>1
<1>3. SourceBounds BY <1>2, MintLimit DEF Mint!Init, SourceBounds
<1>4. AskBounds BY Captionless DEF Mint!Init, AskBounds, Statuses
<1>5. PublishBounds BY DEF Mint!Init, PublishBounds
<1>6. QED BY <1>3, <1>4, <1>5 DEF MintBounds

LEMMA ResetBounds ==
    ASSUME AskBounds, Mint!Reset PROVE status' \in Statuses /\ ask' \in KnownAsks
<1>1. [ask EXCEPT !.live = FALSE] \in KnownAsks BY DEF AskBounds, KnownAsks
<1>2. QED BY <1>1, Captionless DEF Mint!Reset, Statuses

LEMMA LoadBounds ==
    ASSUME MintBounds, Mint!setGlbBytes
    PROVE  /\ glb' \in 0..MaxMints /\ nudge' \in 0..MaxMints /\ modelConfirmed' \in BOOLEAN
           /\ AskBounds' /\ mintStatus' = "idle"
<1>1. glb' \in 0..MaxMints /\ nudge' = 0 /\ modelConfirmed' = FALSE /\ mintStatus' = "idle"
      /\ Mint!Reset /\ caption' = Mint!NoCaption
  BY MintLimit DEF Mint!setGlbBytes, Mint!ClearCaption, MintBounds, SourceBounds
<1>2. AskBounds' BY <1>1, ResetBounds, Captionless DEF MintBounds, AskBounds
<1>3. modelConfirmed' \in BOOLEAN BY <1>1
<1>4. QED BY <1>1, <1>2, <1>3, MintLimit

LEMMA SendBounds ==
    ASSUME MintBounds, NEW frames \in 0..MaxMints, Mint!Send(frames)
    PROVE  status' \in Statuses /\ ask' \in KnownAsks
<1>1. [stage |-> "sent", of |-> frames, at |-> glb, live |-> TRUE] \in KnownAsks
  BY DEF MintBounds, SourceBounds, KnownAsks
<1>2. QED BY <1>1, Captionless DEF Mint!Send, Statuses, MintBounds, AskBounds

LEMMA ProceedBounds ==
    ASSUME MintBounds, Mint!proceedMint PROVE PublishBounds'
<1>1. CASE UNCHANGED Mint!minting BY <1>1 DEF Mint!minting, MintBounds, PublishBounds
<1>2. ASSUME NEW m, mintStatus' = "uploading", published' = published, mints' = mints \cup {m},
             m.caption \in {caption, Mint!NoCaption}
      PROVE  PublishBounds'
  BY <1>2, Captionless DEF MintBounds, AskBounds, PublishBounds
<1>3. QED BY <1>1, <1>2 DEF Mint!proceedMint

LEMMA MintBoundsStep ==
    ASSUME MintInv, MintBounds, [Mint!Next]_(Mint!vars)
    PROVE  MintBounds'
<1> USE DEF MintBounds
<1>1. ASSUME UNCHANGED <<mintSession, mode, glb, nudge, generating, modelConfirmed>>
      PROVE  SourceBounds'
  BY <1>1 DEF SourceBounds
<1>2. ASSUME UNCHANGED Mint!captioner PROVE AskBounds'
  BY <1>2 DEF AskBounds, Mint!captioner
<1>3. ASSUME UNCHANGED Mint!minting PROVE PublishBounds'
  BY <1>3 DEF PublishBounds, Mint!minting
<1>4. CASE UNCHANGED Mint!vars
  BY <1>1, <1>2, <1>3, <1>4 DEF Mint!vars, Mint!model
<1>5. ASSUME NEW a \in Minters \cup {None}, Mint!SessionChanges(a) PROVE MintBounds'
  <2>1. SourceBounds' BY <1>5 DEF Mint!SessionChanges, Mint!model, SourceBounds
  <2>2. AskBounds' BY <1>5, ResetBounds DEF Mint!SessionChanges, AskBounds
  <2>3. QED BY <1>3, <1>5, <2>1, <2>2 DEF Mint!SessionChanges
<1>6. CASE Mint!SetMode
  <2>1. SourceBounds'
    BY <1>6, MintLimit DEF Mint!SetMode, Mint!ClearCaption, SourceBounds
  <2>2. AskBounds'
    BY <1>6, ResetBounds, Captionless DEF Mint!SetMode, Mint!ClearCaption, AskBounds
  <2>3. QED BY <1>3, <1>6, <2>1, <2>2 DEF Mint!SetMode
<1>7. CASE Mint!Upload
  <2>1. SourceBounds' /\ AskBounds' BY <1>7, LoadBounds DEF Mint!Upload, SourceBounds
  <2>2. PublishBounds' BY <1>7, LoadBounds DEF Mint!Upload, PublishBounds
  <2>3. QED BY <2>1, <2>2
<1>8. CASE Mint!Generate
  <2>1. generating' \in BOOLEAN BY <1>8 DEF Mint!Generate
  <2>2. SourceBounds' BY <1>8, <2>1 DEF Mint!Generate, SourceBounds
  <2>3. QED BY <1>2, <1>3, <1>8, <2>2 DEF Mint!Generate
<1>9. CASE Mint!Generated
  <2>1. generating' \in BOOLEAN /\ UNCHANGED <<mintSession, mode>>
    <3>1. generating' = FALSE BY <1>9 DEF Mint!Generated
    <3>2. QED BY <1>9, <3>1 DEF Mint!Generated
  <2>2. CASE Mint!setGlbBytes /\ UNCHANGED <<mints, published>>
    BY <2>1, <2>2, LoadBounds DEF SourceBounds, PublishBounds
  <2>3. CASE UNCHANGED <<glb, modelConfirmed, labels, Mint!captioner, nudge, Mint!minting>>
    <3>1. SourceBounds' BY <2>1, <2>3 DEF SourceBounds
    <3>2. QED BY <1>2, <1>3, <2>3, <3>1
  <2>4. QED BY <1>9, <2>2, <2>3 DEF Mint!Generated
<1>10. CASE Mint!ConfirmOrTag
  <2>1. modelConfirmed' \in BOOLEAN
    <3>1. modelConfirmed' = TRUE \/ modelConfirmed' = modelConfirmed
      BY <1>10 DEF Mint!ConfirmOrTag
    <3>2. QED BY <3>1 DEF SourceBounds
  <2>2. SourceBounds' BY <1>10, <2>1 DEF Mint!ConfirmOrTag, SourceBounds
  <2>3. QED BY <1>2, <1>3, <1>10, <2>2 DEF Mint!ConfirmOrTag
<1>11. CASE Mint!EditForm
  BY <1>1, <1>2, <1>3, <1>11 DEF Mint!EditForm, Mint!model
<1>12. CASE Mint!TypeCaption
  <2>1. [of |-> glb, at |-> glb] \in Mint!Captions BY DEF SourceBounds, Mint!Captions
  <2>2. AskBounds' BY <1>12, <2>1, Captionless DEF Mint!TypeCaption, AskBounds
  <2>3. QED BY <1>1, <1>3, <1>12, <2>2 DEF Mint!TypeCaption, Mint!model
<1>13. CASE Mint!onDescribe
  <2>1. [Mint!NoAsk EXCEPT !.stage = "capturing", !.of = glb] \in KnownAsks
    BY Captionless DEF KnownAsks, SourceBounds
  <2>2. AskBounds' BY <1>13, <2>1 DEF Mint!onDescribe, AskBounds
  <2>3. QED BY <1>1, <1>3, <1>13, <2>2 DEF Mint!onDescribe, Mint!model
<1>14. ask.of \in 0..MaxMints /\ ask.at \in 0..MaxMints BY DEF AskBounds, KnownAsks
<1>15. CASE Mint!Captured
  <2>1. ASSUME NEW frames \in {ask.of, glb}, Mint!Send(frames)
        PROVE  status' \in Statuses /\ ask' \in KnownAsks
    BY <1>14, <2>1, SendBounds DEF SourceBounds
  <2>2. AskBounds' BY <1>15, <2>1, Captionless DEF Mint!Captured, AskBounds
  <2>3. QED BY <1>1, <1>3, <1>15, <2>2 DEF Mint!Captured, Mint!model
<1>16. CASE Mint!onRetryDescribe
  <2>1. AskBounds' BY <1>14, <1>16, SendBounds DEF Mint!onRetryDescribe, AskBounds
  <2>2. QED BY <1>1, <1>3, <1>16, <2>1 DEF Mint!onRetryDescribe, Mint!model
<1>17. CASE Mint!Answered
  <2>1. [of |-> ask.of, at |-> ask.at] \in Mint!Captions BY <1>14 DEF Mint!Captions
  <2>2. [Mint!NoAsk EXCEPT !.stage = "failed", !.of = ask.of] \in KnownAsks
    BY <1>14, Captionless DEF KnownAsks
  <2>3. AskBounds' BY <1>17, <2>1, <2>2, Captionless DEF Mint!Answered, AskBounds, Statuses
  <2>4. QED BY <1>1, <1>3, <1>17, <2>3 DEF Mint!Answered, Mint!model
<1>18. CASE Mint!QuotaRecovers
  <2>1. AskBounds' BY <1>18 DEF Mint!QuotaRecovers, AskBounds, Statuses
  <2>2. QED BY <1>1, <1>3, <1>18, <2>1 DEF Mint!QuotaRecovers, Mint!model
<1>19. CASE Mint!onMint \/ Mint!PublishAnyway \/ Mint!GoBack
  <2>1. nudge' \in {nudge, 0, glb} /\ UNCHANGED <<mintSession, Mint!model, form, Mint!captioner>>
    BY <1>19 DEF Mint!onMint, Mint!PublishAnyway, Mint!GoBack
  <2>2. SourceBounds' BY <2>1, MintLimit DEF SourceBounds, Mint!model
  <2>3. Mint!proceedMint \/ UNCHANGED Mint!minting
    BY <1>19 DEF Mint!onMint, Mint!PublishAnyway, Mint!GoBack
  <2>4. PublishBounds' BY <1>3, <2>3, ProceedBounds
  <2>5. QED BY <1>2, <2>1, <2>2, <2>4
<1>20. ASSUME NEW m \in mints, Mint!MintStep(m) PROVE MintBounds'
  <2>1. m \in Mints BY DEF MintInv, WholeMints
  <2>2. /\ [m EXCEPT !.stage = "uploading"].caption = m.caption
        /\ [m EXCEPT !.stage = "signing"].caption = m.caption
    BY <2>1 DEF Mints
  <2>3. /\ mints' \subseteq mints \cup {[m EXCEPT !.stage = "uploading"], [m EXCEPT !.stage = "signing"]}
        /\ published' \in {published, m}
        /\ mintStatus' \in {mintStatus, "signing", "success", "error"}
    BY <1>20 DEF Mint!MintStep
  <2>4. m.caption \in Mint!Captions BY DEF PublishBounds
  <2>5. PublishBounds' BY <2>2, <2>3, <2>4 DEF PublishBounds
  <2>6. QED BY <1>1, <1>2, <1>20, <2>5 DEF Mint!MintStep, Mint!model
<1>21. QED
  BY <1>4, <1>5, <1>6, <1>7, <1>8, <1>9, <1>10, <1>11, <1>12, <1>13, <1>15, <1>16, <1>17, <1>18,
     <1>19, <1>20
  DEF Mint!Next

LEMMA MintIsTyped == MintInv /\ MintBounds => Mint!TypeOK
<1> SUFFICES ASSUME MintInv, MintBounds PROVE Mint!TypeOK OBVIOUS
<1>1. {glb, labels, nudge} \subseteq 0..MaxMints
  BY MintLimit DEF MintBounds, SourceBounds, MintInv, MintTypes
<1>2. form \in Mint!Forms BY DEF MintInv, MintTypes, Forms, Policies, Mint!Forms
<1>3. \A m \in mints \cup ({published} \ {Mint!NoMint}) :
        m.form \in Mint!Forms /\ m.caption \in Mint!Captions
  <2>1. \A m \in WholeMints : m.form \in Mint!Forms
    BY DEF WholeMints, Mints, Forms, Policies, Mint!Forms
  <2>2. QED BY <2>1 DEF MintInv, MintBounds, PublishBounds
<1>4. ask \in [stage : {"none", "capturing", "sent", "failed"}, of : 0..MaxMints,
               at : 0..MaxMints, live : BOOLEAN]
  BY DEF MintBounds, AskBounds, KnownAsks
<1>5. {generating, modelConfirmed} \subseteq BOOLEAN BY DEF MintBounds, SourceBounds
<1>6. caption \in Mint!Captions /\ status \in Statuses BY DEF MintBounds, AskBounds
<1>7. /\ mintSession \in Minters \cup {None} /\ mode \in {"tripo", "upload"}
      /\ mintStatus \in {"idle", "uploading", "signing", "success", "error"}
  BY DEF MintBounds, SourceBounds, PublishBounds
<1>8. QED BY <1>1, <1>2, <1>3, <1>4, <1>5, <1>6, <1>7 DEF Statuses, Mint!TypeOK

-----------------------------------------------------------------------------
(* A viewer: scenes and loads are numbered within their bounds.            *)
ViewBounds ==
    /\ viewScene \in 0..MaxViewers /\ scenes \in 0..MaxViewers /\ token \in 0..MaxViews
    /\ told \in Glbs \cup {None}
    /\ shown.of \in Glbs \cup {None} /\ shown.scene \in 0..MaxViewers
    /\ \A l \in viewLoads : l.token \in 1..MaxViews /\ l.scene \in 1..MaxViewers
    /\ viewMode \in Viewer!Modes /\ solo \subseteq Parts /\ painted \subseteq Parts

LEMMA ViewLimits ==
    /\ MaxViews \in Nat /\ MaxViewers \in Nat \ {0}
    /\ Viewer!Nothing.of = None /\ Viewer!Nothing.scene = 0 /\ 0 \in 0..MaxViewers
BY PagesAssumption DEF Viewer!ViewerAssumption, Viewer!Nothing

LEMMA ViewBoundsStart == Viewer!Init => ViewBounds
BY ViewLimits DEF Viewer!Init, ViewBounds, Viewer!Modes

(* The load effect keeps what is under way and begins at most one load.    *)
LEMMA LoadsBound ==
    ASSUME ViewInv, ViewBounds, NEW g, NEW s \in 0..MaxViewers, Viewer!LoadEffect(g, s)
    PROVE  token' \in 0..MaxViews /\ \A l \in viewLoads' : l.token \in 1..MaxViews /\ l.scene \in 1..MaxViewers
<1>0. viewLoads \subseteq ViewLoads BY DEF ViewInv, ViewTypes
<1>1. \A l \in Viewer!Cancelled : l.token \in 1..MaxViews /\ l.scene \in 1..MaxViewers
  BY <1>0 DEF Viewer!Cancelled, ViewLoads, ViewBounds
<1>2. CASE viewLoads' = Viewer!Cancelled /\ token' = token BY <1>1, <1>2 DEF ViewBounds
<1>3. CASE /\ s # 0 /\ token < MaxViews /\ token' = token + 1
           /\ viewLoads' = Viewer!Cancelled \cup
                {[token |-> token', of |-> g, scene |-> s, cancelled |-> FALSE]}
  <2>1. token' \in 1..MaxViews /\ s \in 1..MaxViewers BY <1>3, ViewLimits DEF ViewBounds
  <2>2. QED BY <1>1, <1>3, <2>1
<1>4. QED BY <1>2, <1>3 DEF Viewer!LoadEffect

LEMMA ViewBoundsStep ==
    ASSUME ViewInv, ViewBounds, [Viewer!Next]_(Viewer!vars)
    PROVE  ViewBounds'
<1>1. CASE UNCHANGED Viewer!vars BY <1>1 DEF Viewer!vars, ViewBounds
<1>2. ASSUME NEW m \in Viewer!Modes, NEW hl \in SUBSET Parts, NEW colors \in SUBSET Parts,
             Viewer!Restyle(m, hl, colors)
      PROVE  ViewBounds'
  BY <1>2 DEF Viewer!Restyle, ViewBounds
<1>3. ASSUME NEW g \in Glbs \cup {None}, Viewer!SetGlb(g) PROVE ViewBounds'
  <2>1. token' \in 0..MaxViews /\ \A l \in viewLoads' : l.token \in 1..MaxViews /\ l.scene \in 1..MaxViewers
    BY <1>3, LoadsBound DEF Viewer!SetGlb, ViewBounds
  <2>2. QED BY <1>3, <2>1 DEF Viewer!SetGlb, Viewer!styleVars, ViewBounds
<1>4. CASE Viewer!dispose \/ Viewer!remount
  BY <1>4 DEF Viewer!dispose, Viewer!remount, Viewer!styleVars, ViewBounds
<1>5. CASE Viewer!Commit
  <2>1. viewScene' \in 0..MaxViewers /\ scenes' \in 0..MaxViewers
    BY <1>5, ViewLimits DEF Viewer!Commit, ViewBounds
  <2>2. token' \in 0..MaxViews /\ \A l \in viewLoads' : l.token \in 1..MaxViews /\ l.scene \in 1..MaxViewers
    BY <1>5, <2>1, LoadsBound DEF Viewer!Commit
  <2>3. shown' = Viewer!Nothing /\ UNCHANGED <<told, viewMode, solo, painted>>
    BY <1>5 DEF Viewer!Commit, Viewer!styleVars
  <2>4. QED BY <2>1, <2>2, <2>3, ViewLimits DEF ViewBounds
<1>6. CASE Viewer!Unmount
  <2>1. \A l \in viewLoads' : l.token \in 1..MaxViews /\ l.scene \in 1..MaxViewers
    BY <1>6 DEF Viewer!Unmount, Viewer!Cancelled, ViewInv, ViewTypes, ViewLoads, ViewBounds
  <2>2. QED BY <1>6, <2>1, ViewLimits DEF Viewer!Unmount, Viewer!styleVars, ViewBounds
<1>7. ASSUME NEW l \in viewLoads, Viewer!Loaded(l) \/ Viewer!LoadFails(l) PROVE ViewBounds'
  <2>1. viewLoads' \subseteq viewLoads /\ UNCHANGED <<viewScene, scenes, token, viewMode, solo, painted>>
    BY <1>7 DEF Viewer!Loaded, Viewer!LoadFails, Viewer!styleVars
  <2>2. l.of \in Glbs /\ l.scene \in 0..MaxViewers
    BY DEF ViewInv, ViewTypes, ViewLoads, ViewBounds
  <2>3. told' \in {told, l.of} /\ shown' \in {shown, [of |-> l.of, scene |-> l.scene]}
    BY <1>7 DEF Viewer!Loaded, Viewer!LoadFails
  <2>4. QED BY <2>1, <2>2, <2>3 DEF ViewBounds
<1>8. QED BY <1>1, <1>2, <1>3, <1>4, <1>5, <1>6, <1>7 DEF Viewer!Next

LEMMA ViewIsTyped == ViewInv /\ ViewBounds => Viewer!TypeOK
<1> SUFFICES ASSUME ViewInv, ViewBounds PROVE Viewer!TypeOK OBVIOUS
<1>1. {viewUp, wanted, mounted, isDisposed, meshLoaded, failed} \subseteq BOOLEAN
  BY DEF ViewInv, ViewTypes
<1>2. \A l \in viewLoads : l.token \in 1..MaxViews /\ l.of \in Glbs /\ l.scene \in 1..MaxViewers
  BY DEF ViewInv, ViewTypes, ViewLoads, ViewBounds
<1>3. QED BY <1>1, <1>2 DEF ViewInv, ViewTypes, ViewBounds, Viewer!TypeOK

-----------------------------------------------------------------------------
(* The landing page: sources and scenes are numbered within their bounds.  *)
Sources == 0..(1 + MaxUrls)

LiveBounds ==
    /\ liveScene \in 0..MaxScenes /\ liveScenes \in 0..MaxScenes
    /\ container.scene \in 0..MaxScenes /\ decorated \subseteq 1..MaxScenes
    /\ \A l \in liveLoads : l.scene \in 1..MaxScenes /\ l.of \in Sources \ {0}
    /\ source \in Sources /\ created \in 0..MaxUrls
    /\ timer \in BOOLEAN /\ dwellElapsed \in BOOLEAN

LEMMA LiveLimits ==
    /\ MaxScenes \in Nat /\ MaxUrls \in Nat /\ Live!Nothing.scene = 0
    /\ Live!NoSource = 0 /\ Live!Embedded = 1 /\ {0, 1} \subseteq Sources
BY PagesAssumption
DEF Live!LiveAssumption, Live!Nothing, Live!NoSource, Live!Embedded, Sources

LEMMA LiveBoundsStart == Live!Init => LiveBounds
<1> SUFFICES ASSUME Live!Init PROVE LiveBounds OBVIOUS
<1>1. timer = FALSE /\ dwellElapsed = FALSE BY DEF Live!Init
<1>2. timer \in BOOLEAN /\ dwellElapsed \in BOOLEAN BY <1>1
<1>3. QED BY <1>2, LiveLimits DEF Live!Init, LiveBounds

(* Loads that were given up, and a new one, are within the bounds.         *)
LEMMA LiveLoadsBound ==
    ASSUME LiveInv, LiveBounds, NEW s \in 0..MaxScenes, NEW of \in Sources,
           liveLoads' \subseteq Live!GivenUp \cup liveLoads \cup Live!Load(s, of)
    PROVE  \A l \in liveLoads' : l.scene \in 1..MaxScenes /\ l.of \in Sources \ {0}
<1>1. liveLoads \subseteq LiveLoads BY DEF LiveInv, LiveTypes
<1>2. \A l \in Live!GivenUp : l.scene \in 1..MaxScenes /\ l.of \in Sources \ {0}
  BY <1>1 DEF Live!GivenUp, LiveLoads, LiveBounds
<1>3. \A l \in Live!Load(s, of) : l.scene \in 1..MaxScenes /\ l.of \in Sources \ {0}
  BY LiveLimits DEF Live!Load
<1>4. QED BY <1>2, <1>3 DEF LiveBounds

LEMMA BuildBound ==
    ASSUME LiveBounds, NEW n, Live!Build(n)
    PROVE  /\ liveScene' \in 0..MaxScenes /\ liveScenes' \in 0..MaxScenes
           /\ container'.scene \in 0..MaxScenes /\ decorated' \subseteq 1..MaxScenes
BY LiveLimits DEF Live!Build, LiveBounds

LEMMA TeardownBound ==
    ASSUME LiveBounds, Live!Teardown
    PROVE  /\ liveScene' \in 0..MaxScenes /\ liveScenes' \in 0..MaxScenes
           /\ container'.scene \in 0..MaxScenes /\ decorated' \subseteq 1..MaxScenes
BY LiveLimits DEF Live!Teardown, LiveBounds

LEMMA LiveBoundsStep ==
    ASSUME LiveInv, LiveBounds, [Live!Next]_(Live!vars)
    PROVE  LiveBounds'
<1>1. CASE UNCHANGED Live!vars BY <1>1 DEF Live!vars, LiveBounds
<1>2. CASE Live!HeroLive
  <2>1. timer' \in BOOLEAN /\ dwellElapsed' \in BOOLEAN
    <3>1. timer' = TRUE /\ dwellElapsed' = FALSE BY <1>2 DEF Live!HeroLive
    <3>2. QED BY <3>1
  <2>2. PICK n : Live!Build(n) BY <1>2 DEF Live!HeroLive
  <2>3. UNCHANGED <<source, created>> /\ liveLoads' = Live!GivenUp \cup Live!Load(liveScene', source)
    BY <1>2 DEF Live!HeroLive
  <2>4. \A l \in liveLoads' : l.scene \in 1..MaxScenes /\ l.of \in Sources \ {0}
    BY <2>2, <2>3, BuildBound, LiveLoadsBound DEF LiveBounds
  <2>5. QED BY <2>1, <2>2, <2>3, <2>4, BuildBound DEF LiveBounds
<1>3. CASE Live!HeroStatic \/ Live!Unmount
  <2>1. timer' \in BOOLEAN
    <3>1. timer' = FALSE BY <1>3 DEF Live!HeroStatic, Live!Unmount
    <3>2. QED BY <3>1
  <2>2. /\ Live!Teardown /\ liveLoads' = Live!GivenUp /\ UNCHANGED <<source, created, dwellElapsed>>
    BY <1>3 DEF Live!HeroStatic, Live!Unmount
  <2>3. \A l \in liveLoads' : l.scene \in 1..MaxScenes /\ l.of \in Sources \ {0}
    BY <2>2, LiveLoadsBound DEF LiveBounds
  <2>4. QED BY <2>1, <2>2, <2>3, TeardownBound DEF LiveBounds
<1>4. CASE Live!HeroScroll BY <1>4 DEF Live!HeroScroll, LiveBounds
<1>5. ASSUME NEW on \in BOOLEAN, NEW near \in BOOLEAN, Live!WellChanges(on, near) PROVE LiveBounds'
  <2>1. UNCHANGED <<source, created, timer, dwellElapsed>> BY <1>5 DEF Live!WellChanges
  <2>2. \/ Live!Teardown /\ liveLoads' = Live!GivenUp
        \/ Live!Build(1) /\ liveLoads' = liveLoads \cup Live!Load(liveScene', source)
        \/ UNCHANGED <<liveScene, liveScenes, container, liveLoads, decorated>>
    BY <1>5 DEF Live!WellChanges
  <2>3. CASE Live!Teardown /\ liveLoads' = Live!GivenUp
    <3>1. \A l \in liveLoads' : l.scene \in 1..MaxScenes /\ l.of \in Sources \ {0}
      BY <2>3, LiveLoadsBound DEF LiveBounds
    <3>2. QED BY <2>1, <2>3, <3>1, TeardownBound DEF LiveBounds
  <2>4. CASE Live!Build(1) /\ liveLoads' = liveLoads \cup Live!Load(liveScene', source)
    <3>1. \A l \in liveLoads' : l.scene \in 1..MaxScenes /\ l.of \in Sources \ {0}
      BY <2>4, BuildBound, LiveLoadsBound DEF LiveBounds
    <3>2. QED BY <2>1, <2>4, <3>1, BuildBound DEF LiveBounds
  <2>5. CASE UNCHANGED <<liveScene, liveScenes, container, liveLoads, decorated>>
    BY <2>1, <2>5 DEF LiveBounds
  <2>6. QED BY <2>2, <2>3, <2>4, <2>5
<1>6. ASSUME NEW s \in Sources, Live!SetSource(s)
      PROVE  source' \in Sources /\ \A l \in liveLoads' : l.scene \in 1..MaxScenes /\ l.of \in Sources \ {0}
  <2>1. liveLoads' \subseteq Live!GivenUp \cup liveLoads \cup Live!Load(liveScene, s)
    BY <1>6 DEF Live!SetSource
  <2>2. QED BY <1>6, <2>1, LiveLoadsBound DEF Live!SetSource, LiveBounds
<1>7. CASE Live!FetchBytes
  <2>1. created' \in 0..MaxUrls /\ Live!Embedded + created' \in Sources
    BY <1>7, LiveLimits DEF Live!FetchBytes, LiveBounds, Sources
  <2>2. QED BY <1>6, <1>7, <2>1 DEF Live!FetchBytes, LiveBounds
<1>8. CASE Live!FetchFails
  BY <1>6, <1>8, LiveLimits DEF Live!FetchFails, LiveBounds
<1>9. CASE Live!Dwell
  <2>1. timer' = FALSE /\ dwellElapsed' = TRUE BY <1>9 DEF Live!Dwell
  <2>2. timer' \in BOOLEAN /\ dwellElapsed' \in BOOLEAN BY <2>1
  <2>3. QED BY <1>9, <2>2 DEF Live!Dwell, LiveBounds
<1>10. ASSUME NEW l \in liveLoads, Live!Loaded(l) \/ Live!LoadFails(l) PROVE LiveBounds'
  <2>1. /\ liveLoads' \subseteq liveLoads
        /\ UNCHANGED <<liveScene, liveScenes, source, created, timer, dwellElapsed>>
    BY <1>10 DEF Live!Loaded, Live!LoadFails
  <2>2. l.scene \in 1..MaxScenes BY DEF LiveBounds
  <2>3. /\ container' \in {container, [of |-> l.of, scene |-> l.scene]}
        /\ decorated' \subseteq decorated \cup {l.scene}
    BY <1>10 DEF Live!Loaded, Live!LoadFails
  <2>4. QED BY <2>1, <2>2, <2>3, LiveLimits DEF LiveBounds
<1>11. QED
  BY <1>1, <1>2, <1>3, <1>4, <1>5, <1>7, <1>8, <1>9, <1>10 DEF Live!Next

LEMMA LiveIsTyped == LiveInv /\ LiveBounds => Live!TypeOK
<1> SUFFICES ASSUME LiveInv, LiveBounds PROVE Live!TypeOK OBVIOUS
<1>1. {liveUp, isLive, inView, ready, fetching, timer, dwellElapsed} \subseteq BOOLEAN
  BY DEF LiveInv, LiveTypes, LiveBounds
<1>2. Sources \ {0} = 1..(1 + MaxUrls) BY LiveLimits DEF Sources
<1>3. QED BY <1>1, <1>2, LiveLimits DEF LiveInv, LiveTypes, LiveBounds, Sources, Live!TypeOK

-----------------------------------------------------------------------------
(* The editor: a token's art is in the colors of rows that were baked.     *)
BakedColors(a) == \A i \in DOMAIN a : Design!ToSet(a[i]) \subseteq 0..Design!Gray

DesignBounds ==
    /\ designPhase \in Design!BusyPhases \cup {"picking", "editing-variants", "success", "error"}
    /\ selected \in 1..MaxVariants /\ edits \in 0..MaxEdits /\ BakedColors(art)

LEMMA DesignBoundsStart == Design!Init => DesignBounds
<1> SUFFICES ASSUME Design!Init PROVE DesignBounds OBVIOUS
<1>1. MaxVariants \in 1..720 /\ MaxEdits \in Nat
  BY PagesAssumption DEF Design!DesignAssumption
<1>2. designPhase = "picking" /\ selected = 1 /\ edits = 0 /\ art = <<>> BY DEF Design!Init
<1>3. BakedColors(art) BY <1>2 DEF BakedColors
<1>4. QED BY <1>1, <1>2, <1>3 DEF DesignBounds

(* A part has the color of its label, or the gray of one that has none.    *)
LEMMA PartColors ==
    ASSUME NEW rs, NEW b, \A i \in DOMAIN rs : \A l \in DOMAIN rs[i].palette :
                            rs[i].palette[l] \in 0..Design!Gray
    PROVE  BakedColors(ArtOf(rs, b))
<1> SUFFICES ASSUME NEW i \in DOMAIN rs
             PROVE  Design!ToSet(Design!resolvePartColors(rs[i].palette, b)) \subseteq 0..Design!Gray
  BY DEF BakedColors, ArtOf
<1> DEFINE names == IF PartLabels[b] = <<>> THEN <<"primary">> ELSE PartLabels[b]
           out == Design!resolvePartColors(rs[i].palette, b)
<1>1. out = [k \in DOMAIN names |-> IF names[k] \in DOMAIN rs[i].palette
                                     THEN rs[i].palette[names[k]] ELSE Design!Gray]
  BY DEF Design!resolvePartColors
<1>2. Design!Gray \in 0..Design!Gray BY DEF Design!Gray, Design!Circle
<1> HIDE DEF names, out
<1>3. \A k \in DOMAIN out : out[k] \in 0..Design!Gray BY <1>1, <1>2
<1>4. Design!ToSet(out) \subseteq 0..Design!Gray BY <1>3 DEF Design!ToSet
<1>5. QED BY <1>4 DEF out

LEMMA DesignBoundsStep ==
    ASSUME DesignInv, DesignBounds, [Design!Next]_(Design!vars)
    PROVE  DesignBounds'
<1>0. MaxVariants \in Nat /\ 1 \in 1..MaxVariants /\ MaxEdits \in Nat
  BY PagesAssumption DEF Design!DesignAssumption
<1>1. CASE UNCHANGED Design!vars
  <2>1. UNCHANGED <<designPhase, selected, edits, art>>
    BY <1>1 DEF Design!vars, Design!designVars
  <2>2. QED BY <2>1 DEF DesignBounds, BakedColors
<1>2. ASSUME NEW b \in DesignBases, Design!PickBase(b) PROVE DesignBounds'
  <2>1. designPhase' = "downloading-base" /\ selected' = 1 /\ edits' = 0 /\ art' = <<>>
    BY <1>2 DEF Design!PickBase
  <2>2. BakedColors(art)' BY <2>1 DEF BakedColors
  <2>3. QED BY <1>0, <2>1, <2>2 DEF DesignBounds, Design!BusyPhases
<1>3. CASE Edits
  <2>1. Design!Edit /\ selected' = selected
    BY <1>3 DEF Edits, Design!setRowPalette, Design!setRowPrice, Design!setGlobalPrice,
         Design!ChooseHarmony, Design!togglePerVariantPricing, Design!addRow, Design!removeRow,
         Design!onRandomGenerate, Design!onChangeVariantCount, Design!onToggleLock
  <2>2. edits < MaxEdits /\ edits' = edits + 1 /\ designPhase' = designPhase /\ art' = art
    BY <2>1 DEF Design!Edit
  <2>3. QED BY <1>0, <2>1, <2>2 DEF DesignBounds, BakedColors
<1>4. ASSUME NEW i \in DOMAIN rows, Design!SelectTile(i) PROVE DesignBounds'
  <2>1. i \in 1..Len(rows) /\ Len(rows) \in 1..MaxVariants
    BY <1>4, RowFacts, RowCount DEF DesignInv
  <2>2. i \in 1..MaxVariants BY <1>0, <2>1
  <2>3. selected' = i /\ UNCHANGED <<designPhase, edits, art>>
    BY <1>4 DEF Design!SelectTile, Design!designVars
  <2>4. QED BY <2>2, <2>3 DEF DesignBounds, BakedColors
<1>5. CASE Design!runBuildVariants
  <2>1. /\ task.kind \in {"preview", "launch"} /\ designPhase = "building-variants"
        /\ art' = ArtOf(task.rows, task.base)
        /\ designPhase' \in {"editing-variants", "uploading"} /\ UNCHANGED <<selected, edits>>
    BY <1>5 DEF Design!runBuildVariants, Design!designVars, ArtOf
  <2>2. task.rows = rows BY <2>1 DEF DesignInv, TaskInv, Design!NoTask
  <2>3. ASSUME NEW i \in DOMAIN rows, NEW l \in DOMAIN rows[i].palette
        PROVE  rows[i].palette[l] \in 0..Design!Gray
    <3>1. rows[i] \in RowOf(designBase) BY RowFacts DEF DesignInv
    <3>2. rows[i].palette \in [LabelSet(designBase) -> 0..Design!Gray] BY <3>1 DEF RowOf
    <3>3. QED BY <2>3, <3>2
  <2>4. BakedColors(ArtOf(rows, task.base)) BY <2>3, PartColors
  <2>5. BakedColors(art') BY <2>1, <2>2, <2>4
  <2>6. BakedColors(art)' BY <2>5 DEF BakedColors
  <2>7. QED BY <2>1, <2>6 DEF DesignBounds, Design!BusyPhases
<1>6. CASE \/ \E kind \in {"preview", "launch"} : Design!Bake(kind)
           \/ Design!Uploaded \/ Design!Finish \/ Design!Fail
  <2>1. /\ designPhase' \in {"building-variants", "signing", "editing-variants", "success", "error"}
        /\ UNCHANGED <<selected, edits, art>>
    BY <1>6 DEF Design!Bake, Design!Uploaded, Design!Finish, Design!Fail, Design!designVars
  <2>2. QED BY <2>1 DEF DesignBounds, BakedColors, Design!BusyPhases
<1>7. QED BY <1>1, <1>2, <1>3, <1>4, <1>5, <1>6, DesignCases DEF Handles

LEMMA DesignIsTyped == DesignInv /\ DesignBounds => Design!TypeOK
<1> SUFFICES ASSUME DesignInv, DesignBounds PROVE Design!TypeOK OBVIOUS
<1>1. EditorInv /\ locked \subseteq 1..MaxVariants BY DEF DesignInv, LocksInv
<1>2. task.kind \in {"none", "pick", "preview", "launch"}
  BY DEF DesignInv, TaskInv, Design!NoTask
<1>3. Len(rows) \in 1..MaxVariants /\ \A i \in DOMAIN rows : rows[i].price \in PriceSet
  <2>1. \A i \in DOMAIN rows : rows[i] \in RowOf(designBase) BY <1>1, RowFacts
  <2>2. QED BY <1>1, <2>1 DEF EditorInv, RowOf
<1>4. rolled \subseteq 1..MaxVariants
  <2>1. rolled \subseteq 1..Len(rows) /\ Len(rows) \in 1..MaxVariants /\ MaxVariants \in Nat
    BY <1>1, RowFacts, RowCount
  <2>2. \A i \in 1..Len(rows) : i \in 1..MaxVariants BY <2>1
  <2>3. QED BY <2>1, <2>2
<1>5. {locked, rolled, {selected}} \subseteq SUBSET (1..MaxVariants)
  BY <1>1, <1>4 DEF DesignBounds
<1>6. perVariant \in BOOLEAN BY <1>1 DEF EditorInv
<1>7. /\ designBase \in DesignBases \cup {NoDesignBase} /\ globalPrice \in PriceSet
      /\ seed \in Seeds /\ scheme \in Schemes
  BY <1>1 DEF EditorInv
<1>8. QED
  BY <1>2, <1>3, <1>5, <1>6, <1>7 DEF DesignBounds, BakedColors, PriceSet, Design!TypeOK

-----------------------------------------------------------------------------
(* The marketplace and the page of a model.                                *)
LEMMA MarketIsTyped == MarketInv => Market!TypeOK
<1> SUFFICES ASSUME MarketInv PROVE Market!TypeOK OBVIOUS
<1>1. index.place \in Places /\ index.at \in 0..moves
  BY DEF MarketInv, MarketTypes, AnswersAreNewer
<1>2. index \in [place : Places, at : 0..moves] BY <1>1 DEF MarketInv, MarketTypes
<1>3. \A f \in fetches : f.what \in {"listings", "owned"} /\ f.of \in Wallets \cup {None}
  BY DEF MarketInv, MarketTypes, Fetches
<1>4. QED BY <1>2, <1>3 DEF MarketInv, MarketTypes, Places, Market!TypeOK

LEMMA DetailIsTyped == DetailInv => Detail!TypeOK
<1> SUFFICES ASSUME DetailInv PROVE Detail!TypeOK OBVIOUS
<1>1. ASSUME NEW p \in Detail!Pairs PROVE charged[p] \in 0..MaxPurchases
  <2>1. charged[p] \in Nat /\ sent \in Nat /\ sent <= MaxPurchases /\ MaxPurchases \in Nat
    BY PagesAssumption DEF DetailInv, DetailTypes, Detail!DetailAssumption
  <2>2. charged[p] \in {0, 1} BY <2>1 DEF DetailInv, Detail!PaysAtMostOnce
  <2>3. charged[p] = 1 => sent # 0 BY DEF DetailInv, Paid
  <2>4. QED BY <2>1, <2>2, <2>3
<1>2. charged \in [Detail!Pairs -> 0..MaxPurchases] BY <1>1 DEF DetailInv, DetailTypes
<1>3. reading \in BOOLEAN BY DEF DetailInv, DetailTypes
<1>4. /\ view.kind \in {"idle", "purchasing", "purchase-failed", "decrypting",
                        "decrypt-failed", "viewing"}
      /\ flow.kind \in {"none", "buy", "resolve", "decrypt"}
  BY DEF DetailInv, DetailTypes, Views, Flows, Detail!Nothing
<1>5. QED BY <1>2, <1>3, <1>4 DEF DetailInv, DetailTypes, Detail!TypeOK

-----------------------------------------------------------------------------
(* All the pages.  What bounds a page holds along with what its types hold. *)
LaunchTyped == IInv /\ LaunchBounds
TrackTyped == TrackInv /\ TrackBounds
MintTyped == MintInv /\ MintBounds
ViewTyped == ViewInv /\ ViewBounds
DesignTyped == DesignInv /\ DesignBounds
LiveTyped == LiveInv /\ LiveBounds

PagesInv ==
    /\ LaunchTyped /\ MarketInv /\ TrackTyped /\ DetailInv
    /\ MintTyped /\ ViewTyped /\ DesignTyped /\ LiveTyped

LEMMA OtherPageSteps ==
    [PagesNext]_pagesVars => [Next]_vars /\ [Design!Next]_(Design!vars)
<1> SUFFICES ASSUME [PagesNext]_pagesVars PROVE [Next]_vars /\ [Design!Next]_(Design!vars)
  OBVIOUS
<1>1. Next \/ UNCHANGED vars BY DEF PagesNext, pagesVars
<1>2. Design!Next \/ UNCHANGED editVars BY DEF PagesNext, pagesVars
<1>3. UNCHANGED editVars => UNCHANGED Design!vars BY DEF editVars, Design!vars, Design!designVars
<1>4. QED BY <1>1, <1>2, <1>3

LEMMA PagesStart == PagesInit => PagesInv
<1> SUFFICES ASSUME PagesInit PROVE PagesInv OBVIOUS
<1>1. Init /\ Track!Init /\ Mint!Init /\ Viewer!Init /\ Design!Init /\ Live!Init
  BY DEF PagesInit
<1>2. LaunchTyped BY <1>1, Start, LaunchBoundsStart DEF LaunchTyped
<1>3. TrackTyped BY <1>1, TrackInitInv, TrackBoundsStart DEF TrackTyped
<1>4. MintTyped BY <1>1, MintInitInv, MintBoundsStart DEF MintTyped
<1>5. ViewTyped BY <1>1, ViewInitInv, ViewBoundsStart DEF ViewTyped
<1>6. DesignTyped BY <1>1, DesignStart, DesignBoundsStart DEF DesignTyped
<1>7. LiveTyped BY <1>1, LiveInitInv, LiveBoundsStart DEF LiveTyped
<1>8. QED
  BY <1>2, <1>3, <1>4, <1>5, <1>6, <1>7, MarketInitInv, DetailInitInv DEF PagesInv

LEMMA PagesStep == PagesInv /\ [PagesNext]_pagesVars => PagesInv'
<1> SUFFICES ASSUME PagesInv, [PagesNext]_pagesVars PROVE PagesInv' OBVIOUS
<1>1. LaunchTyped' BY OtherPageSteps, Step, LaunchBoundsStep DEF PagesInv, LaunchTyped
<1>2. TrackTyped' BY PageSteps, TrackNextInv, TrackBoundsStep DEF PagesInv, TrackTyped
<1>3. MintTyped' BY PageSteps, MintNextInv, MintBoundsStep DEF PagesInv, MintTyped
<1>4. ViewTyped' BY PageSteps, ViewStepInv, ViewBoundsStep DEF PagesInv, ViewTyped
<1>5. DesignTyped' BY OtherPageSteps, DesignStep, DesignBoundsStep DEF PagesInv, DesignTyped
<1>6. LiveTyped' BY PageSteps, LiveStepInv, LiveBoundsStep DEF PagesInv, LiveTyped
<1>7. MarketInv' /\ DetailInv' BY MarketStepInv, DetailStepInv DEF PagesInv
<1>8. QED BY <1>1, <1>2, <1>3, <1>4, <1>5, <1>6, <1>7 DEF PagesInv

(* Whatever is clicked, answered late or torn down, every page stays within  *)
(* its states: each flow at a step of its own, each scene of a known model,  *)
(* each build numbered, each answer of a mesh that was loaded, each part     *)
(* baked in a color.                                                         *)
THEOREM PagesStayTyped == PagesSpec => []PagesTypeOK
<1>1. PagesInv => PagesTypeOK
  BY LaunchIsTyped, MarketIsTyped, TrackIsTyped, DetailIsTyped, MintIsTyped, ViewIsTyped,
     DesignIsTyped, LiveIsTyped
  DEF PagesInv, LaunchTyped, TrackTyped, MintTyped, ViewTyped, DesignTyped, LiveTyped, PagesTypeOK
<1>2. QED BY <1>1, PagesStart, PagesStep, PTL DEF PagesSpec
=============================================================================
