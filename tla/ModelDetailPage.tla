--------------------------- MODULE ModelDetailPage ---------------------------
(***************************************************************************)
(* The page of one published model (buy/ModelDetailPage.tsx, buy/hooks.ts, *)
(* collection/useOwnedEntitlements.ts): buy access once, decrypt, view.    *)
(* The creator decrypts for free.  The route may change to another model   *)
(* and the session to another account while a purchase or a decryption is  *)
(* under way; the component stays mounted and keeps its state.             *)
(*                                                                         *)
(* Every model here is encrypted and for sale (ALLOW_LIST).                *)
(***************************************************************************)
EXTENDS Naturals, FiniteSets

CONSTANTS
  Models, Accounts,
  CreatorOf,      \* model -> its creator
  None,           \* no model, no account, no entitlement
  MaxPurchases    \* bound: purchase transactions sent

DetailAssumption ==
  /\ CreatorOf \in [Models -> Accounts] /\ MaxPurchases \in Nat
  /\ None \notin Models \cup Accounts \cup (Models \X Accounts)

VARIABLES
  charged,   \* the chain: <<model, account>> -> purchases paid for
  index,     \* entitlements that the owned-objects index knows of
  sent,
  objectId, model, loaded,   \* the route, the last model read, the read's state
  address,   \* the session's account
  ents, reading,   \* its entitlements as last read, and a read under way
  view,      \* viewState, with the model and account of what is shown
  fresh,     \* freshEntitlementRef
  flow       \* what inFlightRef guards

vars == <<charged, index, sent, objectId, model, loaded, address, ents, reading, view, fresh, flow>>

Pairs == Models \X Accounts
Idle == [kind |-> "idle"]
Nothing == [kind |-> "none"]

Init ==
  /\ charged = [p \in Pairs |-> 0] /\ index = {} /\ sent = 0
  /\ objectId \in Models /\ model = None /\ loaded = "loading"
  /\ address = None /\ ents = {} /\ reading = FALSE
  /\ view = Idle /\ fresh = None /\ flow = Nothing

-----------------------------------------------------------------------------
(* Reads: the model of the route, the entitlements of the account.         *)
Navigate(m) ==
  /\ m # objectId /\ objectId' = m /\ loaded' = "loading"
  /\ UNCHANGED <<charged, index, sent, model, address, ents, reading, view, fresh, flow>>

useModelById ==
  /\ loaded = "loading"
  /\ \/ loaded' = "yes" /\ model' = objectId
     \/ loaded' = "failed" /\ UNCHANGED model
  /\ UNCHANGED <<charged, index, sent, objectId, address, ents, reading, view, fresh, flow>>

SignIn(a) ==
  /\ a # address /\ address' = a
  /\ ents' = (IF a = None THEN {} ELSE ents) /\ reading' = (a # None)
  /\ UNCHANGED <<charged, index, sent, objectId, model, loaded, view, fresh, flow>>

useOwnedEntitlements ==
  /\ reading /\ reading' = FALSE
  /\ ents' \in {ents, {p \in index : p[2] = address}}
  /\ UNCHANGED <<charged, index, sent, objectId, model, loaded, address, view, fresh, flow>>

IndexCatchesUp ==
  /\ index' = {p \in Pairs : charged[p] > 0} /\ index' # index
  /\ UNCHANGED <<charged, sent, objectId, model, loaded, address, ents, reading, view, fresh, flow>>

-----------------------------------------------------------------------------
isCreator == address # None /\ address = CreatorOf[model]
Held == {p \in ents : p[1] = model}
Shown == loaded = "yes" /\ address # None

(* The access column offers one action: a viewed model none, a failed      *)
(* decryption its retry, a held entitlement the view, and else to buy.     *)
OffersBuy ==
  /\ Shown /\ ~isCreator /\ Held = {} /\ fresh = None
  /\ view.kind \in {"idle", "purchase-failed"}
OffersView ==
  /\ Shown /\ view.kind \notin {"viewing", "decrypting"}
  /\ isCreator \/ view.kind = "decrypt-failed" \/ Held # {} \/ fresh # None

(* runDecrypt and runDecryptAsCreator: no purchase in them.                *)
Decrypt(m, a, gate) ==
  /\ flow' = [kind |-> "decrypt", model |-> m, by |-> a, gate |-> gate]
  /\ view' = [kind |-> "decrypting"]

onView ==
  /\ OffersView /\ flow = Nothing
  /\ IF isCreator THEN Decrypt(model, address, None)
     ELSE \E ent \in IF fresh # None THEN {fresh} ELSE Held : Decrypt(model, address, ent)
  /\ UNCHANGED <<charged, index, sent, objectId, model, loaded, address, ents, reading, fresh>>

onBuyAccess ==
  /\ OffersBuy /\ flow = Nothing /\ sent < MaxPurchases
  /\ flow' = [kind |-> "buy", model |-> model, by |-> address, gate |-> None]
  /\ view' = [kind |-> "purchasing"] /\ sent' = sent + 1
  /\ UNCHANGED <<charged, index, objectId, model, loaded, address, ents, reading, fresh>>

(* The wallet declines or the transaction aborts; or it executed, and the  *)
(* wait for it or the read of its object changes throws.                   *)
BuyFails ==
  /\ flow.kind \in {"buy", "resolve"}
  /\ flow' = Nothing /\ view' = [kind |-> "purchase-failed"]
  /\ UNCHANGED <<charged, index, sent, objectId, model, loaded, address, ents, reading, fresh>>

(* purchase_access on chain: a second purchase by a buyer aborts.          *)
MayPurchase_faulty(p) == TRUE
MayPurchase(p) == charged[p] = 0

Purchased ==
  /\ flow.kind = "buy" /\ MayPurchase(<<flow.model, flow.by>>)
  /\ charged' = [charged EXCEPT ![<<flow.model, flow.by>>] = @ + 1]
  /\ flow' = [flow EXCEPT !.kind = "resolve"]
  /\ UNCHANGED <<index, sent, objectId, model, loaded, address, ents, reading, view, fresh>>

(* The object changes name the entitlement, and the flow goes on into the  *)
(* decryption; or they do not, and the owned read has to catch up.         *)
Resolved ==
  /\ flow.kind = "resolve" /\ reading' = (address # None)
  /\ \/ /\ fresh' = <<flow.model, flow.by>>
        /\ Decrypt(flow.model, flow.by, <<flow.model, flow.by>>)
     \/ flow' = Nothing /\ view' = [kind |-> "decrypt-failed"] /\ UNCHANGED fresh
  /\ UNCHANGED <<charged, index, sent, objectId, model, loaded, address, ents>>

(* seal_approve_creator and seal_approve_entitlement, for the sender.      *)
Approved_faulty(f) == f.gate # None \/ f.by = CreatorOf[f.model]
Approved(f) == IF f.gate = None THEN f.by = CreatorOf[f.model] ELSE f.gate = <<f.model, f.by>>

Decrypted ==
  /\ flow.kind = "decrypt" /\ Approved(flow)
  /\ view' = [kind |-> "viewing", model |-> flow.model, by |-> flow.by] /\ flow' = Nothing
  /\ UNCHANGED <<charged, index, sent, objectId, model, loaded, address, ents, reading, fresh>>

DecryptFails ==
  /\ flow.kind = "decrypt"
  /\ view' = [kind |-> "decrypt-failed"] /\ flow' = Nothing
  /\ UNCHANGED <<charged, index, sent, objectId, model, loaded, address, ents, reading, fresh>>

Next ==
  \/ (\E m \in Models : Navigate(m)) \/ (\E a \in Accounts \cup {None} : SignIn(a))
  \/ useModelById \/ useOwnedEntitlements \/ IndexCatchesUp \/ onView \/ onBuyAccess
  \/ BuyFails \/ Purchased \/ Resolved \/ Decrypted \/ DecryptFails

Spec == Init /\ [][Next]_vars

-----------------------------------------------------------------------------
TypeOK ==
  /\ charged \in [Pairs -> 0..MaxPurchases] /\ index \subseteq Pairs /\ sent \in 0..MaxPurchases
  /\ objectId \in Models /\ model \in Models \cup {None} /\ loaded \in {"loading", "yes", "failed"}
  /\ address \in Accounts \cup {None} /\ ents \subseteq Pairs /\ reading \in BOOLEAN
  /\ view.kind \in {"idle", "purchasing", "purchase-failed", "decrypting", "decrypt-failed", "viewing"}
  /\ fresh \in Pairs \cup {None} /\ flow.kind \in {"none", "buy", "resolve", "decrypt"}

(* What is in the viewer was opened by its creator or by an account that   *)
(* paid for that very model, whatever entitlement the page remembered from *)
(* another model or another account.                                       *)
ViewIsPaidFor ==
  view.kind = "viewing" =>
    view.by = CreatorOf[view.model] \/ charged[<<view.model, view.by>>] > 0

(* Nobody pays twice for a model, however the answers to the first         *)
(* purchase were lost, and no creator pays for their own.                  *)
PaysAtMostOnce ==
  \A p \in Pairs : charged[p] <= IF p[2] = CreatorOf[p[1]] THEN 0 ELSE 1
=============================================================================
