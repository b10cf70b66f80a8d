------------------------------- MODULE Model3D -------------------------------
(***************************************************************************)
(* The L1 layer of the Move package contracts/model3d: publishing a base   *)
(* model, selling access to an encrypted base, and the two Seal gates the  *)
(* key servers dry-run before they release a decryption key.               *)
(*                                                                         *)
(* A transaction is one step: Move aborts roll everything back, so a call  *)
(* whose assertions fail is a step that does not happen.  Byte strings are *)
(* kept (short, over a small alphabet) only where a prefix matters: the    *)
(* seal_id and the Seal identities built from it.  Names, tags, blob ids   *)
(* and previews are data no property tells apart; every input is taken to  *)
(* satisfy their length bounds.                                            *)
(***************************************************************************)
EXTENDS Integers, Sequences, FiniteSets, Functions

CONSTANTS
    Accounts,        \* wallet addresses
    ModelIds,        \* object ids of Model3D objects
    NoModel,         \* the content of an id nothing was published under
    SealIds,         \* byte strings callers pass as seal_id, any length
    Nonces,          \* nonces a client appends to seal_id to form an identity
    SealIdLen,       \* SEAL_ID_LEN
    AccessFees,      \* access fees licenses are published with
    DeriveFees,      \* derivative mint fees licenses are published with
    Royalties,       \* derivative royalties (bps) callers ask for
    MaxRoyalty,      \* MAX_DERIVATIVE_ROYALTY_BPS
    InitialBalance,  \* what each wallet holds at the start
    MaxVersion       \* bound: how many package versions are ever published

RESTRICTED     == 0
ALLOW_LIST     == 1
PERMISSIONLESS == 2

(* The policy byte is a u8: 3 stands for every value the whitelist rejects. *)
PolicyBytes == 0..3

(* The Seal fields of a base published in the clear are empty vectors. *)
NoSealId == <<>>

ASSUME SealAssumption ==
    /\ SealIdLen \in Nat \ {0}
    /\ SealIds \subseteq Seq(Nat)
    /\ Nonces \subseteq Seq(Nat)
    /\ Nonces # {}  \* a client always appends one

ASSUME FeeAssumption ==
    /\ AccessFees \subseteq Nat
    /\ DeriveFees \subseteq Nat
    /\ Royalties \subseteq Nat
    /\ MaxRoyalty \in Nat
    /\ InitialBalance \in Nat
    /\ MaxVersion \in Nat

LicenseTerms ==
    [policy : PolicyBytes, derivative_mint_fee : DeriveFees,
     access_fee : AccessFees, derivative_royalty_bps : Royalties]

(* What publish freezes: no function of the package has a setter for any of *)
(* these fields.  The buyers table, the only part that grows, is apart.     *)
ModelObject ==
    [creator : Accounts, license : LicenseTerms, is_encrypted : BOOLEAN,
     seal_id : SealIds \cup {NoSealId}, seal_version : Nat]

AccessEntitlement == [model_id : ModelIds, holder : Accounts]

ASSUME NoModelAssumption == NoModel \notin ModelObject

VARIABLES
    model,         \* the shared Model3D objects
    buyers,        \* each model's buyers table
    used,          \* SealIdRegistry.used
    entitlements,  \* the AccessEntitlement objects
    balance,       \* SUI held by each wallet
    version        \* VERSION of the package version the key servers dry-run

modelVars == <<model, buyers, used, entitlements, balance, version>>

Published == {m \in ModelIds : model[m] # NoModel}

ModelTypeOK ==
    /\ model \in [ModelIds -> ModelObject \cup {NoModel}]
    /\ buyers \in [ModelIds -> SUBSET Accounts]
    /\ used \subseteq SealIds
    /\ entitlements \subseteq AccessEntitlement
    /\ balance \in [Accounts -> Nat]
    /\ version \in Nat

ModelInit ==
    /\ model = [m \in ModelIds |-> NoModel]
    /\ buyers = [m \in ModelIds |-> {}]
    /\ used = {}
    /\ entitlements = {}
    /\ balance = [a \in Accounts |-> InitialBalance]
    /\ version = 0

-----------------------------------------------------------------------------
(* Coin handling.  The payment coin leaves the payer's wallet, the fee is    *)
(* split off to the payee, and the remainder is handed back to the payer.    *)
Settle(payer, payee, payment, fee) ==
    LET taken == [balance EXCEPT ![payer] = @ - payment]
        given == [taken EXCEPT ![payee] = @ + fee]
    IN  [given EXCEPT ![payer] = @ + (payment - fee)]

(* Faulty variant of Coins: the fee is taken from a wallet that lacks it. *)
CoinsOnCredit(a, fee) == {fee}

(* A coin the wallet can put in a transaction that covers the fee. *)
Coins(a, fee) == {payment \in 0..balance[a] : payment >= fee}

-----------------------------------------------------------------------------
(* Publishing.                                                               *)

validate_publish_inputs(license) ==
    /\ license.policy \in {RESTRICTED, ALLOW_LIST, PERMISSIONLESS}
    /\ license.derivative_royalty_bps <= MaxRoyalty

validate_seal_publish(license) ==
    license.policy = ALLOW_LIST => license.access_fee > 0

(* has_key says whether sealed_key is nonempty.  An encrypted base carries   *)
(* both Seal fields and a seal_id of the one legal length; a base published  *)
(* in the clear carries neither.                                             *)
SealFieldsConsistent(license, has_key, seal_id) ==
    LET is_encrypted == license.policy # PERMISSIONLESS IN
    /\ has_key = is_encrypted
    /\ (seal_id # NoSealId) = is_encrypted
    /\ is_encrypted => Len(seal_id) = SealIdLen

new_model(m, sender, license, has_key, seal_id) ==
    /\ m \in ModelIds \ Published
    /\ validate_publish_inputs(license)
    /\ validate_seal_publish(license)
    /\ SealFieldsConsistent(license, has_key, seal_id)
    /\ model' = [model EXCEPT ![m] =
           [creator |-> sender, license |-> license,
            is_encrypted |-> license.policy # PERMISSIONLESS,
            seal_id |-> seal_id, seal_version |-> version]]
    /\ UNCHANGED <<buyers, entitlements, balance, version>>

publish(m, sender, license) ==
    /\ new_model(m, sender, license, FALSE, NoSealId)
    /\ UNCHANGED used

(* Faulty variant of publish_encrypted: the registry is written, not read. *)
publish_encrypted_reusing_ids(m, sender, license, has_key, seal_id) ==
    /\ license.policy # PERMISSIONLESS
    /\ used' = used \cup {seal_id}
    /\ new_model(m, sender, license, has_key, seal_id)

publish_encrypted(m, sender, license, has_key, seal_id) ==
    /\ license.policy # PERMISSIONLESS
    /\ seal_id \notin used
    /\ used' = used \cup {seal_id}
    /\ new_model(m, sender, license, has_key, seal_id)

-----------------------------------------------------------------------------
(* Selling access.                                                           *)

(* Faulty variant of MayPurchase: no duplicate-purchase guard. *)
MayPurchaseAgain(m, buyer) ==
    /\ m \in Published
    /\ model[m].license.policy = ALLOW_LIST
    /\ buyer # model[m].creator

MayPurchase(m, buyer) ==
    /\ m \in Published
    /\ model[m].license.policy = ALLOW_LIST
    /\ buyer # model[m].creator
    /\ buyer \notin buyers[m]

(* Faulty variant of purchase_access: the fee is taken, nothing is minted. *)
purchase_access_without_receipt(m, buyer) ==
    /\ MayPurchase(m, buyer)
    /\ LET fee == model[m].license.access_fee IN
       \E payment \in Coins(buyer, fee) :
           balance' = Settle(buyer, model[m].creator, payment, fee)
    /\ buyers' = [buyers EXCEPT ![m] = @ \cup {buyer}]
    /\ UNCHANGED <<model, used, version, entitlements>>

purchase_access(m, buyer) ==
    /\ MayPurchase(m, buyer)
    /\ LET fee == model[m].license.access_fee IN
       \E payment \in Coins(buyer, fee) :
           balance' = Settle(buyer, model[m].creator, payment, fee)
    /\ buyers' = [buyers EXCEPT ![m] = @ \cup {buyer}]
    /\ entitlements' = entitlements \cup {[model_id |-> m, holder |-> buyer]}
    /\ UNCHANGED <<model, used, version>>

-----------------------------------------------------------------------------
(* The Seal gates: no effect, they abort or they do not.  id is the identity *)
(* the key was wrapped under; any caller may present any entitlement.        *)

is_prefix(prefix, word) ==
    /\ Len(prefix) <= Len(word)
    /\ \A i \in 1..Len(prefix) : prefix[i] = word[i]

seal_approve_entitlement(id, e, m, sender) ==
    /\ e.model_id = m
    /\ e.holder = sender
    /\ Len(model[m].seal_id) = SealIdLen
    /\ is_prefix(model[m].seal_id, id)
    /\ model[m].seal_version = version

seal_approve_creator(id, m, sender) ==
    /\ Len(model[m].seal_id) = SealIdLen
    /\ is_prefix(model[m].seal_id, id)
    /\ sender = model[m].creator
    /\ model[m].seal_version = version

(* The key servers release the key wrapped under id to sender: some call of  *)
(* some gate, with objects that exist, does not abort.                       *)
KeyReleased(id, sender) ==
    \E m \in Published :
        \/ seal_approve_creator(id, m, sender)
        \/ \E e \in entitlements : seal_approve_entitlement(id, e, m, sender)

(* The identities a client may have wrapped model m's key under. *)
Identities(m) == {model[m].seal_id \o nonce : nonce \in Nonces}

Encrypted == {m \in Published : model[m].is_encrypted}

-----------------------------------------------------------------------------
(* An upgrade that bumps VERSION: models stamped with the old one fail the   *)
(* gates from then on.                                                       *)
UpgradePackage ==
    /\ version < MaxVersion
    /\ version' = version + 1
    /\ UNCHANGED <<model, buyers, used, entitlements, balance>>

ModelNext ==
    \/ \E m \in ModelIds, a \in Accounts, license \in LicenseTerms :
           \/ publish(m, a, license)
           \/ \E has_key \in BOOLEAN, seal_id \in SealIds :
                  publish_encrypted(m, a, license, has_key, seal_id)
    \/ \E m \in ModelIds, a \in Accounts : purchase_access(m, a)
    \/ UpgradePackage

ModelSpec == ModelInit /\ [][ModelNext]_modelVars

-----------------------------------------------------------------------------
(* Properties.                                                               *)

(* What a wallet received from sales of access to its models, and what it    *)
(* spent on access to others'.                                               *)
AccessIncome(a) ==
    SumFunction([m \in {x \in Published : model[x].creator = a} |->
                     model[m].license.access_fee * Cardinality(buyers[m])])

AccessSpending(a) ==
    SumFunction([m \in {x \in Published : a \in buyers[x]} |->
                     model[m].license.access_fee])

(* Per-model isolation of decryption (the seal_approve gates): the key is *)
(* released only under the package version the base was published for, and   *)
(* only to its creator or, on an ALLOW_LIST base, to a wallet that bought    *)
(* access to that very base, whichever models, entitlements and identities   *)
(* are combined in the call.                                                 *)
DecryptIsolation ==
    \A m \in Encrypted, a \in Accounts : \A id \in Identities(m) :
        KeyReleased(id, a) =>
            /\ model[m].seal_version = version
            /\ \/ a = model[m].creator
               \/ /\ model[m].license.policy = ALLOW_LIST
                  /\ a \in buyers[m]

(* No encrypted base is bricked: until VERSION is bumped its creator and     *)
(* every wallet whose purchase went through obtain the key.                  *)
EntitledCanDecrypt ==
    \A m \in Encrypted : model[m].seal_version = version =>
        \A a \in {model[m].creator} \cup buyers[m], id \in Identities(m) :
            KeyReleased(id, a)

=============================================================================
