---------------------------- MODULE NftCollection ----------------------------
(***************************************************************************)
(* The whole package contracts/model3d: the L1 layer of Model3D, composed  *)
(* with the L2 layer that forks a base model into a collection, mints and  *)
(* trades its tokens, and registers integrations against it.               *)
(***************************************************************************)
EXTENDS Model3D

CONSTANTS
    CollectionIds,  \* object ids of NftCollection objects
    NoCollection,   \* the content of an id no collection was launched under
    TokenIds,       \* object ids of NftToken objects
    NoToken,        \* the content of an id no token was minted under
    Quilts,         \* Walrus quilt blob ids holding variant art
    NoQuilt,        \* the empty string: art not uploaded yet
    Patches,        \* patch ids inside a quilt
    RegisterFees    \* fees a collection asks for an integration

ASSUME CollectionAssumption ==
    /\ NoQuilt \notin Quilts
    /\ RegisterFees \subseteq Nat

NftCollectionObject ==
    [base_model_id : ModelIds, base_creator : Accounts, nft_creator : Accounts,
     base_royalty_bps : Royalties, quilt_blob_id : Quilts \cup {NoQuilt},
     integration_policy : PolicyBytes, register_fee : RegisterFees \cup {0}]

NftTokenObject ==
    [collection_id : CollectionIds, base_model_id : ModelIds,
     patch_id : Patches, owner : Accounts]

(* paid is the fee the registration was charged; the code keeps the          *)
(* metadata and the time instead, which no property tells apart.             *)
IntegrationRecord == [integrator : Accounts, paid : Nat]

NftCollectionCreatorCap == [collection_id : CollectionIds, holder : Accounts]

ASSUME NoObjectAssumption ==
    /\ NoCollection \notin NftCollectionObject
    /\ NoToken \notin NftTokenObject

VARIABLES
    collection,    \* the shared NftCollection objects
    caps,          \* the soulbound NftCollectionCreatorCap objects
    token,         \* the NftToken objects
    integrations   \* each collection's integrations table

collectionVars == <<collection, caps, token, integrations>>
vars == <<modelVars, collectionVars>>

Launched == {c \in CollectionIds : collection[c] # NoCollection}
Minted == {t \in TokenIds : token[t] # NoToken}

TypeOK ==
    /\ ModelTypeOK
    /\ collection \in [CollectionIds -> NftCollectionObject \cup {NoCollection}]
    /\ caps \subseteq NftCollectionCreatorCap
    /\ token \in [TokenIds -> NftTokenObject \cup {NoToken}]
    /\ integrations \in [CollectionIds -> SUBSET IntegrationRecord]

Init ==
    /\ ModelInit
    /\ collection = [c \in CollectionIds |-> NoCollection]
    /\ caps = {}
    /\ token = [t \in TokenIds |-> NoToken]
    /\ integrations = [c \in CollectionIds |-> {}]

-----------------------------------------------------------------------------
(* Launching: who may fork a base.                                           *)

(* The policy gate of launch_collection_internal. *)
MayLaunch(m, sender) ==
    /\ m \in Published
    /\ model[m].license.policy = RESTRICTED => sender = model[m].creator

(* Forks bought at the derive fee: everything launch_collection_internal     *)
(* does, and the collection shared and the cap handed over by its callers.   *)
launch_collection_internal(c, m, sender, quilt, register_fee) ==
    /\ MayLaunch(m, sender)
    /\ c \in CollectionIds \ Launched
    /\ model[m].license.derivative_royalty_bps <= MaxRoyalty
    /\ LET fee == model[m].license.derivative_mint_fee IN
       \E payment \in Coins(sender, fee) :
           balance' = Settle(sender, model[m].creator, payment, fee)
    /\ collection' = [collection EXCEPT ![c] =
           [base_model_id |-> m, base_creator |-> model[m].creator,
            nft_creator |-> sender,
            base_royalty_bps |-> model[m].license.derivative_royalty_bps,
            quilt_blob_id |-> quilt, integration_policy |-> PERMISSIONLESS,
            register_fee |-> register_fee]]
    /\ caps' = caps \cup {[collection_id |-> c, holder |-> sender]}
    /\ UNCHANGED <<model, buyers, used, entitlements, version, integrations>>

(* Faulty variant of NeedsNoEntitlement: the check is missing. *)
OpenToAnyForker(m, sender) == TRUE

(* The check of the two entries that take no entitlement: only the creator   *)
(* of an ALLOW_LIST base forks it without one.                               *)
NeedsNoEntitlement(m, sender) ==
    model[m].license.policy = ALLOW_LIST => sender = model[m].creator

launch_collection(c, m, sender, quilt) ==
    /\ m \in Published
    /\ NeedsNoEntitlement(m, sender)
    /\ launch_collection_internal(c, m, sender, quilt, 0)
    /\ UNCHANGED token

(* Faulty variant of EntitlementFits: the model binding is not checked. *)
EntitlementForAnyModel(e, m, sender) == e.holder = sender

EntitlementFits(e, m, sender) ==
    /\ e.model_id = m
    /\ e.holder = sender

launch_collection_with_entitlement(c, m, sender, quilt) ==
    /\ m \in Published
    /\ model[m].license.policy = ALLOW_LIST
    /\ \E e \in entitlements : EntitlementFits(e, m, sender)
    /\ launch_collection_internal(c, m, sender, quilt, 0)
    /\ UNCHANGED token

-----------------------------------------------------------------------------
(* Minting.                                                                  *)

(* A batch of new tokens, one per (name, patch_id) pair, all owned by the    *)
(* caller; patch gives each new id its patch.                                *)
MintBatch(c, m, sender, patch) ==
    token' = [t \in TokenIds |->
        IF t \in DOMAIN patch
        THEN [collection_id |-> c, base_model_id |-> m,
              patch_id |-> patch[t], owner |-> sender]
        ELSE token[t]]

Batches == UNION {[ids -> Patches] : ids \in SUBSET (TokenIds \ Minted)}

launch_collection_with_tokens(c, m, sender, quilt, register_fee, patch) ==
    /\ m \in Published
    /\ NeedsNoEntitlement(m, sender)
    /\ launch_collection_internal(c, m, sender, quilt, register_fee)
    /\ MintBatch(c, m, sender, patch)

(* Every cap-gated entry takes a cap the sender owns and asserts it is the   *)
(* collection's.                                                             *)
HoldsCap(c, sender) ==
    /\ c \in Launched
    /\ \E cap \in caps : cap.holder = sender /\ cap.collection_id = c

mint_nft_token(c, sender, t, patch_id) ==
    /\ HoldsCap(c, sender)
    /\ t \notin Minted
    /\ MintBatch(c, collection[c].base_model_id, sender, [x \in {t} |-> patch_id])
    /\ UNCHANGED <<modelVars, collection, caps, integrations>>

(* Faulty variant of mint_tokens: the quilt may be set again. *)
mint_tokens_overwriting(c, sender, quilt, patch) ==
    /\ HoldsCap(c, sender)
    /\ collection' = [collection EXCEPT ![c].quilt_blob_id = quilt]
    /\ MintBatch(c, collection[c].base_model_id, sender, patch)
    /\ UNCHANGED <<modelVars, caps, integrations>>

mint_tokens(c, sender, quilt, patch) ==
    /\ HoldsCap(c, sender)
    /\ collection[c].quilt_blob_id = NoQuilt
    /\ collection' = [collection EXCEPT ![c].quilt_blob_id = quilt]
    /\ MintBatch(c, collection[c].base_model_id, sender, patch)
    /\ UNCHANGED <<modelVars, caps, integrations>>

(* An NftToken has key and store: its owner gives it to anybody (a plain     *)
(* transfer, or the hand-over at the end of a Kiosk sale).                   *)
TransferToken(t, to) ==
    /\ t \in Minted
    /\ to # token[t].owner
    /\ token' = [token EXCEPT ![t].owner = to]
    /\ UNCHANGED <<modelVars, collection, caps, integrations>>

-----------------------------------------------------------------------------
(* Integrations.                                                             *)

set_register_fee(c, sender, fee) ==
    /\ HoldsCap(c, sender)
    /\ collection' = [collection EXCEPT ![c].register_fee = fee]
    /\ UNCHANGED <<modelVars, caps, token, integrations>>

(* Any byte is accepted: all but PERMISSIONLESS close the collection. *)
set_integration_policy(c, sender, policy) ==
    /\ HoldsCap(c, sender)
    /\ collection' = [collection EXCEPT ![c].integration_policy = policy]
    /\ UNCHANGED <<modelVars, caps, token, integrations>>

MayRegister(c, sender) ==
    /\ c \in Launched
    /\ sender # collection[c].nft_creator
    /\ collection[c].integration_policy = PERMISSIONLESS
    /\ \A record \in integrations[c] : record.integrator # sender

register_integration(c, sender) ==
    /\ MayRegister(c, sender)
    /\ LET fee == collection[c].register_fee IN
       /\ \E payment \in Coins(sender, fee) :
              balance' = Settle(sender, collection[c].nft_creator, payment, fee)
       /\ integrations' = [integrations EXCEPT ![c] =
              @ \cup {[integrator |-> sender, paid |-> fee]}]
    /\ UNCHANGED <<model, buyers, used, entitlements, version, collection, caps, token>>

-----------------------------------------------------------------------------
Launch(c, m, a, quilt) ==
    \/ launch_collection(c, m, a, quilt)
    \/ launch_collection_with_entitlement(c, m, a, quilt)
    \/ \E fee \in RegisterFees, patch \in Batches :
           launch_collection_with_tokens(c, m, a, quilt, fee, patch)

Manage(c, a) ==
    \/ \E t \in TokenIds, patch_id \in Patches : mint_nft_token(c, a, t, patch_id)
    \/ \E quilt \in Quilts \cup {NoQuilt}, patch \in Batches :
           mint_tokens(c, a, quilt, patch)
    \/ \E fee \in RegisterFees : set_register_fee(c, a, fee)
    \/ \E policy \in PolicyBytes : set_integration_policy(c, a, policy)

Next ==
    \/ ModelNext /\ UNCHANGED collectionVars
    \/ \E c \in CollectionIds, m \in ModelIds, a \in Accounts, quilt \in Quilts \cup {NoQuilt} :
           Launch(c, m, a, quilt)
    \/ \E c \in CollectionIds, a \in Accounts : Manage(c, a) \/ register_integration(c, a)
    \/ \E t \in TokenIds, a \in Accounts : TransferToken(t, a)

Spec == Init /\ [][Next]_vars

-----------------------------------------------------------------------------
(* Properties.                                                               *)

(* A wallet's net income from derive fees and from integration fees. *)
ForkIncome(a) ==
    SumFunction([c \in {x \in Launched : collection[x].base_creator = a} |->
                     model[collection[c].base_model_id].license.derivative_mint_fee])

ForkSpending(a) ==
    SumFunction([c \in {x \in Launched : collection[x].nft_creator = a} |->
                     model[collection[c].base_model_id].license.derivative_mint_fee])

(* What the registrations of a set of records cost. *)
Paid(records) == SumFunction([record \in records |-> record.paid])

RegisterIncome(a) ==
    SumFunction([c \in {x \in Launched : collection[x].nft_creator = a} |->
                     Paid(integrations[c])])

RegisterSpending(a) ==
    SumFunction([c \in Launched |->
                     Paid({record \in integrations[c] : record.integrator = a})])

(* Every mist is accounted for: a wallet's balance is what the sales, forks  *)
(* and registrations that exist on chain explain, whatever coins were        *)
(* offered and however the fees were changed in between.                     *)
LedgerSettled ==
    \A a \in Accounts :
        balance[a] = InitialBalance
                     + AccessIncome(a) - AccessSpending(a)
                     + ForkIncome(a) - ForkSpending(a)
                     + RegisterIncome(a) - RegisterSpending(a)

(* The license gates every fork (launch_collection and its variants): a      *)
(* RESTRICTED base is forked by its creator only, an ALLOW_LIST base by its  *)
(* creator or a wallet that bought access.  No entry is a way around it.     *)
LicenseRespected ==
    \A c \in Launched :
        LET m == collection[c].base_model_id IN
        \/ collection[c].nft_creator = model[m].creator
        \/ model[m].license.policy = PERMISSIONLESS
        \/ /\ model[m].license.policy = ALLOW_LIST
           /\ collection[c].nft_creator \in buyers[m]

(* The art of a collection is write-once (mint_tokens, D-086): a quilt that  *)
(* has been set is never replaced.                                           *)
QuiltWriteOnce ==
    [][\A c \in Launched :
           collection[c].quilt_blob_id # NoQuilt =>
               collection'[c].quilt_blob_id = collection[c].quilt_blob_id]_vars

(* A token appears only in the wallet of the creator of the very collection  *)
(* it names, and carries that collection's base (mint_nft_token, mint_tokens *)
(* and launch_collection_with_tokens): nobody mints into a collection with   *)
(* the cap of another.                                                       *)
MintedByCollectionCreator ==
    [][\A t \in Minted' \ Minted :
           LET c == token'[t].collection_id IN
           /\ c \in Launched'
           /\ token'[t].owner = collection'[c].nft_creator
           /\ token'[t].base_model_id = collection'[c].base_model_id]_vars

-----------------------------------------------------------------------------
(* The package implements LicensePromise.  The license of a base covers its  *)
(* creator and the holders of its entitlements (everybody, when it is open); *)
(* its readers are the wallets the Seal gates let through for every identity *)
(* its key may be wrapped under.                                             *)

TermsOf(policy) ==
    CASE policy = RESTRICTED -> "private"
      [] policy = ALLOW_LIST -> "paid"
      [] OTHER -> "open"

Holders(m) == {e.holder : e \in {x \in entitlements : x.model_id = m}}

Licensed(m) ==
    IF m \notin Published THEN {}
    ELSE IF model[m].is_encrypted THEN {model[m].creator} \cup Holders(m)
    ELSE Accounts

Readers(m) ==
    IF m \notin Published THEN {}
    ELSE IF model[m].is_encrypted
         THEN {a \in Accounts : \A id \in Identities(m) : KeyReleased(id, a)}
    ELSE Accounts

Forkers(m) == {collection[c].nft_creator : c \in {x \in Launched : collection[x].base_model_id = m}}

Promise == INSTANCE LicensePromise WITH
    Wallets <- Accounts,
    Models <- ModelIds,
    terms <- [m \in ModelIds |->
                 IF m \in Published THEN TermsOf(model[m].license.policy) ELSE "unpublished"],
    licensed <- [m \in ModelIds |-> Licensed(m)],
    readers <- [m \in ModelIds |-> Readers(m)],
    forkers <- [m \in ModelIds |-> Forkers(m)]

(* Every step of the package is a step the license allows: a wallet becomes  *)
(* licensed by publishing or by a sale, reads only if licensed, forks only   *)
(* if licensed.                                                              *)
ImplementsLicensePromise == Promise!PromiseSpec

=============================================================================
