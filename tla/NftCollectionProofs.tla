------------------------- MODULE NftCollectionProofs -------------------------
(***************************************************************************)
(* Proofs about the whole package: the invariant of the L1 layer survives  *)
(* every L2 transaction, licenses gate every fork, and tokens are minted   *)
(* by the creator of their own collection; and every wallet's balance is   *)
(* what the objects on chain explain.                                      *)
(***************************************************************************)
EXTENDS NftCollection, Model3DProofs

(* The one cap of a collection is its creator's: no cap is ever handed on.   *)
CapsMatchCollections ==
    \A cap \in caps :
        /\ cap.collection_id \in Launched
        /\ collection[cap.collection_id].nft_creator = cap.holder

(* A collection names a base that exists and records that base's creator.    *)
CollectionsMatchBases ==
    \A c \in Launched :
        /\ collection[c].base_model_id \in Published
        /\ collection[c].base_creator = model[collection[c].base_model_id].creator

(* The part of the invariant about collections and caps. *)
ForkInv ==
    /\ CapsMatchCollections
    /\ CollectionsMatchBases
    /\ LicenseRespected

Inv ==
    /\ ModelInv
    /\ TypeOK
    /\ ForkInv

LEMMA InitInv == Init => Inv
  <1> SUFFICES ASSUME Init PROVE Inv
    OBVIOUS
  <1>1. ModelInv
    BY ModelInitInv DEF Init
  <1>2. TypeOK
    BY <1>1 DEF Init, TypeOK, ModelInv
  <1>3. Launched = {} /\ caps = {}
    BY DEF Init, Launched
  <1>4. ForkInv
    BY <1>3 DEF ForkInv, CapsMatchCollections, CollectionsMatchBases, LicenseRespected
  <1> QED
    BY <1>1, <1>2, <1>4 DEF Inv

(* A launched collection is an NftCollection object. *)
LEMMA LaunchedIsObject ==
    ASSUME TypeOK, NEW c \in Launched
    PROVE  c \in CollectionIds /\ collection[c] \in NftCollectionObject
  BY DEF Launched, TypeOK

LEMMA LaunchedFields ==
    ASSUME TypeOK, NEW c \in Launched
    PROVE  /\ collection[c].nft_creator \in Accounts
           /\ collection[c].register_fee \in Nat
  <1>1. collection[c] \in NftCollectionObject
    BY LaunchedIsObject
  <1>2. /\ collection[c].nft_creator \in Accounts
        /\ collection[c].register_fee \in RegisterFees \cup {0}
    BY <1>1 DEF NftCollectionObject
  <1>3. \A fee \in RegisterFees \cup {0} : fee \in Nat
    BY CollectionAssumption
  <1> QED
    BY <1>2, <1>3

(* Whoever holds a cap for c is its creator. *)
LEMMA HolderIsCreator ==
    ASSUME Inv, NEW c \in CollectionIds, NEW a \in Accounts, HoldsCap(c, a)
    PROVE  c \in Launched /\ collection[c].nft_creator = a
  BY DEF HoldsCap, Inv, ForkInv, CapsMatchCollections

(* A batch gives every new id a token, and no other id changes. *)
LEMMA MintBatchType ==
    ASSUME TypeOK, NEW c \in CollectionIds, NEW m \in ModelIds, NEW a \in Accounts,
           NEW ids \in SUBSET TokenIds, NEW patch \in [ids -> Patches],
           MintBatch(c, m, a, patch)
    PROVE  /\ token' \in [TokenIds -> NftTokenObject \cup {NoToken}]
           /\ \A t \in TokenIds \ ids : token'[t] = token[t]
           /\ \A t \in ids : /\ token'[t].collection_id = c
                             /\ token'[t].base_model_id = m
                             /\ token'[t].owner = a
  <1>1. \A t \in ids : [collection_id |-> c, base_model_id |-> m,
                        patch_id |-> patch[t], owner |-> a] \in NftTokenObject
    BY DEF NftTokenObject
  <1>2. DOMAIN patch = ids
    OBVIOUS
  <1> QED
    BY <1>1, <1>2 DEF MintBatch, TypeOK

(* A token appears only where a batch puts it. *)
LEMMA NewTokens ==
    ASSUME NEW ids \in SUBSET TokenIds,
           \A t \in TokenIds \ ids : token'[t] = token[t]
    PROVE  Minted' \ Minted \subseteq ids
  BY DEF Minted

(* The license condition every launching entry establishes before it calls   *)
(* launch_collection_internal.                                               *)
MayFork(m, a) ==
    \/ a = model[m].creator
    \/ model[m].license.policy = PERMISSIONLESS
    \/ model[m].license.policy = ALLOW_LIST /\ a \in buyers[m]

(* Adding a fork the license allows, together with its cap, keeps ForkInv.   *)
LEMMA LaunchInv ==
    ASSUME Inv, NEW c \in CollectionIds, NEW m \in ModelIds, NEW a \in Accounts,
           NEW quilt \in Quilts \cup {NoQuilt}, NEW fee \in RegisterFees \cup {0},
           launch_collection_internal(c, m, a, quilt, fee),
           MayFork(m, a),
           token' \in [TokenIds -> NftTokenObject \cup {NoToken}]
    PROVE  Inv'
  <1> DEFINE object == [base_model_id |-> m, base_creator |-> model[m].creator,
                        nft_creator |-> a,
                        base_royalty_bps |-> model[m].license.derivative_royalty_bps,
                        quilt_blob_id |-> quilt, integration_policy |-> PERMISSIONLESS,
                        register_fee |-> fee]
  <1>1. /\ m \in Published
        /\ c \notin Launched
        /\ collection' = [collection EXCEPT ![c] = object]
        /\ caps' = caps \cup {[collection_id |-> c, holder |-> a]}
        /\ UNCHANGED <<model, buyers, used, entitlements, version, integrations>>
    BY DEF launch_collection_internal, MayLaunch
  <1>2. model[m] \in ModelObject
    BY <1>1, PublishedIsObject DEF Inv, ModelInv
  <1>3. object \in NftCollectionObject
    BY <1>2, FeeAssumption
    DEF NftCollectionObject, ModelObject, LicenseTerms, PERMISSIONLESS, PolicyBytes
  <1>4. balance' \in [Accounts -> Nat]
    <2>1. model[m].creator \in Accounts /\ model[m].license.derivative_mint_fee \in Nat
      BY <1>2, FeeAssumption DEF ModelObject, LicenseTerms
    <2>2. \E payment \in Coins(a, model[m].license.derivative_mint_fee) :
              balance' = Settle(a, model[m].creator, payment, model[m].license.derivative_mint_fee)
      BY DEF launch_collection_internal
    <2> QED
      BY <2>1, <2>2, SettleType DEF Inv, ModelInv, ModelTypeOK
  <1>5. ModelInv'
    BY <1>1, <1>4, ModelInvFrame DEF Inv, ModelInv, ModelTypeOK
  <1>6. collection'[c] = object /\ \A x \in CollectionIds \ {c} : collection'[x] = collection[x]
    BY <1>1 DEF Inv, TypeOK
  <1>7. TypeOK'
    <2>1. collection' \in [CollectionIds -> NftCollectionObject \cup {NoCollection}]
      BY <1>1, <1>3 DEF Inv, TypeOK
    <2>2. caps' \subseteq NftCollectionCreatorCap
      BY <1>1 DEF Inv, TypeOK, NftCollectionCreatorCap
    <2>3. integrations' \in [CollectionIds -> SUBSET IntegrationRecord]
      BY <1>1 DEF Inv, TypeOK
    <2> QED
      BY <1>5, <2>1, <2>2, <2>3 DEF TypeOK, ModelInv
  <1>8. /\ object.nft_creator = a
        /\ object.base_model_id = m
        /\ object.base_creator = model[m].creator
    OBVIOUS
  <1> HIDE DEF object
  <1>9. Launched' = Launched \cup {c}
    BY <1>3, <1>6, NoObjectAssumption DEF Launched
  <1>10. \A x \in Launched : x # c /\ collection'[x] = collection[x]
    BY <1>1, <1>6 DEF Launched
  <1>11. Published' = Published
    BY <1>1 DEF Published
  <1>12. CapsMatchCollections'
    BY <1>1, <1>6, <1>8, <1>9, <1>10 DEF Inv, ForkInv, CapsMatchCollections
  <1>13. CollectionsMatchBases'
    BY <1>1, <1>6, <1>8, <1>9, <1>10, <1>11 DEF Inv, ForkInv, CollectionsMatchBases
  <1>14. LicenseRespected'
    BY <1>1, <1>6, <1>8, <1>9, <1>10 DEF Inv, ForkInv, LicenseRespected, MayFork
  <1> QED
    BY <1>5, <1>7, <1>12, <1>13, <1>14 DEF Inv, ForkInv

(* Changes to a collection other than its identity keep ForkInv. *)
LEMMA ForkInvFrame ==
    ASSUME Inv, UNCHANGED <<model, buyers, caps>>, Launched' = Launched,
           \A c \in Launched : /\ collection'[c].base_model_id = collection[c].base_model_id
                               /\ collection'[c].base_creator = collection[c].base_creator
                               /\ collection'[c].nft_creator = collection[c].nft_creator
    PROVE  ForkInv'
  <1>1. Published' = Published
    BY DEF Published
  <1>2. CapsMatchCollections'
    BY DEF Inv, ForkInv, CapsMatchCollections
  <1>3. CollectionsMatchBases'
    BY <1>1 DEF Inv, ForkInv, CollectionsMatchBases
  <1>4. LicenseRespected'
    BY DEF Inv, ForkInv, LicenseRespected
  <1> QED
    BY <1>2, <1>3, <1>4 DEF ForkInv

-----------------------------------------------------------------------------
(* One lemma per action.                                                     *)
LEMMA PlainLaunchMayFork ==
    ASSUME Inv, NEW m \in Published, NEW a \in Accounts,
           MayLaunch(m, a), NeedsNoEntitlement(m, a)
    PROVE  MayFork(m, a)
  <1>1. model[m].license.policy \in {RESTRICTED, ALLOW_LIST, PERMISSIONLESS}
    BY DEF Inv, ModelInv, SealFieldsInv
  <1> QED
    BY <1>1 DEF MayLaunch, NeedsNoEntitlement, MayFork

LEMMA EntitledLaunchMayFork ==
    ASSUME Inv, NEW m \in Published, NEW a \in Accounts,
           model[m].license.policy = ALLOW_LIST,
           NEW e \in entitlements, EntitlementFits(e, m, a)
    PROVE  MayFork(m, a)
  BY DEF EntitlementFits, MayFork, Inv, ModelInv, ReceiptsMatchBuyers

LEMMA LaunchCollectionInv ==
    ASSUME Inv, NEW c \in CollectionIds, NEW m \in ModelIds, NEW a \in Accounts,
           NEW quilt \in Quilts \cup {NoQuilt}, launch_collection(c, m, a, quilt)
    PROVE  Inv' /\ Minted' = Minted
  <1>1. /\ m \in Published
        /\ NeedsNoEntitlement(m, a)
        /\ launch_collection_internal(c, m, a, quilt, 0)
        /\ token' = token
    BY DEF launch_collection
  <1>2. MayFork(m, a)
    BY <1>1, PlainLaunchMayFork DEF launch_collection_internal
  <1>3. token' \in [TokenIds -> NftTokenObject \cup {NoToken}]
    BY <1>1 DEF Inv, TypeOK
  <1> QED
    BY <1>1, <1>2, <1>3, LaunchInv DEF Minted

LEMMA LaunchWithEntitlementInv ==
    ASSUME Inv, NEW c \in CollectionIds, NEW m \in ModelIds, NEW a \in Accounts,
           NEW quilt \in Quilts \cup {NoQuilt},
           launch_collection_with_entitlement(c, m, a, quilt)
    PROVE  Inv' /\ Minted' = Minted
  <1>1. /\ m \in Published
        /\ model[m].license.policy = ALLOW_LIST
        /\ \E e \in entitlements : EntitlementFits(e, m, a)
        /\ launch_collection_internal(c, m, a, quilt, 0)
        /\ token' = token
    BY DEF launch_collection_with_entitlement
  <1>2. MayFork(m, a)
    BY <1>1, EntitledLaunchMayFork
  <1>3. token' \in [TokenIds -> NftTokenObject \cup {NoToken}]
    BY <1>1 DEF Inv, TypeOK
  <1> QED
    BY <1>1, <1>2, <1>3, LaunchInv DEF Minted

LEMMA LaunchWithTokensInv ==
    ASSUME Inv, NEW c \in CollectionIds, NEW m \in ModelIds, NEW a \in Accounts,
           NEW quilt \in Quilts \cup {NoQuilt}, NEW fee \in RegisterFees,
           NEW ids \in SUBSET (TokenIds \ Minted), NEW patch \in [ids -> Patches],
           launch_collection_with_tokens(c, m, a, quilt, fee, patch)
    PROVE  Inv'
  <1>1. /\ m \in Published
        /\ NeedsNoEntitlement(m, a)
        /\ launch_collection_internal(c, m, a, quilt, fee)
        /\ MintBatch(c, m, a, patch)
    BY DEF launch_collection_with_tokens
  <1>2. MayFork(m, a)
    BY <1>1, PlainLaunchMayFork DEF launch_collection_internal
  <1>3. token' \in [TokenIds -> NftTokenObject \cup {NoToken}]
    BY <1>1, MintBatchType DEF Inv
  <1> QED
    BY <1>1, <1>2, <1>3, LaunchInv

(* Rewriting fields of one collection, other than those that say what it is, *)
(* and minting or moving tokens, keeps the invariant.                        *)
LEMMA ManageInv ==
    ASSUME Inv, UNCHANGED <<modelVars, caps, integrations>>,
           NEW c \in Launched, NEW object \in NftCollectionObject,
           object.base_model_id = collection[c].base_model_id,
           object.base_creator = collection[c].base_creator,
           object.nft_creator = collection[c].nft_creator,
           collection' = [collection EXCEPT ![c] = object],
           token' \in [TokenIds -> NftTokenObject \cup {NoToken}]
    PROVE  Inv'
  <1>1. c \in CollectionIds
    BY DEF Launched
  <1>2. \A x \in CollectionIds : collection'[x] = IF x = c THEN object ELSE collection[x]
    BY <1>1 DEF Inv, TypeOK
  <1>3. Launched' = Launched
    BY <1>1, <1>2, NoObjectAssumption DEF Launched
  <1>4. ForkInv'
    BY <1>2, <1>3, ForkInvFrame DEF modelVars, Launched
  <1>5. ModelInv'
    BY ModelInvFrame DEF modelVars, Inv, ModelInv, ModelTypeOK
  <1>6. TypeOK'
    <2>1. collection' \in [CollectionIds -> NftCollectionObject \cup {NoCollection}]
      BY DEF Inv, TypeOK
    <2> QED
      BY <1>5, <2>1 DEF TypeOK, Inv, ModelInv
  <1> QED
    BY <1>4, <1>5, <1>6 DEF Inv

(* Moving or minting tokens alone keeps the invariant. *)
LEMMA TokenOnlyInv ==
    ASSUME Inv, UNCHANGED <<modelVars, collection, caps, integrations>>,
           token' \in [TokenIds -> NftTokenObject \cup {NoToken}]
    PROVE  Inv'
  <1>1. Launched' = Launched
    BY DEF Launched
  <1>2. ForkInv'
    BY <1>1, ForkInvFrame DEF modelVars
  <1>3. ModelInv'
    BY ModelInvFrame DEF modelVars, Inv, ModelInv, ModelTypeOK
  <1>4. TypeOK'
    BY <1>3 DEF TypeOK, Inv, ModelInv
  <1> QED
    BY <1>2, <1>3, <1>4 DEF Inv

LEMMA MintNftTokenInv ==
    ASSUME Inv, NEW c \in CollectionIds, NEW a \in Accounts,
           NEW t \in TokenIds, NEW patch_id \in Patches, mint_nft_token(c, a, t, patch_id)
    PROVE  Inv'
  <1>1. c \in Launched /\ collection[c].base_model_id \in ModelIds
    BY LaunchedIsObject DEF mint_nft_token, HoldsCap, Inv, NftCollectionObject
  <1>2. [x \in {t} |-> patch_id] \in [{t} -> Patches]
    OBVIOUS
  <1>3. MintBatch(c, collection[c].base_model_id, a, [x \in {t} |-> patch_id])
    BY DEF mint_nft_token
  <1>4. token' \in [TokenIds -> NftTokenObject \cup {NoToken}]
    BY <1>1, <1>2, <1>3, MintBatchType DEF Inv
  <1> QED
    BY <1>4, TokenOnlyInv DEF mint_nft_token

LEMMA MintTokensInv ==
    ASSUME Inv, NEW c \in CollectionIds, NEW a \in Accounts, NEW quilt \in Quilts \cup {NoQuilt},
           NEW ids \in SUBSET (TokenIds \ Minted), NEW patch \in [ids -> Patches],
           mint_tokens(c, a, quilt, patch)
    PROVE  Inv'
  <1> DEFINE object == [collection[c] EXCEPT !.quilt_blob_id = quilt]
  <1>1. /\ c \in Launched
        /\ collection[c] \in NftCollectionObject
        /\ collection' = [collection EXCEPT ![c] = object]
        /\ MintBatch(c, collection[c].base_model_id, a, patch)
        /\ UNCHANGED <<modelVars, caps, integrations>>
    BY LaunchedIsObject DEF mint_tokens, HoldsCap, Inv
  <1>2. /\ object \in NftCollectionObject
        /\ object.base_model_id = collection[c].base_model_id
        /\ object.base_creator = collection[c].base_creator
        /\ object.nft_creator = collection[c].nft_creator
    BY <1>1 DEF NftCollectionObject
  <1>3. token' \in [TokenIds -> NftTokenObject \cup {NoToken}]
    BY <1>1, MintBatchType DEF Inv, NftCollectionObject
  <1> HIDE DEF object
  <1> QED
    BY <1>1, <1>2, <1>3, ManageInv

LEMMA SetRegisterFeeInv ==
    ASSUME Inv, NEW c \in CollectionIds, NEW a \in Accounts, NEW fee \in RegisterFees,
           set_register_fee(c, a, fee)
    PROVE  Inv'
  <1> DEFINE object == [collection[c] EXCEPT !.register_fee = fee]
  <1>1. /\ c \in Launched
        /\ collection[c] \in NftCollectionObject
        /\ collection' = [collection EXCEPT ![c] = object]
        /\ UNCHANGED <<modelVars, caps, integrations>>
    BY LaunchedIsObject DEF set_register_fee, HoldsCap, Inv
  <1>2. /\ object \in NftCollectionObject
        /\ object.base_model_id = collection[c].base_model_id
        /\ object.base_creator = collection[c].base_creator
        /\ object.nft_creator = collection[c].nft_creator
    BY <1>1 DEF NftCollectionObject
  <1>3. token' \in [TokenIds -> NftTokenObject \cup {NoToken}]
    BY DEF set_register_fee, Inv, TypeOK
  <1> HIDE DEF object
  <1> QED
    BY <1>1, <1>2, <1>3, ManageInv

LEMMA SetIntegrationPolicyInv ==
    ASSUME Inv, NEW c \in CollectionIds, NEW a \in Accounts, NEW policy \in PolicyBytes,
           set_integration_policy(c, a, policy)
    PROVE  Inv'
  <1> DEFINE object == [collection[c] EXCEPT !.integration_policy = policy]
  <1>1. /\ c \in Launched
        /\ collection[c] \in NftCollectionObject
        /\ collection' = [collection EXCEPT ![c] = object]
        /\ UNCHANGED <<modelVars, caps, integrations>>
    BY LaunchedIsObject DEF set_integration_policy, HoldsCap, Inv
  <1>2. /\ object \in NftCollectionObject
        /\ object.base_model_id = collection[c].base_model_id
        /\ object.base_creator = collection[c].base_creator
        /\ object.nft_creator = collection[c].nft_creator
    BY <1>1 DEF NftCollectionObject
  <1>3. token' \in [TokenIds -> NftTokenObject \cup {NoToken}]
    BY DEF set_integration_policy, Inv, TypeOK
  <1> HIDE DEF object
  <1> QED
    BY <1>1, <1>2, <1>3, ManageInv

LEMMA TransferTokenInv ==
    ASSUME Inv, NEW t \in TokenIds, NEW a \in Accounts, TransferToken(t, a)
    PROVE  Inv' /\ Minted' = Minted
  <1>1. token[t] \in NftTokenObject /\ token' = [token EXCEPT ![t].owner = a]
    BY DEF TransferToken, Minted, Inv, TypeOK
  <1>2. token' \in [TokenIds -> NftTokenObject \cup {NoToken}]
        /\ token'[t] \in NftTokenObject
        /\ \A x \in TokenIds \ {t} : token'[x] = token[x]
    BY <1>1 DEF Inv, TypeOK, NftTokenObject
  <1>3. Minted' = Minted
    BY <1>1, <1>2, NoObjectAssumption DEF Minted
  <1> QED
    BY <1>2, <1>3, TokenOnlyInv DEF TransferToken

LEMMA RegisterInv ==
    ASSUME Inv, NEW c \in CollectionIds, NEW a \in Accounts, register_integration(c, a)
    PROVE  Inv'
  <1>1. /\ c \in Launched
        /\ collection[c] \in NftCollectionObject
        /\ UNCHANGED <<model, buyers, used, entitlements, version, collection, caps, token>>
    BY LaunchedIsObject DEF register_integration, MayRegister, Inv
  <1>2. collection[c].nft_creator \in Accounts /\ collection[c].register_fee \in Nat
    BY <1>1, LaunchedFields DEF Inv
  <1>3. balance' \in [Accounts -> Nat]
    BY <1>2, SettleType DEF register_integration, Inv, ModelInv, ModelTypeOK
  <1>4. integrations' \in [CollectionIds -> SUBSET IntegrationRecord]
    BY <1>2 DEF register_integration, IntegrationRecord, Inv, TypeOK
  <1>5. ModelInv'
    BY <1>1, <1>3, ModelInvFrame DEF Inv, ModelInv, ModelTypeOK
  <1>6. ForkInv'
    BY <1>1, ForkInvFrame DEF Launched
  <1>7. TypeOK'
    BY <1>1, <1>4, <1>5 DEF Inv, TypeOK, ModelInv
  <1> QED
    BY <1>5, <1>6, <1>7 DEF Inv

-----------------------------------------------------------------------------
(* Selling access or publishing leaves every fork as licensed as it was:     *)
(* published bases are frozen and buyers tables only grow.                   *)
LEMMA ModelStepGrows ==
    ASSUME ModelInv, ModelNext
    PROVE  /\ Published \subseteq Published'
           /\ \A m \in Published : model'[m] = model[m] /\ buyers[m] \subseteq buyers'[m]
  <1>1. ASSUME NEW m \in ModelIds, NEW a \in Accounts, NEW license \in LicenseTerms,
               NEW has_key \in BOOLEAN, NEW seal_id \in SealIds \cup {NoSealId},
               new_model(m, a, license, has_key, seal_id)
        PROVE  /\ Published \subseteq Published'
               /\ \A x \in Published : model'[x] = model[x] /\ buyers[x] \subseteq buyers'[x]
    <2>1. /\ Published' = Published \cup {m}
          /\ m \notin Published
          /\ \A x \in ModelIds \ {m} : model'[x] = model[x]
      BY <1>1, NewModelType DEF ModelInv
    <2>2. buyers' = buyers
      BY <1>1 DEF new_model
    <2> QED
      BY <2>1, <2>2 DEF Published
  <1>2. ASSUME NEW m \in ModelIds, NEW a \in Accounts, purchase_access(m, a)
        PROVE  /\ Published \subseteq Published'
               /\ \A x \in Published : model'[x] = model[x] /\ buyers[x] \subseteq buyers'[x]
    BY <1>2 DEF purchase_access, Published, ModelInv, ModelTypeOK
  <1>3. CASE UpgradePackage
    BY <1>3 DEF UpgradePackage, Published
  <1> QED
    BY <1>1, <1>2, <1>3 DEF ModelNext, publish, publish_encrypted

LEMMA ModelStepInv ==
    ASSUME Inv, ModelNext, UNCHANGED collectionVars
    PROVE  Inv'
  <1>1. ModelInv'
    BY ModelNextInv DEF Inv
  <1>2. UNCHANGED <<collection, caps, token, integrations>> /\ Launched' = Launched
    BY DEF collectionVars, Launched
  <1>3. /\ Published \subseteq Published'
        /\ \A m \in Published : model'[m] = model[m] /\ buyers[m] \subseteq buyers'[m]
    BY ModelStepGrows DEF Inv
  <1>4. CapsMatchCollections'
    BY <1>2 DEF Inv, ForkInv, CapsMatchCollections
  <1>5. CollectionsMatchBases'
    BY <1>2, <1>3 DEF Inv, ForkInv, CollectionsMatchBases
  <1>6. LicenseRespected'
    BY <1>2, <1>3 DEF Inv, ForkInv, LicenseRespected, CollectionsMatchBases
  <1>7. TypeOK'
    BY <1>1, <1>2 DEF Inv, TypeOK, ModelInv
  <1> QED
    BY <1>1, <1>4, <1>5, <1>6, <1>7 DEF Inv, ForkInv

LEMMA StutterInv ==
    ASSUME Inv, UNCHANGED vars
    PROVE  Inv'
  <1>1. UNCHANGED <<modelVars, collection, caps, token, integrations>>
    BY DEF vars, collectionVars
  <1> QED
    BY <1>1, TokenOnlyInv DEF Inv, TypeOK

(* A batch names only ids nothing was minted under. *)
LEMMA BatchIds ==
    ASSUME NEW patch \in Batches
    PROVE  /\ DOMAIN patch \in SUBSET (TokenIds \ Minted)
           /\ patch \in [DOMAIN patch -> Patches]
  BY DEF Batches

LEMMA NextInv == Inv /\ [Next]_vars => Inv'
  <1> SUFFICES ASSUME Inv, [Next]_vars PROVE Inv'
    OBVIOUS
  <1>1. CASE ModelNext /\ UNCHANGED collectionVars
    BY <1>1, ModelStepInv
  <1>2. ASSUME NEW c \in CollectionIds, NEW m \in ModelIds, NEW a \in Accounts,
               NEW quilt \in Quilts \cup {NoQuilt}, Launch(c, m, a, quilt)
        PROVE  Inv'
    <2>1. CASE launch_collection(c, m, a, quilt)
      BY <2>1, LaunchCollectionInv
    <2>2. CASE launch_collection_with_entitlement(c, m, a, quilt)
      BY <2>2, LaunchWithEntitlementInv
    <2>3. ASSUME NEW fee \in RegisterFees, NEW patch \in Batches,
                 launch_collection_with_tokens(c, m, a, quilt, fee, patch)
          PROVE  Inv'
      BY <2>3, BatchIds, LaunchWithTokensInv
    <2> QED
      BY <1>2, <2>1, <2>2, <2>3 DEF Launch
  <1>3. ASSUME NEW c \in CollectionIds, NEW a \in Accounts, Manage(c, a)
        PROVE  Inv'
    <2>1. ASSUME NEW t \in TokenIds, NEW patch_id \in Patches, mint_nft_token(c, a, t, patch_id)
          PROVE  Inv'
      BY <2>1, MintNftTokenInv
    <2>2. ASSUME NEW quilt \in Quilts \cup {NoQuilt}, NEW patch \in Batches,
                 mint_tokens(c, a, quilt, patch)
          PROVE  Inv'
      BY <2>2, BatchIds, MintTokensInv
    <2>3. ASSUME NEW fee \in RegisterFees, set_register_fee(c, a, fee) PROVE Inv'
      BY <2>3, SetRegisterFeeInv
    <2>4. ASSUME NEW policy \in PolicyBytes, set_integration_policy(c, a, policy) PROVE Inv'
      BY <2>4, SetIntegrationPolicyInv
    <2> QED
      BY <1>3, <2>1, <2>2, <2>3, <2>4 DEF Manage
  <1>4. ASSUME NEW c \in CollectionIds, NEW a \in Accounts, register_integration(c, a)
        PROVE  Inv'
    BY <1>4, RegisterInv
  <1>5. ASSUME NEW t \in TokenIds, NEW a \in Accounts, TransferToken(t, a) PROVE Inv'
    BY <1>5, TransferTokenInv
  <1>6. CASE UNCHANGED vars
    BY <1>6, StutterInv
  <1> QED
    BY <1>1, <1>2, <1>3, <1>4, <1>5, <1>6 DEF Next

-----------------------------------------------------------------------------
(* The inductive invariant of the whole package. *)
THEOREM Invariant == Spec => []Inv
  <1> QED
    BY InitInv, NextInv, PTL DEF Spec

(* Every reachable state of the package is well typed. *)
THEOREM TypeCorrect == Spec => []TypeOK
  <1>1. Inv => TypeOK
    BY DEF Inv
  <1> QED
    BY <1>1, Invariant, PTL

(* Every fork that exists was allowed by its base's license: no launching    *)
(* entry is a way around a RESTRICTED or an ALLOW_LIST policy.               *)
THEOREM ForksAreLicensed == Spec => []LicenseRespected
  <1>1. Inv => LicenseRespected
    BY DEF Inv, ForkInv
  <1> QED
    BY <1>1, Invariant, PTL

(* The isolation of decryption is not weakened by anything the L2 layer      *)
(* does: a fork, a token or an integration never opens a base.               *)
THEOREM PackageDecryptIsolation == Spec => []DecryptIsolation
  <1>1. Inv => DecryptIsolation
    BY InvIsolates DEF Inv
  <1> QED
    BY <1>1, Invariant, PTL

-----------------------------------------------------------------------------
(* The write-once lock of the quilt (D-086): no step of any wallet replaces  *)
(* art that has been set.                                                    *)
THEOREM QuiltNeverReplaced == Spec => QuiltWriteOnce
  <1> DEFINE Kept == \A c \in Launched :
                 collection[c].quilt_blob_id # NoQuilt =>
                     collection'[c].quilt_blob_id = collection[c].quilt_blob_id
  <1>1. ASSUME Inv, [Next]_vars PROVE Kept
    <2>1. CASE UNCHANGED collection
      BY <2>1
    <2>2. ASSUME NEW c \in CollectionIds, NEW m \in ModelIds, NEW a \in Accounts,
                 NEW quilt \in Quilts \cup {NoQuilt}, NEW fee,
                 launch_collection_internal(c, m, a, quilt, fee)
          PROVE  Kept
      BY <1>1, <2>2 DEF launch_collection_internal, Launched, Inv, TypeOK
    <2>3. ASSUME NEW c \in CollectionIds, NEW a \in Accounts,
                 NEW quilt \in Quilts \cup {NoQuilt}, NEW patch \in Batches,
                 mint_tokens(c, a, quilt, patch)
          PROVE  Kept
      BY <1>1, <2>3 DEF mint_tokens, Launched, Inv, TypeOK
    <2>4. ASSUME NEW c \in CollectionIds, NEW a \in Accounts, NEW fee \in RegisterFees,
                 set_register_fee(c, a, fee)
          PROVE  Kept
      <3>1. c \in Launched /\ collection[c] \in NftCollectionObject
        BY <1>1, <2>4, LaunchedIsObject DEF set_register_fee, HoldsCap, Inv
      <3> QED
        BY <1>1, <2>4, <3>1 DEF set_register_fee, Launched, Inv, TypeOK, NftCollectionObject
    <2>5. ASSUME NEW c \in CollectionIds, NEW a \in Accounts, NEW policy \in PolicyBytes,
                 set_integration_policy(c, a, policy)
          PROVE  Kept
      <3>1. c \in Launched /\ collection[c] \in NftCollectionObject
        BY <1>1, <2>5, LaunchedIsObject DEF set_integration_policy, HoldsCap, Inv
      <3> QED
        BY <1>1, <2>5, <3>1 DEF set_integration_policy, Launched, Inv, TypeOK, NftCollectionObject
    <2>6. CASE \E c \in CollectionIds, m \in ModelIds, a \in Accounts,
                  quilt \in Quilts \cup {NoQuilt} : Launch(c, m, a, quilt)
      BY <2>2, <2>6 DEF Launch, launch_collection, launch_collection_with_entitlement,
                        launch_collection_with_tokens
    <2>7. CASE \E c \in CollectionIds, a \in Accounts : Manage(c, a) \/ register_integration(c, a)
      BY <2>1, <2>3, <2>4, <2>5, <2>7 DEF Manage, mint_nft_token, register_integration
    <2> QED
      BY <1>1, <2>1, <2>6, <2>7 DEF Next, TransferToken, vars, collectionVars
  <1> QED
    BY <1>1, Invariant, PTL DEF Spec, QuiltWriteOnce

-----------------------------------------------------------------------------
(* Every new token belongs to the creator of the collection it names, and    *)
(* carries that collection's base.                                           *)
OwnedByCollectionCreator(t) ==
    LET c == token'[t].collection_id IN
    /\ c \in Launched'
    /\ token'[t].owner = collection'[c].nft_creator
    /\ token'[t].base_model_id = collection'[c].base_model_id

LEMMA NewTokensOwned ==
    ASSUME TypeOK, NEW c \in CollectionIds, NEW m \in ModelIds, NEW a \in Accounts,
           NEW patch, DOMAIN patch \in SUBSET TokenIds, patch \in [DOMAIN patch -> Patches],
           MintBatch(c, m, a, patch),
           c \in Launched', collection'[c].nft_creator = a, collection'[c].base_model_id = m
    PROVE  \A t \in Minted' \ Minted : OwnedByCollectionCreator(t)
  <1>1. /\ \A t \in TokenIds \ DOMAIN patch : token'[t] = token[t]
        /\ \A t \in DOMAIN patch : /\ token'[t].collection_id = c
                                   /\ token'[t].base_model_id = m
                                   /\ token'[t].owner = a
    BY MintBatchType
  <1>2. Minted' \ Minted \subseteq DOMAIN patch
    BY <1>1, NewTokens
  <1> QED
    BY <1>1, <1>2 DEF OwnedByCollectionCreator

(* Nobody mints into a collection with the cap of another, through any of    *)
(* the three minting entries.                                                *)
THEOREM OnlyCreatorsMint == Spec => MintedByCollectionCreator
  <1>1. ASSUME Inv, [Next]_vars PROVE \A t \in Minted' \ Minted : OwnedByCollectionCreator(t)
    <2>1. CASE UNCHANGED token
      BY <2>1 DEF Minted
    <2>2. ASSUME NEW c \in CollectionIds, NEW m \in ModelIds, NEW a \in Accounts,
                 NEW quilt \in Quilts \cup {NoQuilt}, NEW fee \in RegisterFees,
                 NEW patch \in Batches, launch_collection_with_tokens(c, m, a, quilt, fee, patch)
          PROVE  \A t \in Minted' \ Minted : OwnedByCollectionCreator(t)
      <3>1. Inv'
        BY <1>1, NextInv
      <3>2. collection'[c].nft_creator = a /\ collection'[c].base_model_id = m
        BY <1>1, <2>2 DEF launch_collection_with_tokens, launch_collection_internal, Inv, TypeOK
      <3>3. [collection_id |-> c, holder |-> a] \in caps'
        BY <2>2 DEF launch_collection_with_tokens, launch_collection_internal
      <3>4. c \in Launched'
        BY <3>1, <3>3 DEF Inv, ForkInv, CapsMatchCollections
      <3>5. /\ MintBatch(c, m, a, patch)
            /\ DOMAIN patch \in SUBSET TokenIds
            /\ patch \in [DOMAIN patch -> Patches]
        BY <2>2, BatchIds DEF launch_collection_with_tokens
      <3> QED
        BY <1>1, <3>2, <3>4, <3>5, NewTokensOwned DEF Inv
    <2>3. ASSUME NEW c \in CollectionIds, NEW a \in Accounts, HoldsCap(c, a),
                 Launched' = Launched,
                 collection'[c].nft_creator = collection[c].nft_creator,
                 collection'[c].base_model_id = collection[c].base_model_id,
                 NEW patch, DOMAIN patch \in SUBSET TokenIds,
                 patch \in [DOMAIN patch -> Patches],
                 MintBatch(c, collection[c].base_model_id, a, patch)
          PROVE  \A t \in Minted' \ Minted : OwnedByCollectionCreator(t)
      <3>1. c \in Launched /\ collection[c].nft_creator = a
        BY <1>1, <2>3, HolderIsCreator
      <3>2. collection[c].base_model_id \in ModelIds
        BY <1>1, <3>1, LaunchedIsObject DEF Inv, NftCollectionObject
      <3> QED
        BY <1>1, <2>3, <3>1, <3>2, NewTokensOwned DEF Inv
    <2>4. ASSUME NEW c \in CollectionIds, NEW a \in Accounts,
                 NEW t \in TokenIds, NEW patch_id \in Patches, mint_nft_token(c, a, t, patch_id)
          PROVE  \A x \in Minted' \ Minted : OwnedByCollectionCreator(x)
      <3> DEFINE patch == [x \in {t} |-> patch_id]
      <3>1. /\ DOMAIN patch \in SUBSET TokenIds
            /\ patch \in [DOMAIN patch -> Patches]
        OBVIOUS
      <3>2. /\ HoldsCap(c, a)
            /\ collection' = collection
            /\ MintBatch(c, collection[c].base_model_id, a, patch)
        BY <2>4 DEF mint_nft_token
      <3>3. Launched' = Launched
        BY <3>2 DEF Launched
      <3> HIDE DEF patch
      <3> QED
        BY <2>3, <3>1, <3>2, <3>3
    <2>5. ASSUME NEW c \in CollectionIds, NEW a \in Accounts,
                 NEW quilt \in Quilts \cup {NoQuilt}, NEW patch \in Batches,
                 mint_tokens(c, a, quilt, patch)
          PROVE  \A x \in Minted' \ Minted : OwnedByCollectionCreator(x)
      <3>1. /\ HoldsCap(c, a)
            /\ collection' = [collection EXCEPT ![c].quilt_blob_id = quilt]
            /\ MintBatch(c, collection[c].base_model_id, a, patch)
        BY <2>5 DEF mint_tokens
      <3>2. c \in Launched /\ collection[c] \in NftCollectionObject
        BY <1>1, <3>1, LaunchedIsObject DEF HoldsCap, Inv
      <3>3. /\ collection'[c] \in NftCollectionObject
            /\ collection'[c].nft_creator = collection[c].nft_creator
            /\ collection'[c].base_model_id = collection[c].base_model_id
            /\ \A x \in CollectionIds \ {c} : collection'[x] = collection[x]
        BY <1>1, <3>1, <3>2 DEF NftCollectionObject, Inv, TypeOK
      <3>4. Launched' = Launched
        BY <3>2, <3>3, NoObjectAssumption DEF Launched
      <3>5. DOMAIN patch \in SUBSET TokenIds /\ patch \in [DOMAIN patch -> Patches]
        BY BatchIds
      <3> QED
        BY <2>3, <3>1, <3>3, <3>4, <3>5
    <2>6. ASSUME NEW t \in TokenIds, NEW a \in Accounts, TransferToken(t, a)
          PROVE  \A x \in Minted' \ Minted : OwnedByCollectionCreator(x)
      BY <1>1, <2>6, TransferTokenInv
    <2>7. CASE \E c \in CollectionIds, m \in ModelIds, a \in Accounts,
                  quilt \in Quilts \cup {NoQuilt} : Launch(c, m, a, quilt)
      BY <2>1, <2>2, <2>7 DEF Launch, launch_collection, launch_collection_with_entitlement
    <2>8. CASE \E c \in CollectionIds, a \in Accounts : Manage(c, a) \/ register_integration(c, a)
      BY <2>1, <2>4, <2>5, <2>8 DEF Manage, set_register_fee, set_integration_policy,
                                    register_integration
    <2> QED
      BY <1>1, <2>1, <2>6, <2>7, <2>8 DEF Next, vars, collectionVars
  <1>2. (\A t \in Minted' \ Minted : OwnedByCollectionCreator(t)) =>
        (\A t \in Minted' \ Minted :
           LET c == token'[t].collection_id IN
           /\ c \in Launched'
           /\ token'[t].owner = collection'[c].nft_creator
           /\ token'[t].base_model_id = collection'[c].base_model_id)
    BY DEF OwnedByCollectionCreator
  <1> QED
    BY <1>1, <1>2, Invariant, PTL DEF Spec, MintedByCollectionCreator

-----------------------------------------------------------------------------
(* The package implements LicensePromise.                                    *)

(* No base is stamped with a version that has not been published yet: an     *)
(* upgrade withdraws every closed base there is.                             *)
StampsArePast == \A m \in Published : model[m].seal_version <= version

PromiseInv == Inv /\ StampsArePast

(* Whom a license covers, read off the buyers table. *)
Covered(m) ==
    IF m \notin Published THEN {}
    ELSE IF model[m].is_encrypted THEN {model[m].creator} \cup buyers[m]
    ELSE Accounts

(* A closed base is withdrawn once the package has moved on. *)
Withdrawn(m) == m \in Encrypted /\ model[m].seal_version # version

LEMMA HoldersAreBuyers ==
    ASSUME ModelInv, NEW m \in ModelIds PROVE Holders(m) = buyers[m]
  <1>1. ASSUME NEW a \in Holders(m) PROVE a \in buyers[m]
    BY DEF Holders, ModelInv, ReceiptsMatchBuyers
  <1>2. ASSUME NEW a \in buyers[m] PROVE a \in Holders(m)
    <2>1. [model_id |-> m, holder |-> a] \in entitlements
      BY DEF ModelInv, ReceiptsMatchBuyers
    <2> QED
      BY <2>1 DEF Holders
  <1> QED
    BY <1>1, <1>2

LEMMA LicensedAreCovered ==
    ASSUME ModelInv, NEW m \in ModelIds PROVE Licensed(m) = Covered(m)
  BY HoldersAreBuyers DEF Licensed, Covered

(* The gates serve exactly the license, for every identity the key of a base *)
(* may be wrapped under, or nobody once the base is withdrawn.               *)
LEMMA ReadersAreCovered ==
    ASSUME ModelInv, NEW m \in ModelIds
    PROVE  Readers(m) = IF Withdrawn(m) THEN {} ELSE Covered(m)
  <1>1. CASE m \notin Encrypted
    BY <1>1 DEF Readers, Covered, Withdrawn, Encrypted
  <1>2. CASE m \in Encrypted
    <2>1. /\ m \in Published
          /\ model[m].is_encrypted
          /\ model[m].creator \in Accounts
          /\ buyers[m] \subseteq Accounts
      BY <1>2, PublishedIsObject DEF Encrypted, ModelInv, ModelTypeOK, ModelObject
    <2>2. PICK id : id \in Identities(m)
      BY SealAssumption DEF Identities
    <2>3. ASSUME NEW a \in Readers(m) PROVE ~Withdrawn(m) /\ a \in Covered(m)
      <3>1. a \in Accounts /\ KeyReleased(id, a)
        BY <2>1, <2>2, <2>3 DEF Readers
      <3> QED
        BY <1>2, <2>1, <2>2, <3>1, InvIsolates DEF DecryptIsolation, Withdrawn, Covered
    <2>4. ASSUME ~Withdrawn(m), NEW a \in Covered(m) PROVE a \in Readers(m)
      <3>1. a \in Accounts /\ a \in {model[m].creator} \cup buyers[m]
        BY <2>1 DEF Covered
      <3>2. \A x \in Identities(m) : KeyReleased(x, a)
        BY <1>2, <2>4, <3>1, InvDecrypts DEF EntitledCanDecrypt, Withdrawn
      <3> QED
        BY <2>1, <3>1, <3>2 DEF Readers
    <2> QED
      BY <2>3, <2>4
  <1> QED
    BY <1>1, <1>2

(* The three state functions of the refinement mapping, in closed form.      *)
Mapped ==
    \A m \in ModelIds : /\ Licensed(m) = Covered(m)
                        /\ Readers(m) = IF Withdrawn(m) THEN {} ELSE Covered(m)

LEMMA InvMaps == ModelInv => Mapped
  BY LicensedAreCovered, ReadersAreCovered DEF Mapped

Terms(m) == IF m \in Published THEN TermsOf(model[m].license.policy) ELSE "unpublished"

(* new_model is the abstract Publish. *)
LEMMA NewModelPublishes ==
    ASSUME PromiseInv, Inv', UNCHANGED collectionVars,
           NEW m \in ModelIds, NEW a \in Accounts, NEW license \in LicenseTerms,
           NEW has_key \in BOOLEAN, NEW seal_id \in SealIds \cup {NoSealId},
           new_model(m, a, license, has_key, seal_id)
    PROVE  Promise!Publish(m, a, TermsOf(license.policy)) /\ StampsArePast'
  <1>1. /\ Published' = Published \cup {m}
        /\ m \notin Published
        /\ \A x \in ModelIds \ {m} : model'[x] = model[x]
        /\ model'[m].license = license
        /\ model'[m].is_encrypted = (license.policy # PERMISSIONLESS)
        /\ model'[m].creator = a
        /\ validate_publish_inputs(license)
    BY NewModelType DEF PromiseInv, Inv, ModelInv
  <1>2. UNCHANGED <<buyers, version, collection>> /\ model'[m].seal_version = version
    BY DEF new_model, collectionVars, PromiseInv, Inv, ModelInv, ModelTypeOK
  <1>3. Mapped /\ Mapped'
    BY InvMaps, PTL DEF PromiseInv, Inv
  <1>4. \A x \in ModelIds : buyers'[x] = buyers[x]
    BY <1>2
  <1>5. buyers[m] = {}
    BY <1>1 DEF PromiseInv, Inv, ModelInv, ReceiptsMatchBuyers
  <1> DEFINE audience == IF TermsOf(license.policy) = "open" THEN Accounts ELSE {a}
  <1>6. \A x \in ModelIds \ {m} : /\ (x \in Published') = (x \in Published)
                                  /\ Covered(x)' = Covered(x)
                                  /\ Withdrawn(x)' = Withdrawn(x)
                                  /\ Terms(x)' = Terms(x)
    BY <1>1, <1>2 DEF Covered, Withdrawn, Encrypted, Terms
  <1>7. /\ Covered(m)' = audience
        /\ ~Withdrawn(m)'
        /\ Terms(m)' = TermsOf(license.policy)
        /\ Terms(m) = "unpublished"
    <2>1. m \in Published' /\ m \notin Published
      BY <1>1
    <2>2. model'[m].is_encrypted = (TermsOf(license.policy) # "open")
      BY <1>1 DEF TermsOf, validate_publish_inputs, RESTRICTED, ALLOW_LIST, PERMISSIONLESS
    <2>3. buyers'[m] = {}
      BY <1>2, <1>5
    <2>4. Covered(m)' = audience
      BY <1>1, <2>1, <2>2, <2>3 DEF Covered
    <2>5. ~Withdrawn(m)' /\ Terms(m)' = TermsOf(license.policy) /\ Terms(m) = "unpublished"
      BY <1>1, <1>2, <2>1 DEF Withdrawn, Terms
    <2> QED
      BY <2>4, <2>5
  <1>8. \A x \in ModelIds : Forkers(x)' = Forkers(x)
    BY <1>2 DEF Forkers, Launched
  <1>9. \A x \in ModelIds : /\ Terms(x)' = IF x = m THEN TermsOf(license.policy) ELSE Terms(x)
                            /\ Licensed(x)' = IF x = m THEN audience ELSE Licensed(x)
                            /\ Readers(x)' = IF x = m THEN audience ELSE Readers(x)
    BY <1>3, <1>6, <1>7 DEF Mapped
  <1>10. Promise!Publish(m, a, TermsOf(license.policy))
    BY <1>7, <1>8, <1>9 DEF Promise!Publish, Terms
  <1>11. StampsArePast'
    BY <1>1, <1>2 DEF StampsArePast, PromiseInv, Inv, ModelInv, ModelTypeOK, Published
  <1> QED
    BY <1>10, <1>11

(* purchase_access is the abstract Grant. *)
LEMMA PurchaseGrants ==
    ASSUME PromiseInv, Inv', UNCHANGED collectionVars,
           NEW m \in ModelIds, NEW a \in Accounts, purchase_access(m, a)
    PROVE  Promise!Grant(m, a)
  <1>1. /\ MayPurchase(m, a)
        /\ buyers' = [buyers EXCEPT ![m] = @ \cup {a}]
        /\ UNCHANGED <<model, version>>
        /\ Published' = Published
        /\ UNCHANGED collection
    BY DEF purchase_access, Published, collectionVars
  <1>2. Mapped /\ Mapped'
    BY InvMaps, PTL DEF PromiseInv, Inv
  <1>3. \A x \in ModelIds : buyers'[x] = IF x = m THEN buyers[m] \cup {a} ELSE buyers[x]
    BY <1>1 DEF PromiseInv, Inv, ModelInv, ModelTypeOK
  <1>4. /\ m \in Published
        /\ model[m].license.policy = ALLOW_LIST
        /\ model[m].is_encrypted
        /\ a \notin {model[m].creator} \cup buyers[m]
    <2>1. /\ m \in Published
          /\ model[m].license.policy = ALLOW_LIST
          /\ a \notin {model[m].creator} \cup buyers[m]
      BY <1>1 DEF MayPurchase
    <2>2. model[m].is_encrypted = (model[m].license.policy # PERMISSIONLESS)
      BY <2>1 DEF PromiseInv, Inv, ModelInv, SealFieldsInv
    <2>3. ALLOW_LIST # PERMISSIONLESS
      BY DEF ALLOW_LIST, PERMISSIONLESS
    <2> QED
      BY <2>1, <2>2, <2>3
  <1>5. Terms(m) = "paid" /\ a \notin Covered(m) /\ Covered(m)' = Covered(m) \cup {a}
    BY <1>1, <1>3, <1>4 DEF Terms, TermsOf, RESTRICTED, ALLOW_LIST, PERMISSIONLESS, Covered
  <1>6. Covered(m) # {}
    BY <1>4 DEF Covered
  <1>7. \A x \in ModelIds : /\ Terms(x)' = Terms(x)
                            /\ Withdrawn(x)' = Withdrawn(x)
                            /\ x # m => Covered(x)' = Covered(x)
                            /\ Forkers(x)' = Forkers(x)
    BY <1>1, <1>3 DEF Terms, Withdrawn, Encrypted, Covered, Forkers, Launched
  <1>8. \A x \in ModelIds :
            /\ Licensed(x)' = IF x = m THEN Licensed(x) \cup {a} ELSE Licensed(x)
            /\ Readers(x)' = IF x = m THEN (IF Readers(x) = {} THEN {} ELSE Readers(x) \cup {a})
                                      ELSE Readers(x)
    BY <1>2, <1>5, <1>6, <1>7 DEF Mapped
  <1>9. Terms(m) = "paid" /\ a \notin Licensed(m)
    BY <1>2, <1>5 DEF Mapped
  <1> QED
    BY <1>7, <1>8, <1>9 DEF Promise!Grant, Terms

(* A launch the license allows is the abstract Fork. *)
LEMMA LaunchForks ==
    ASSUME PromiseInv, Inv', NEW c \in CollectionIds, NEW m \in ModelIds, NEW a \in Accounts,
           NEW quilt \in Quilts \cup {NoQuilt}, NEW fee \in RegisterFees \cup {0},
           launch_collection_internal(c, m, a, quilt, fee), MayFork(m, a)
    PROVE  Promise!Fork(m, a)
  <1>1. /\ m \in Published
        /\ c \in CollectionIds \ Launched
        /\ UNCHANGED <<model, buyers, entitlements, version>>
        /\ Published' = Published
    BY DEF launch_collection_internal, MayLaunch, Published
  <1>2. /\ collection'[c].base_model_id = m
        /\ collection'[c].nft_creator = a
        /\ \A x \in CollectionIds \ {c} : collection'[x] = collection[x]
    BY DEF launch_collection_internal, PromiseInv, Inv, TypeOK
  <1>3. [collection_id |-> c, holder |-> a] \in caps'
    BY DEF launch_collection_internal
  <1>4. Launched' = Launched \cup {c}
    BY <1>1, <1>2, <1>3 DEF Launched, Inv, ForkInv, CapsMatchCollections
  <1>5. \A x \in ModelIds : Forkers(x)' = IF x = m THEN Forkers(x) \cup {a} ELSE Forkers(x)
    <2>1. \A x \in Launched : x \in CollectionIds \ {c} /\ collection'[x] = collection[x]
      BY <1>1, <1>2 DEF Launched
    <2>2. ASSUME NEW x \in ModelIds
          PROVE  {y \in Launched' : collection'[y].base_model_id = x} =
                 {y \in Launched : collection[y].base_model_id = x}
                     \cup (IF x = m THEN {c} ELSE {})
      BY <1>2, <1>4, <2>1
    <2> QED
      BY <1>2, <2>1, <2>2 DEF Forkers
  <1>6. Mapped /\ Mapped'
    BY InvMaps, PTL DEF PromiseInv, Inv
  <1>7. \A x \in ModelIds : /\ Terms(x)' = Terms(x)
                            /\ Covered(x)' = Covered(x)
                            /\ Withdrawn(x)' = Withdrawn(x)
    BY <1>1 DEF Terms, Covered, Withdrawn, Encrypted
  <1>8. \A x \in ModelIds : Licensed(x)' = Licensed(x) /\ Readers(x)' = Readers(x)
    BY <1>6, <1>7 DEF Mapped
  <1>9. a \in Covered(m)
    BY <1>1 DEF Covered, MayFork, PromiseInv, Inv, ModelInv, SealFieldsInv,
                ALLOW_LIST, PERMISSIONLESS
  <1>10. a \in Licensed(m)
    BY <1>6, <1>9 DEF Mapped
  <1> QED
    BY <1>5, <1>7, <1>8, <1>10 DEF Promise!Fork, Terms

(* An upgrade is the abstract Retire: no base is stamped with the version it *)
(* publishes.                                                                *)
LEMMA UpgradeRetires ==
    ASSUME PromiseInv, Inv', UNCHANGED collectionVars, UpgradePackage
    PROVE  Promise!Retire
  <1>1. /\ UNCHANGED <<model, buyers, entitlements, collection>>
        /\ version' = version + 1
        /\ Published' = Published
    BY DEF UpgradePackage, collectionVars, Published
  <1>2. Mapped /\ Mapped'
    BY InvMaps, PTL DEF PromiseInv, Inv
  <1>3. \A x \in ModelIds : /\ Terms(x)' = Terms(x)
                            /\ Covered(x)' = Covered(x)
                            /\ Forkers(x)' = Forkers(x)
    BY <1>1 DEF Terms, Covered, Forkers, Launched
  <1>4. \A x \in Published :
            /\ x \in ModelIds
            /\ model[x].seal_version \in Nat
            /\ model[x].seal_version <= version
            /\ model[x].license.policy \in {RESTRICTED, ALLOW_LIST, PERMISSIONLESS}
            /\ model[x].is_encrypted = (model[x].license.policy # PERMISSIONLESS)
    BY PublishedIsObject
    DEF PromiseInv, StampsArePast, Inv, ModelInv, SealFieldsInv, ModelObject
  <1>5. \A x \in ModelIds : Withdrawn(x)' = (x \in Encrypted)
    BY <1>1, <1>4 DEF Withdrawn, Encrypted, PromiseInv, Inv, ModelInv, ModelTypeOK
  <1>6. \A x \in ModelIds : IF Terms(x) = "open" THEN x \in Published /\ x \notin Encrypted
                            ELSE x \notin Published \/ x \in Encrypted
    <2> SUFFICES ASSUME NEW x \in Published
                 PROVE  (TermsOf(model[x].license.policy) = "open") = ~model[x].is_encrypted
      BY DEF Terms, Encrypted
    <2>1. (TermsOf(model[x].license.policy) = "open") = (model[x].license.policy = PERMISSIONLESS)
      BY <1>4 DEF TermsOf, RESTRICTED, ALLOW_LIST, PERMISSIONLESS
    <2> QED
      BY <1>4, <2>1
  <1>7. \A x \in ModelIds : x \notin Published => Covered(x) = {}
    BY DEF Covered
  <1>8. \A x \in ModelIds : x \notin Encrypted => ~Withdrawn(x)
    BY DEF Withdrawn
  <1>9. \A x \in ModelIds :
            /\ Licensed(x)' = Licensed(x)
            /\ Readers(x)' = IF Terms(x) = "open" THEN Readers(x) ELSE {}
    BY <1>2, <1>3, <1>5, <1>6, <1>7, <1>8 DEF Mapped
  <1> QED
    BY <1>3, <1>9 DEF Promise!Retire, Terms

(* Whatever leaves the bases, the sales and who forked alone is no step.     *)
LEMMA OtherStepsStutter ==
    ASSUME UNCHANGED <<model, buyers, used, entitlements, version>>,
           \A c \in CollectionIds :
               /\ (c \in Launched') = (c \in Launched)
               /\ c \in Launched =>
                      /\ collection'[c].base_model_id = collection[c].base_model_id
                      /\ collection'[c].nft_creator = collection[c].nft_creator
    PROVE  UNCHANGED Promise!promiseVars
  <1>1. Published' = Published
    BY DEF Published
  <1>2. \A x \in ModelIds : /\ Terms(x)' = Terms(x)
                            /\ Licensed(x)' = Licensed(x)
                            /\ Readers(x)' = Readers(x)
    BY <1>1 DEF Terms, Licensed, Readers, Holders, Identities, KeyReleased,
                seal_approve_creator, seal_approve_entitlement
  <1>3. \A x \in ModelIds : Forkers(x)' = Forkers(x)
    BY DEF Forkers, Launched
  <1> QED
    BY <1>2, <1>3 DEF Promise!promiseVars, Terms

-----------------------------------------------------------------------------
LEMMA InitPromise == Init => PromiseInv /\ Promise!PromiseInit
  <1> SUFFICES ASSUME Init PROVE PromiseInv /\ Promise!PromiseInit
    OBVIOUS
  <1>1. Published = {} /\ Launched = {}
    BY DEF Init, ModelInit, Published, Launched
  <1>2. PromiseInv
    BY <1>1, InitInv DEF PromiseInv, StampsArePast
  <1>3. Promise!PromiseInit
    BY <1>1 DEF Promise!PromiseInit, Licensed, Readers, Forkers
  <1> QED
    BY <1>2, <1>3

(* Every step of the package is a step of the promise, or none of its        *)
(* business.                                                                 *)
LEMMA NextPromise ==
    PromiseInv /\ Inv' /\ [Next]_vars =>
        StampsArePast' /\ [Promise!PromiseNext]_(Promise!promiseVars)
  <1> SUFFICES ASSUME PromiseInv, Inv', [Next]_vars
               PROVE  StampsArePast' /\ [Promise!PromiseNext]_(Promise!promiseVars)
    OBVIOUS
  <1>1. ASSUME UNCHANGED model, version' \in Nat, version' >= version
        PROVE  StampsArePast'
    BY <1>1, PublishedIsObject
    DEF StampsArePast, PromiseInv, Inv, ModelInv, ModelTypeOK, ModelObject, Published
  <1>2. ASSUME NEW m \in ModelIds, NEW a \in Accounts, NEW license \in LicenseTerms,
               NEW has_key \in BOOLEAN, NEW seal_id \in SealIds \cup {NoSealId},
               new_model(m, a, license, has_key, seal_id), UNCHANGED collectionVars
        PROVE  StampsArePast' /\ [Promise!PromiseNext]_(Promise!promiseVars)
    <2>1. Promise!Publish(m, a, TermsOf(license.policy)) /\ StampsArePast'
      BY <1>2, NewModelPublishes
    <2>2. TermsOf(license.policy) \in {"private", "paid", "open"}
      BY DEF TermsOf
    <2> QED
      BY <2>1, <2>2 DEF Promise!PromiseNext
  <1>3. CASE ModelNext /\ UNCHANGED collectionVars
    <2>1. ASSUME NEW m \in ModelIds, NEW a \in Accounts, purchase_access(m, a)
          PROVE  StampsArePast' /\ [Promise!PromiseNext]_(Promise!promiseVars)
      <3>1. Promise!Grant(m, a)
        BY <1>3, <2>1, PurchaseGrants
      <3>2. StampsArePast'
        BY <1>1, <2>1 DEF purchase_access, PromiseInv, Inv, ModelInv, ModelTypeOK
      <3> QED
        BY <3>1, <3>2 DEF Promise!PromiseNext
    <2>2. CASE UpgradePackage
      <3>1. Promise!Retire
        BY <1>3, <2>2, UpgradeRetires
      <3>2. StampsArePast'
        BY <1>1, <2>2 DEF UpgradePackage, PromiseInv, Inv, ModelInv, ModelTypeOK
      <3> QED
        BY <3>1, <3>2 DEF Promise!PromiseNext
    <2> QED
      BY <1>2, <1>3, <2>1, <2>2 DEF ModelNext, publish, publish_encrypted
  <1>4. ASSUME NEW c \in CollectionIds, NEW m \in ModelIds, NEW a \in Accounts,
               NEW quilt \in Quilts \cup {NoQuilt}, Launch(c, m, a, quilt)
        PROVE  StampsArePast' /\ [Promise!PromiseNext]_(Promise!promiseVars)
    <2>1. PICK fee \in RegisterFees \cup {0} :
              launch_collection_internal(c, m, a, quilt, fee)
      BY <1>4 DEF Launch, launch_collection, launch_collection_with_entitlement,
                  launch_collection_with_tokens
    <2>2. MayFork(m, a)
      BY <1>4, PlainLaunchMayFork, EntitledLaunchMayFork
      DEF Launch, launch_collection, launch_collection_with_entitlement,
          launch_collection_with_tokens, launch_collection_internal, PromiseInv
    <2>3. Promise!Fork(m, a)
      BY <2>1, <2>2, LaunchForks
    <2>4. StampsArePast'
      BY <1>1, <2>1 DEF launch_collection_internal, PromiseInv, Inv, ModelInv, ModelTypeOK
    <2> QED
      BY <2>3, <2>4 DEF Promise!PromiseNext
  <1>5. ASSUME UNCHANGED <<model, buyers, used, entitlements, version>>,
               \A c \in CollectionIds :
                   /\ (c \in Launched') = (c \in Launched)
                   /\ c \in Launched =>
                          /\ collection'[c].base_model_id = collection[c].base_model_id
                          /\ collection'[c].nft_creator = collection[c].nft_creator
        PROVE  StampsArePast' /\ [Promise!PromiseNext]_(Promise!promiseVars)
    <2>1. UNCHANGED Promise!promiseVars
      BY <1>5, OtherStepsStutter
    <2>2. StampsArePast'
      BY <1>1, <1>5 DEF PromiseInv, Inv, ModelInv, ModelTypeOK
    <2> QED
      BY <2>1, <2>2
  <1>6. ASSUME NEW c \in CollectionIds, NEW a \in Accounts, Manage(c, a)
        PROVE  StampsArePast' /\ [Promise!PromiseNext]_(Promise!promiseVars)
    <2>1. UNCHANGED modelVars /\ c \in Launched
      BY <1>6 DEF Manage, mint_nft_token, mint_tokens, set_register_fee,
                  set_integration_policy, HoldsCap
    <2>2. collection[c] \in NftCollectionObject
      BY <2>1, LaunchedIsObject DEF PromiseInv, Inv
    <2>3. \/ collection' = collection
          \/ \E quilt : collection' = [collection EXCEPT ![c].quilt_blob_id = quilt]
          \/ \E fee : collection' = [collection EXCEPT ![c].register_fee = fee]
          \/ \E policy : collection' = [collection EXCEPT ![c].integration_policy = policy]
      BY <1>6 DEF Manage, mint_nft_token, mint_tokens, set_register_fee,
                  set_integration_policy
    <2>4. /\ \A x \in CollectionIds \ {c} : collection'[x] = collection[x]
          /\ collection'[c].base_model_id = collection[c].base_model_id
          /\ collection'[c].nft_creator = collection[c].nft_creator
      BY <2>2, <2>3 DEF NftCollectionObject, PromiseInv, Inv, TypeOK
    <2>5. Inv' /\ c \in Launched'
      <3>1. PICK cap \in caps : cap.collection_id = c
        BY <1>6 DEF Manage, mint_nft_token, mint_tokens, set_register_fee,
                    set_integration_policy, HoldsCap
      <3>2. cap \in caps'
        BY <1>6, <3>1 DEF Manage, mint_nft_token, mint_tokens, set_register_fee,
                    set_integration_policy
      <3> QED
        BY <3>1, <3>2 DEF Inv, ForkInv, CapsMatchCollections
    <2> QED
      BY <1>5, <2>1, <2>4, <2>5 DEF modelVars, Launched
  <1>7. CASE UNCHANGED <<model, buyers, used, entitlements, version, collection>>
    BY <1>5, <1>7 DEF Launched
  <1> QED
    BY <1>3, <1>4, <1>6, <1>7
    DEF Next, TransferToken, register_integration, vars, collectionVars, modelVars

(* The Move package implements what a license promises: a wallet becomes     *)
(* licensed by publishing or by a sale and by nothing else, the gates serve  *)
(* exactly the licensed wallets of a base that is not withdrawn, whatever    *)
(* objects and identities a call combines, and only a licensed wallet forks. *)
THEOREM PackageImplementsPromise == Spec => ImplementsLicensePromise
  <1>1. Init => PromiseInv /\ Promise!PromiseInit
    BY InitPromise
  <1>2. PromiseInv /\ [Next]_vars =>
            PromiseInv' /\ [Promise!PromiseNext]_(Promise!promiseVars)
    <2>1. PromiseInv /\ [Next]_vars => Inv'
      BY NextInv DEF PromiseInv
    <2> QED
      BY <2>1, NextPromise DEF PromiseInv
  <1> QED
    BY <1>1, <1>2, PTL DEF Spec, ImplementsLicensePromise, Promise!PromiseSpec

-----------------------------------------------------------------------------
(* The ledger.                                                                *)

(* What a payment of fee changes for wallet x on the side of wallet who. *)
Moved(x, who, fee) == IF x = who THEN fee ELSE 0

LEMMA SettleMoves ==
    ASSUME balance \in [Accounts -> Nat],
           NEW payer \in Accounts, NEW payee \in Accounts, NEW fee \in Nat,
           \E payment \in Coins(payer, fee) : balance' = Settle(payer, payee, payment, fee),
           NEW x \in Accounts
    PROVE  balance'[x] = balance[x] + Moved(x, payee, fee) - Moved(x, payer, fee)
  <1>1. PICK payment \in Coins(payer, fee) : balance' = Settle(payer, payee, payment, fee)
    OBVIOUS
  <1>2. payment \in Nat /\ balance[x] \in Nat /\ balance[payer] \in Nat /\ balance[payee] \in Nat
    BY DEF Coins
  <1> DEFINE taken == [balance EXCEPT ![payer] = @ - payment]
             given == [taken EXCEPT ![payee] = @ + fee]
  <1>3. taken \in [Accounts -> Int] /\ taken[x] = IF x = payer THEN balance[x] - payment ELSE balance[x]
    BY <1>2
  <1>4. given \in [Accounts -> Int] /\ given[x] = IF x = payee THEN taken[x] + fee ELSE taken[x]
    BY <1>3
  <1>5. balance' = [given EXCEPT ![payer] = @ + (payment - fee)]
    BY <1>1 DEF Settle
  <1> HIDE DEF taken, given
  <1>6. balance'[x] = IF x = payer THEN given[x] + (payment - fee) ELSE given[x]
    BY <1>4, <1>5
  <1>7. taken[x] \in Int /\ given[x] \in Int
    BY <1>3, <1>4
  <1> QED
    BY <1>2, <1>3, <1>4, <1>6, <1>7 DEF Moved

(* What the sums of the ledger range over is finite, and nothing was sold or *)
(* registered under an id that holds no object.                              *)
FiniteLedger ==
    /\ IsFiniteSet(Published)
    /\ IsFiniteSet(Launched)
    /\ \A m \in ModelIds : IsFiniteSet(buyers[m])
    /\ \A c \in CollectionIds : IsFiniteSet(integrations[c])
    /\ \A c \in CollectionIds \ Launched : integrations[c] = {}

LedgerInv == Inv /\ FiniteLedger /\ LedgerSettled

LEMMA ModelFees ==
    ASSUME Inv, NEW m \in Published
    PROVE  /\ m \in ModelIds
           /\ model[m].creator \in Accounts
           /\ model[m].license.access_fee \in Nat
           /\ model[m].license.derivative_mint_fee \in Nat
  <1>1. m \in ModelIds /\ model[m] \in ModelObject
    BY PublishedIsObject DEF Inv, ModelInv
  <1> QED
    BY <1>1, FeeAssumption DEF ModelObject, LicenseTerms

(* The fees a collection was forked and its integrations registered for. *)
LEMMA CollectionFees ==
    ASSUME Inv, FiniteLedger, NEW c \in Launched
    PROVE  /\ c \in CollectionIds
           /\ model[collection[c].base_model_id].license.derivative_mint_fee \in Int
           /\ IsFiniteSet(integrations[c])
           /\ integrations[c] \in SUBSET IntegrationRecord
  <1>1. c \in CollectionIds
    BY DEF Launched
  <1>2. collection[c].base_model_id \in Published
    BY DEF Inv, ForkInv, CollectionsMatchBases
  <1>3. integrations[c] \subseteq IntegrationRecord
    BY <1>1 DEF Inv, TypeOK
  <1> QED
    BY <1>1, <1>2, <1>3, ModelFees DEF FiniteLedger

LEMMA PaidType ==
    ASSUME NEW records \in SUBSET IntegrationRecord, IsFiniteSet(records)
    PROVE  Paid(records) \in Int
  <1> DEFINE f == [record \in records |-> record.paid]
  <1>1. f \in [records -> Int]
    BY DEF IntegrationRecord
  <1> HIDE DEF f
  <1>2. SumFunction(f) \in Int
    BY <1>1, SumType
  <1> QED
    BY <1>2 DEF f, Paid

LEMMA PaidGrows ==
    ASSUME NEW records \in SUBSET IntegrationRecord, IsFiniteSet(records),
           NEW new \in IntegrationRecord, new \notin records
    PROVE  Paid(records \cup {new}) = Paid(records) + new.paid
  <1> DEFINE f == [record \in records |-> record.paid]
             g == [record \in records \cup {new} |-> record.paid]
  <1>1. f \in [records -> Int] /\ g \in [records \cup {new} -> Int]
    BY DEF IntegrationRecord
  <1>2. \A record \in records : g[record] = f[record]
    OBVIOUS
  <1>3. g[new] = new.paid
    OBVIOUS
  <1> HIDE DEF f, g
  <1>4. SumFunction(g) = SumFunction(f) + g[new]
    BY <1>1, <1>2, SumGrows
  <1> QED
    BY <1>3, <1>4 DEF f, g, Paid

LEMMA PaidNothing == Paid({}) = 0
  BY SumOfNothing DEF Paid

(* Every sum of the ledger is a number. *)
LEMMA LedgerTypes ==
    ASSUME Inv, FiniteLedger, NEW x \in Accounts
    PROVE  /\ AccessIncome(x) \in Int /\ AccessSpending(x) \in Int
           /\ ForkIncome(x) \in Int /\ ForkSpending(x) \in Int
           /\ RegisterIncome(x) \in Int /\ RegisterSpending(x) \in Int
  <1>1. AccessIncome(x) \in Int
    <2> DEFINE S == {m \in Published : model[m].creator = x}
               f == [m \in S |-> model[m].license.access_fee * Cardinality(buyers[m])]
    <2>1. \A m \in S : model[m].license.access_fee * Cardinality(buyers[m]) \in Int
      <3> SUFFICES ASSUME NEW m \in S
                   PROVE  model[m].license.access_fee * Cardinality(buyers[m]) \in Int
        OBVIOUS
      <3>1. model[m].license.access_fee \in Int /\ Cardinality(buyers[m]) \in Int
        BY ModelFees, FS_CardinalityType DEF FiniteLedger
      <3> QED
        BY <3>1
    <2>2. IsFiniteSet(S)
      BY FS_Subset DEF FiniteLedger
    <2> HIDE DEF S
    <2>3. f \in [S -> Int]
      BY <2>1
    <2> HIDE DEF f
    <2>4. SumFunction(f) \in Int
      BY <2>2, <2>3, SumType
    <2> QED
      BY <2>4 DEF f, S, AccessIncome
  <1>2. AccessSpending(x) \in Int
    <2> DEFINE S == {m \in Published : x \in buyers[m]}
               f == [m \in S |-> model[m].license.access_fee]
    <2>1. \A m \in S : model[m].license.access_fee \in Int
      BY ModelFees
    <2>2. IsFiniteSet(S)
      BY FS_Subset DEF FiniteLedger
    <2> HIDE DEF S
    <2>3. f \in [S -> Int]
      BY <2>1
    <2> HIDE DEF f
    <2>4. SumFunction(f) \in Int
      BY <2>2, <2>3, SumType
    <2> QED
      BY <2>4 DEF f, S, AccessSpending
  <1>3. ASSUME NEW S \in SUBSET Launched
        PROVE  SumFunction([c \in S |->
                   model[collection[c].base_model_id].license.derivative_mint_fee]) \in Int
    <2> DEFINE f == [c \in S |-> model[collection[c].base_model_id].license.derivative_mint_fee]
    <2>1. IsFiniteSet(S)
      BY FS_Subset DEF FiniteLedger
    <2>2. f \in [S -> Int]
      BY CollectionFees
    <2> HIDE DEF f
    <2>3. SumFunction(f) \in Int
      BY <2>1, <2>2, SumType
    <2> QED
      BY <2>3 DEF f
  <1>4. ForkIncome(x) \in Int
    <2>1. {c \in Launched : collection[c].base_creator = x} \in SUBSET Launched
      OBVIOUS
    <2> QED
      BY <2>1, <1>3 DEF ForkIncome
  <1>5. ForkSpending(x) \in Int
    <2>1. {c \in Launched : collection[c].nft_creator = x} \in SUBSET Launched
      OBVIOUS
    <2> QED
      BY <2>1, <1>3 DEF ForkSpending
  <1>6. RegisterIncome(x) \in Int
    <2> DEFINE S == {c \in Launched : collection[c].nft_creator = x}
               f == [c \in S |-> Paid(integrations[c])]
    <2>1. IsFiniteSet(S)
      BY FS_Subset DEF FiniteLedger
    <2>2. \A c \in S : Paid(integrations[c]) \in Int
      BY CollectionFees, PaidType
    <2> HIDE DEF S
    <2>3. f \in [S -> Int]
      BY <2>2
    <2> HIDE DEF f
    <2>4. SumFunction(f) \in Int
      BY <2>1, <2>3, SumType
    <2> QED
      BY <2>4 DEF f, S, RegisterIncome
  <1>7. RegisterSpending(x) \in Int
    <2> DEFINE own(c) == {record \in integrations[c] : record.integrator = x}
               f == [c \in Launched |-> Paid(own(c))]
    <2>1. \A c \in Launched : Paid(own(c)) \in Int
      <3> SUFFICES ASSUME NEW c \in Launched PROVE Paid(own(c)) \in Int
        OBVIOUS
      <3>1. IsFiniteSet(own(c)) /\ own(c) \in SUBSET IntegrationRecord
        BY CollectionFees, FS_Subset
      <3> QED
        BY <3>1, PaidType
    <2> HIDE DEF own
    <2>2. f \in [Launched -> Int]
      BY <2>1
    <2> HIDE DEF f
    <2>3. SumFunction(f) \in Int
      BY <2>2, SumType DEF FiniteLedger
    <2> QED
      BY <2>3 DEF f, own, RegisterSpending
  <1> QED
    BY <1>1, <1>2, <1>4, <1>5, <1>6, <1>7

(* The sums over forks depend on what collections are and on their bases.    *)
LEMMA ForkSumsKept ==
    ASSUME Inv, NEW x \in Accounts, Launched' = Launched,
           \A m \in Published : model'[m] = model[m],
           \A c \in Launched : /\ collection'[c].base_model_id = collection[c].base_model_id
                               /\ collection'[c].base_creator = collection[c].base_creator
                               /\ collection'[c].nft_creator = collection[c].nft_creator
    PROVE  ForkIncome(x)' = ForkIncome(x) /\ ForkSpending(x)' = ForkSpending(x)
  <1>1. \A c \in Launched : model'[collection'[c].base_model_id] = model[collection[c].base_model_id]
    BY DEF Inv, ForkInv, CollectionsMatchBases
  <1>2. ASSUME NEW S \in SUBSET Launched
        PROVE  [c \in S |-> model'[collection'[c].base_model_id].license.derivative_mint_fee]
             = [c \in S |-> model[collection[c].base_model_id].license.derivative_mint_fee]
    BY <1>1
  <1>3. /\ {c \in Launched' : collection'[c].base_creator = x}
             = {c \in Launched : collection[c].base_creator = x}
        /\ {c \in Launched' : collection'[c].nft_creator = x}
             = {c \in Launched : collection[c].nft_creator = x}
    OBVIOUS
  <1>4. ForkIncome(x)' = ForkIncome(x)
    <2> DEFINE S == {c \in Launched : collection[c].base_creator = x}
    <2>1. S \in SUBSET Launched
      OBVIOUS
    <2>2. {c \in Launched' : collection'[c].base_creator = x} = S
      BY <1>3
    <2> QED
      BY <1>2, <2>1, <2>2 DEF ForkIncome
  <1>5. ForkSpending(x)' = ForkSpending(x)
    <2> DEFINE S == {c \in Launched : collection[c].nft_creator = x}
    <2>1. S \in SUBSET Launched
      OBVIOUS
    <2>2. {c \in Launched' : collection'[c].nft_creator = x} = S
      BY <1>3
    <2> QED
      BY <1>2, <2>1, <2>2 DEF ForkSpending
  <1> QED
    BY <1>4, <1>5

(* The sums over registrations, on the tables and on who made a collection.  *)
LEMMA RegisterSumsKept ==
    ASSUME NEW x \in Accounts, Launched' = Launched, integrations' = integrations,
           \A c \in Launched : collection'[c].nft_creator = collection[c].nft_creator
    PROVE  RegisterIncome(x)' = RegisterIncome(x) /\ RegisterSpending(x)' = RegisterSpending(x)
  <1>1. {c \in Launched' : collection'[c].nft_creator = x}
             = {c \in Launched : collection[c].nft_creator = x}
    OBVIOUS
  <1>2. RegisterIncome(x)' = RegisterIncome(x)
    BY <1>1 DEF RegisterIncome, Paid
  <1>3. RegisterSpending(x)' = RegisterSpending(x)
    BY DEF RegisterSpending, Paid
  <1> QED
    BY <1>2, <1>3

LEMMA AccessSumsKept ==
    ASSUME NEW x \in Accounts, model' = model, buyers' = buyers
    PROVE  AccessIncome(x)' = AccessIncome(x) /\ AccessSpending(x)' = AccessSpending(x)
  <1>1. Published' = Published
    BY DEF Published
  <1> QED
    BY <1>1 DEF AccessIncome, AccessSpending

-----------------------------------------------------------------------------
(* What each transaction does to the sums.  Publishing adds a base nobody    *)
(* has paid for.                                                             *)
LEMMA PublishSums ==
    ASSUME Inv, FiniteLedger, NEW x \in Accounts,
           NEW m \in ModelIds, NEW a \in Accounts, NEW license \in LicenseTerms,
           NEW has_key \in BOOLEAN, NEW seal_id \in SealIds \cup {NoSealId},
           new_model(m, a, license, has_key, seal_id)
    PROVE  /\ Published' = Published \cup {m}
           /\ \A y \in Published : model'[y] = model[y]
           /\ AccessIncome(x)' = AccessIncome(x)
           /\ AccessSpending(x)' = AccessSpending(x)
  <1>1. /\ Published' = Published \cup {m}
        /\ m \notin Published
        /\ \A y \in ModelIds \ {m} : model'[y] = model[y]
        /\ model'[m].license = license
        /\ model'[m].creator = a
    BY NewModelType DEF Inv, ModelInv
  <1>2. buyers' = buyers
    BY DEF new_model
  <1>3. \A y \in Published : y # m /\ model'[y] = model[y]
    BY <1>1 DEF Published
  <1>4. buyers[m] = {}
    BY <1>1 DEF Inv, ModelInv, ReceiptsMatchBuyers
  <1>5. AccessIncome(x)' = AccessIncome(x)
    <2> DEFINE S == {y \in Published : model[y].creator = x}
               T == {y \in Published' : model'[y].creator = x}
               f == [y \in S |-> model[y].license.access_fee * Cardinality(buyers[y])]
               g == [y \in T |-> model'[y].license.access_fee * Cardinality(buyers'[y])]
    <2>1. T = IF a = x THEN S \cup {m} ELSE S
      BY <1>1, <1>3
    <2>2. \A y \in S : g[y] = f[y]
      BY <1>2, <1>3, <2>1
    <2>3. CASE a = x
      <3>1. model'[m].license.access_fee \in Int
        <4>1. license.access_fee \in AccessFees
          BY DEF LicenseTerms
        <4>2. \A fee \in AccessFees : fee \in Int
          BY FeeAssumption
        <4> QED
          BY <1>1, <4>1, <4>2
      <3>2. g[m] = 0
        <4>1. Cardinality(buyers'[m]) = 0
          BY <1>2, <1>4, FS_EmptySet
        <4>2. g[m] = model'[m].license.access_fee * Cardinality(buyers'[m])
          BY <2>1, <2>3
        <4> QED
          BY <3>1, <4>1, <4>2
      <3>3. \A y \in S : model[y].license.access_fee * Cardinality(buyers[y]) \in Int
        <4> SUFFICES ASSUME NEW y \in S
                     PROVE  model[y].license.access_fee * Cardinality(buyers[y]) \in Int
          OBVIOUS
        <4>1. model[y].license.access_fee \in Int /\ Cardinality(buyers[y]) \in Int
          BY ModelFees, FS_CardinalityType DEF FiniteLedger
        <4> QED
          BY <4>1
      <3>4. f \in [S -> Int]
        BY <3>3
      <3>5. g \in [S \cup {m} -> Int]
        <4>1. \A y \in S \cup {m} : g[y] \in Int
          <5> HIDE DEF f, g, S
          <5> QED
            BY <2>2, <3>2, <3>4
        <4>2. g = [y \in S \cup {m} |-> g[y]]
          BY <2>1, <2>3
        <4> HIDE DEF g
        <4> QED
          BY <4>1, <4>2
      <3>6. IsFiniteSet(S) /\ m \notin S
        BY <1>3, FS_Subset DEF FiniteLedger
      <3> HIDE DEF f, g, S, T
      <3>7. SumFunction(g) = SumFunction(f) + g[m]
        BY <2>2, <3>4, <3>5, <3>6, SumGrows
      <3>8. SumFunction(f) \in Int
        BY <3>4, <3>6, SumType
      <3>9. SumFunction(g) = SumFunction(f)
        BY <3>2, <3>7, <3>8
      <3> QED
        BY <3>9 DEF f, g, S, T, AccessIncome
    <2>4. CASE a # x
      <3>1. T = S
        BY <2>1, <2>4
      <3>2. g = f
        <4>1. g = [y \in S |-> g[y]]
          BY <3>1
        <4>2. f = [y \in S |-> f[y]]
          OBVIOUS
        <4> HIDE DEF f, g
        <4> QED
          BY <2>2, <4>1, <4>2
      <3> HIDE DEF f, g, S, T
      <3>3. SumFunction(g) = SumFunction(f)
        BY <3>2
      <3> QED
        BY <3>3 DEF f, g, S, T, AccessIncome
    <2> QED
      BY <2>3, <2>4
  <1>6. AccessSpending(x)' = AccessSpending(x)
    <2>1. {y \in Published' : x \in buyers'[y]} = {y \in Published : x \in buyers[y]}
      BY <1>1, <1>2, <1>4
    <2>2. [y \in {z \in Published : x \in buyers[z]} |-> model'[y].license.access_fee]
        = [y \in {z \in Published : x \in buyers[z]} |-> model[y].license.access_fee]
      BY <1>3
    <2> QED
      BY <2>1, <2>2 DEF AccessSpending
  <1> QED
    BY <1>1, <1>3, <1>5, <1>6

(* A purchase earns its creator and costs its buyer the access fee. *)
LEMMA PurchaseSums ==
    ASSUME Inv, FiniteLedger, NEW x \in Accounts,
           NEW m \in ModelIds, NEW b \in Accounts, purchase_access(m, b)
    PROVE  LET fee == model[m].license.access_fee IN
           /\ AccessIncome(x)' = AccessIncome(x) + Moved(x, model[m].creator, fee)
           /\ AccessSpending(x)' = AccessSpending(x) + Moved(x, b, fee)
  <1> DEFINE fee(y) == model[y].license.access_fee
  <1>1. /\ m \in Published /\ b \notin buyers[m]
        /\ buyers' = [buyers EXCEPT ![m] = @ \cup {b}]
        /\ model' = model
    BY DEF purchase_access, MayPurchase
  <1>2. Published' = Published
    BY <1>1 DEF Published
  <1>3. /\ buyers'[m] = buyers[m] \cup {b}
        /\ \A y \in ModelIds \ {m} : buyers'[y] = buyers[y]
    BY <1>1 DEF Inv, ModelInv, ModelTypeOK
  <1>4. \A y \in Published : /\ y \in ModelIds
                             /\ fee(y) \in Int
                             /\ Cardinality(buyers[y]) \in Int
                             /\ Cardinality(buyers'[y]) \in Int
    <2> SUFFICES ASSUME NEW y \in Published
                 PROVE  /\ y \in ModelIds
                        /\ fee(y) \in Int
                        /\ Cardinality(buyers[y]) \in Int
                        /\ Cardinality(buyers'[y]) \in Int
      OBVIOUS
    <2>1. y \in ModelIds /\ fee(y) \in Int
      BY ModelFees
    <2>2. IsFiniteSet(buyers[y]) /\ IsFiniteSet(buyers'[y])
      <3>1. IsFiniteSet(buyers[y]) /\ IsFiniteSet(buyers[m])
        BY <2>1 DEF FiniteLedger
      <3>2. IsFiniteSet(buyers[m] \cup {b})
        BY <3>1, FS_AddElement
      <3> QED
        BY <1>3, <2>1, <3>1, <3>2
    <2> QED
      BY <2>1, <2>2, FS_CardinalityType
  <1>5. Cardinality(buyers'[m]) = Cardinality(buyers[m]) + 1
    BY <1>1, <1>3, FS_AddElement DEF FiniteLedger
  <1>6. AccessIncome(x)' = AccessIncome(x) + Moved(x, model[m].creator, fee(m))
    <2> DEFINE S == {y \in Published : model[y].creator = x}
               f == [y \in S |-> fee(y) * Cardinality(buyers[y])]
               g == [y \in S |-> fee(y) * Cardinality(buyers'[y])]
    <2>1. AccessIncome(x) = SumFunction(f)
      BY DEF AccessIncome
    <2>2. AccessIncome(x)' = SumFunction(g)
      BY <1>1, <1>2 DEF AccessIncome
    <2>3. \A y \in S : /\ fee(y) * Cardinality(buyers[y]) \in Int
                       /\ fee(y) * Cardinality(buyers'[y]) \in Int
      <3> HIDE DEF fee
      <3> QED
        BY <1>4
    <2>4. f \in [S -> Int] /\ g \in [S -> Int]
      <3> HIDE DEF S, fee
      <3> QED
        BY <2>3
    <2>5. IsFiniteSet(S)
      BY FS_Subset DEF FiniteLedger
    <2>6. \A y \in S \ {m} : g[y] = f[y]
      BY <1>3, <1>4
    <2>7. CASE x = model[m].creator
      <3>1. m \in S
        BY <1>1, <2>7
      <3>2. g[m] - f[m] = fee(m)
        <4>1. /\ g[m] = fee(m) * (Cardinality(buyers[m]) + 1)
              /\ f[m] = fee(m) * Cardinality(buyers[m])
          BY <1>5, <3>1
        <4>2. fee(m) \in Int /\ Cardinality(buyers[m]) \in Int
          BY <1>1, <1>4
        <4> DEFINE n == Cardinality(buyers[m])
                   p == fee(m)
        <4>3. g[m] = p * (n + 1) /\ f[m] = p * n /\ p \in Int /\ n \in Int
          BY <4>1, <4>2
        <4> HIDE DEF n, p, f, g
        <4>4. g[m] - f[m] = p
          BY <4>3
        <4> QED
          BY <4>4 DEF p
      <3> HIDE DEF f, g, S, fee
      <3>3. SumFunction(g) = SumFunction(f) + (g[m] - f[m])
        BY <2>4, <2>5, <2>6, <3>1, SumChanges
      <3> QED
        BY <2>1, <2>2, <2>7, <3>2, <3>3 DEF Moved
    <2>8. CASE x # model[m].creator
      <3>1. m \notin S
        BY <2>8
      <3>2. f = [y \in S |-> f[y]] /\ g = [y \in S |-> g[y]]
        OBVIOUS
      <3> HIDE DEF f, g, S
      <3>3. g = f
        BY <2>6, <3>1, <3>2
      <3>4. SumFunction(f) \in Int
        BY <2>4, <2>5, SumType
      <3> QED
        BY <2>1, <2>2, <2>8, <3>3, <3>4 DEF Moved
    <2> QED
      BY <2>7, <2>8
  <1>7. AccessSpending(x)' = AccessSpending(x) + Moved(x, b, fee(m))
    <2> DEFINE S == {y \in Published : x \in buyers[y]}
               T == {y \in Published : x \in buyers'[y]}
               f == [y \in S |-> fee(y)]
               g == [y \in T |-> fee(y)]
    <2>1. AccessSpending(x) = SumFunction(f)
      BY DEF AccessSpending
    <2>2. AccessSpending(x)' = SumFunction(g)
      BY <1>1, <1>2 DEF AccessSpending
    <2>3. T = IF x = b THEN S \cup {m} ELSE S
      BY <1>1, <1>3, <1>4
    <2>4. IsFiniteSet(S)
      BY FS_Subset DEF FiniteLedger
    <2>5. f \in [S -> Int] /\ g \in [T -> Int] /\ \A y \in S \cap T : g[y] = f[y]
      <3>1. \A y \in S \cup T : fee(y) \in Int
        BY <1>4
      <3> HIDE DEF S, T, fee
      <3> QED
        BY <3>1
    <2>6. CASE x = b
      <3>1. m \notin S /\ T = S \cup {m} /\ g[m] = fee(m)
        BY <1>1, <2>3, <2>6
      <3> HIDE DEF f, g, S, T, fee
      <3>2. g \in [S \cup {m} -> Int] /\ \A y \in S : g[y] = f[y]
        BY <2>5, <3>1
      <3>3. SumFunction(g) = SumFunction(f) + g[m]
        BY <2>4, <2>5, <3>1, <3>2, SumGrows
      <3> QED
        BY <2>1, <2>2, <2>6, <3>1, <3>3 DEF Moved
    <2>7. CASE x # b
      <3>1. T = S
        BY <2>3, <2>7
      <3>2. g = f
        BY <3>1
      <3> HIDE DEF f, g, S, T
      <3>3. SumFunction(f) \in Int
        BY <2>4, <2>5, SumType
      <3> QED
        BY <2>1, <2>2, <2>7, <3>2, <3>3 DEF Moved
    <2> QED
      BY <2>6, <2>7
  <1> QED
    BY <1>6, <1>7

(* A fork costs its launcher the derive fee and earns it to the base's       *)
(* creator; the new collection has no registrations.                         *)
LEMMA LaunchSums ==
    ASSUME Inv, FiniteLedger, NEW x \in Accounts,
           NEW c \in CollectionIds, NEW m \in ModelIds, NEW a \in Accounts,
           NEW quilt, NEW register_fee,
           launch_collection_internal(c, m, a, quilt, register_fee),
           Launched' = Launched \cup {c}
    PROVE  LET fee == model[m].license.derivative_mint_fee IN
           /\ ForkIncome(x)' = ForkIncome(x) + Moved(x, model[m].creator, fee)
           /\ ForkSpending(x)' = ForkSpending(x) + Moved(x, a, fee)
           /\ RegisterIncome(x)' = RegisterIncome(x)
           /\ RegisterSpending(x)' = RegisterSpending(x)
  <1> DEFINE fee(y) == model[y].license.derivative_mint_fee
  <1>1. m \in Published /\ c \notin Launched /\ model' = model /\ integrations' = integrations
    BY DEF launch_collection_internal, MayLaunch
  <1>2. /\ collection'[c].base_model_id = m
        /\ collection'[c].base_creator = model[m].creator
        /\ collection'[c].nft_creator = a
        /\ \A y \in CollectionIds \ {c} : collection'[y] = collection[y]
    BY DEF launch_collection_internal, Inv, TypeOK
  <1>3. \A y \in Launched : y \in CollectionIds /\ y # c /\ collection'[y] = collection[y]
    BY <1>1, <1>2 DEF Launched
  <1>4. fee(m) \in Int /\ \A y \in Launched : fee(collection[y].base_model_id) \in Int
    BY <1>1, ModelFees, CollectionFees
  <1>5. ASSUME NEW S \in SUBSET Launched
        PROVE  LET f == [y \in S |-> fee(collection[y].base_model_id)]
                   g == [y \in S \cup {c} |-> fee(collection'[y].base_model_id)]
                   h == [y \in S |-> fee(collection'[y].base_model_id)]
               IN  /\ SumFunction(g) = SumFunction(f) + fee(m)
                   /\ SumFunction(h) = SumFunction(f)
                   /\ SumFunction(f) \in Int
    <2> DEFINE f == [y \in S |-> fee(collection[y].base_model_id)]
               g == [y \in S \cup {c} |-> fee(collection'[y].base_model_id)]
               h == [y \in S |-> fee(collection'[y].base_model_id)]
    <2>1. g[c] = fee(m) /\ \A y \in S : g[y] = f[y]
      BY <1>2, <1>3
    <2>2. f = h
      BY <1>3
    <2>3. f \in [S -> Int]
      BY <1>4
    <2>4. \A y \in S \cup {c} : fee(collection'[y].base_model_id) \in Int
      BY <1>2, <1>3, <1>4
    <2>5. g \in [S \cup {c} -> Int]
      <3> HIDE DEF fee
      <3> QED
        BY <2>4
    <2>6. IsFiniteSet(S) /\ c \notin S
      BY <1>3, FS_Subset DEF FiniteLedger
    <2> HIDE DEF f, g, h, fee
    <2>7. SumFunction(g) = SumFunction(f) + g[c]
      BY <2>1, <2>3, <2>5, <2>6, SumGrows
    <2>8. SumFunction(f) \in Int
      BY <2>3, <2>6, SumType
    <2>9. SumFunction(g) = SumFunction(f) + fee(m) /\ SumFunction(h) = SumFunction(f)
      BY <2>1, <2>2, <2>7
    <2> QED
      BY <2>8, <2>9 DEF f, g, h
  <1>6. ForkIncome(x)' = ForkIncome(x) + Moved(x, model[m].creator, fee(m))
    <2> DEFINE S == {y \in Launched : collection[y].base_creator = x}
    <2>1. S \in SUBSET Launched
      OBVIOUS
    <2>2. {y \in Launched' : collection'[y].base_creator = x}
              = IF x = model[m].creator THEN S \cup {c} ELSE S
      BY <1>2, <1>3
    <2>3. CASE x = model[m].creator
      <3>1. {y \in Launched' : collection'[y].base_creator = x} = S \cup {c}
        BY <2>2, <2>3
      <3> HIDE DEF S
      <3>2. ForkIncome(x)' = SumFunction([y \in S \cup {c} |-> fee(collection'[y].base_model_id)])
        BY <1>1, <3>1 DEF ForkIncome
      <3>3. ForkIncome(x) = SumFunction([y \in S |-> fee(collection[y].base_model_id)])
        BY DEF ForkIncome, S
      <3> HIDE DEF fee
      <3> QED
        BY <1>5, <2>1, <2>3, <3>2, <3>3 DEF Moved
    <2>4. CASE x # model[m].creator
      <3>1. {y \in Launched' : collection'[y].base_creator = x} = S
        BY <2>2, <2>4
      <3> HIDE DEF S
      <3>2. ForkIncome(x)' = SumFunction([y \in S |-> fee(collection'[y].base_model_id)])
        BY <1>1, <3>1 DEF ForkIncome
      <3>3. ForkIncome(x) = SumFunction([y \in S |-> fee(collection[y].base_model_id)])
        BY DEF ForkIncome, S
      <3> HIDE DEF fee
      <3>4. ForkIncome(x)' = ForkIncome(x) /\ ForkIncome(x) \in Int
        BY <1>5, <2>1, <3>2, <3>3
      <3> QED
        BY <2>4, <3>4 DEF Moved
    <2> QED
      BY <2>3, <2>4
  <1>7. ForkSpending(x)' = ForkSpending(x) + Moved(x, a, fee(m))
    <2> DEFINE S == {y \in Launched : collection[y].nft_creator = x}
    <2>1. S \in SUBSET Launched
      OBVIOUS
    <2>2. {y \in Launched' : collection'[y].nft_creator = x} = IF x = a THEN S \cup {c} ELSE S
      BY <1>2, <1>3
    <2>3. CASE x = a
      <3>1. {y \in Launched' : collection'[y].nft_creator = x} = S \cup {c}
        BY <2>2, <2>3
      <3> HIDE DEF S
      <3>2. ForkSpending(x)' = SumFunction([y \in S \cup {c} |-> fee(collection'[y].base_model_id)])
        BY <1>1, <3>1 DEF ForkSpending
      <3>3. ForkSpending(x) = SumFunction([y \in S |-> fee(collection[y].base_model_id)])
        BY DEF ForkSpending, S
      <3> HIDE DEF fee
      <3> QED
        BY <1>5, <2>1, <2>3, <3>2, <3>3 DEF Moved
    <2>4. CASE x # a
      <3>1. {y \in Launched' : collection'[y].nft_creator = x} = S
        BY <2>2, <2>4
      <3> HIDE DEF S
      <3>2. ForkSpending(x)' = SumFunction([y \in S |-> fee(collection'[y].base_model_id)])
        BY <1>1, <3>1 DEF ForkSpending
      <3>3. ForkSpending(x) = SumFunction([y \in S |-> fee(collection[y].base_model_id)])
        BY DEF ForkSpending, S
      <3> HIDE DEF fee
      <3>4. ForkSpending(x)' = ForkSpending(x) /\ ForkSpending(x) \in Int
        BY <1>5, <2>1, <3>2, <3>3
      <3> QED
        BY <2>4, <3>4 DEF Moved
    <2> QED
      BY <2>3, <2>4
  <1>8. \A y \in Launched : integrations[y] \in SUBSET IntegrationRecord /\ IsFiniteSet(integrations[y])
    BY CollectionFees
  <1>9. integrations[c] = {}
    BY <1>1 DEF FiniteLedger
  <1>10. RegisterIncome(x)' = RegisterIncome(x)
    <2> DEFINE S == {y \in Launched : collection[y].nft_creator = x}
               f == [y \in S |-> Paid(integrations[y])]
               g == [y \in S \cup {c} |-> Paid(integrations[y])]
    <2>1. {y \in Launched' : collection'[y].nft_creator = x} = IF x = a THEN S \cup {c} ELSE S
      BY <1>2, <1>3
    <2>2. RegisterIncome(x)' = IF x = a THEN SumFunction(g) ELSE SumFunction(f)
      BY <1>1, <2>1 DEF RegisterIncome, Paid
    <2>3. RegisterIncome(x) = SumFunction(f)
      BY DEF RegisterIncome
    <2>4. g[c] = 0 /\ \A y \in S : g[y] = f[y]
      BY <1>9, PaidNothing
    <2>5. \A y \in S : Paid(integrations[y]) \in Int
      BY <1>8, PaidType
    <2>6. f \in [S -> Int]
      BY <2>5
    <2>7. \A y \in S \cup {c} : Paid(integrations[y]) \in Int
      <3>1. Paid(integrations[c]) = 0
        BY <1>9, PaidNothing
      <3> HIDE DEF S
      <3> QED
        BY <2>5, <3>1
    <2>8. g \in [S \cup {c} -> Int]
      <3> HIDE DEF S
      <3> QED
        BY <2>7
    <2>9. IsFiniteSet(S) /\ c \notin S
      BY <1>3, FS_Subset DEF FiniteLedger
    <2> HIDE DEF f, g, S
    <2>10. SumFunction(g) = SumFunction(f) + g[c]
      BY <2>4, <2>6, <2>8, <2>9, SumGrows
    <2>11. SumFunction(f) \in Int
      BY <2>6, <2>9, SumType
    <2> QED
      BY <2>2, <2>3, <2>4, <2>10, <2>11
  <1>11. RegisterSpending(x)' = RegisterSpending(x)
    <2> DEFINE own(y) == {record \in integrations[y] : record.integrator = x}
               f == [y \in Launched |-> Paid(own(y))]
               g == [y \in Launched \cup {c} |-> Paid(own(y))]
    <2>1. RegisterSpending(x)' = SumFunction(g) /\ RegisterSpending(x) = SumFunction(f)
      BY <1>1 DEF RegisterSpending, Paid
    <2>2. Paid(own(c)) = 0
      <3>1. own(c) = {}
        BY <1>9
      <3> HIDE DEF own
      <3> QED
        BY <3>1, PaidNothing
    <2>3. \A y \in Launched : Paid(own(y)) \in Int
      <3> SUFFICES ASSUME NEW y \in Launched PROVE Paid(own(y)) \in Int
        OBVIOUS
      <3>1. IsFiniteSet(own(y)) /\ own(y) \in SUBSET IntegrationRecord
        BY <1>8, FS_Subset
      <3> QED
        BY <3>1, PaidType
    <2> HIDE DEF own
    <2>4. g[c] = 0 /\ \A y \in Launched : g[y] = f[y]
      BY <2>2
    <2>5. f \in [Launched -> Int]
      BY <2>3
    <2>6. g \in [Launched \cup {c} -> Int]
      BY <2>2, <2>3
    <2> HIDE DEF f, g
    <2>7. SumFunction(g) = SumFunction(f) + g[c]
      <3>1. IsFiniteSet(Launched) /\ c \notin Launched
        BY <1>1 DEF FiniteLedger
      <3> QED
        BY <2>4, <2>5, <2>6, <3>1, SumGrows
    <2>8. SumFunction(f) \in Int
      BY <2>5, SumType DEF FiniteLedger
    <2> QED
      BY <2>1, <2>4, <2>7, <2>8
  <1> QED
    BY <1>6, <1>7, <1>10, <1>11

(* A registration costs the integrator the fee of the moment and earns it to *)
(* the collection's creator; the record keeps what was paid.                 *)
LEMMA RegisterSums ==
    ASSUME Inv, FiniteLedger, NEW x \in Accounts,
           NEW c \in CollectionIds, NEW b \in Accounts, register_integration(c, b)
    PROVE  LET fee == collection[c].register_fee IN
           /\ RegisterIncome(x)' = RegisterIncome(x) + Moved(x, collection[c].nft_creator, fee)
           /\ RegisterSpending(x)' = RegisterSpending(x) + Moved(x, b, fee)
  <1> DEFINE fee == collection[c].register_fee
             new == [integrator |-> b, paid |-> fee]
  <1>1. /\ c \in Launched /\ collection' = collection
        /\ \A record \in integrations[c] : record.integrator # b
        /\ integrations' = [integrations EXCEPT ![c] = @ \cup {new}]
    BY DEF register_integration, MayRegister
  <1>2. Launched' = Launched
    BY <1>1 DEF Launched
  <1>3. /\ integrations'[c] = integrations[c] \cup {new}
        /\ \A y \in Launched \ {c} : integrations'[y] = integrations[y]
    BY <1>1 DEF Inv, TypeOK, Launched
  <1>4. fee \in Nat
    BY <1>1, LaunchedFields DEF Inv
  <1>5. new \in IntegrationRecord /\ new.paid = fee /\ new.integrator = b
    BY <1>4 DEF IntegrationRecord
  <1>6. new \notin integrations[c]
    BY <1>1
  <1> HIDE DEF new
  <1>7. \A y \in Launched : integrations[y] \in SUBSET IntegrationRecord /\ IsFiniteSet(integrations[y])
    BY CollectionFees
  <1>8. Paid(integrations'[c]) = Paid(integrations[c]) + fee
    BY <1>1, <1>3, <1>5, <1>6, <1>7, PaidGrows
  <1>9. \A y \in Launched : Paid(integrations[y]) \in Int
    BY <1>7, PaidType
  <1>10. RegisterIncome(x)' = RegisterIncome(x) + Moved(x, collection[c].nft_creator, fee)
    <2> DEFINE S == {y \in Launched : collection[y].nft_creator = x}
               f == [y \in S |-> Paid(integrations[y])]
               g == [y \in S |-> Paid(integrations'[y])]
    <2>1. RegisterIncome(x) = SumFunction(f)
      BY DEF RegisterIncome
    <2>2. RegisterIncome(x)' = SumFunction(g)
      BY <1>1, <1>2 DEF RegisterIncome, Paid
    <2>3. \A y \in S \ {c} : g[y] = f[y]
      BY <1>3
    <2>4. f \in [S -> Int]
      BY <1>9
    <2>5. IsFiniteSet(S)
      BY FS_Subset DEF FiniteLedger
    <2>6. CASE x = collection[c].nft_creator
      <3>1. c \in S
        BY <1>1, <2>6
      <3>2. f[c] \in Int /\ g[c] = f[c] + fee
        BY <1>1, <1>8, <1>9, <3>1
      <3>3. g = [y \in S |-> g[y]]
        OBVIOUS
      <3> HIDE DEF f, g, S, fee
      <3>4. \A y \in S : g[y] \in Int
        BY <1>4, <2>3, <2>4, <3>2
      <3>5. g \in [S -> Int]
        BY <3>3, <3>4
      <3>6. SumFunction(g) = SumFunction(f) + (g[c] - f[c])
        BY <2>3, <2>4, <2>5, <3>1, <3>5, SumChanges
      <3> QED
        BY <1>4, <2>1, <2>2, <2>6, <3>2, <3>6 DEF Moved
    <2>7. CASE x # collection[c].nft_creator
      <3>1. c \notin S
        BY <2>7
      <3>2. f = [y \in S |-> f[y]] /\ g = [y \in S |-> g[y]]
        OBVIOUS
      <3> HIDE DEF f, g, S
      <3>3. g = f
        BY <2>3, <3>1, <3>2
      <3>4. SumFunction(f) \in Int
        BY <2>4, <2>5, SumType
      <3> QED
        BY <2>1, <2>2, <2>7, <3>3, <3>4 DEF Moved
    <2> QED
      BY <2>6, <2>7
  <1>11. RegisterSpending(x)' = RegisterSpending(x) + Moved(x, b, fee)
    <2> DEFINE own(y) == {record \in integrations[y] : record.integrator = x}
               mine(y) == {record \in integrations'[y] : record.integrator = x}
               f == [y \in Launched |-> Paid(own(y))]
               g == [y \in Launched |-> Paid(mine(y))]
    <2>1. RegisterSpending(x) = SumFunction(f)
      BY DEF RegisterSpending
    <2>2. RegisterSpending(x)' = SumFunction(g)
      BY <1>2 DEF RegisterSpending, Paid
    <2>3. \A y \in Launched : own(y) \in SUBSET IntegrationRecord /\ IsFiniteSet(own(y))
      BY <1>7, FS_Subset
    <2>4. \A y \in Launched \ {c} : mine(y) = own(y)
      BY <1>3
    <2>5. /\ mine(c) = IF x = b THEN own(c) \cup {new} ELSE own(c)
          /\ new \notin own(c)
      BY <1>3, <1>5, <1>6
    <2> HIDE DEF own, mine
    <2>6. \A y \in Launched : Paid(own(y)) \in Int
      BY <2>3, PaidType
    <2>7. Paid(mine(c)) = Paid(own(c)) + Moved(x, b, fee)
      <3>1. Paid(own(c) \cup {new}) = Paid(own(c)) + fee
        BY <1>1, <1>5, <2>3, <2>5, PaidGrows
      <3> QED
        BY <1>1, <2>5, <2>6, <3>1 DEF Moved
    <2>8. Moved(x, b, fee) \in Int
      BY <1>4 DEF Moved
    <2>9. f \in [Launched -> Int]
      BY <2>6
    <2>10. g \in [Launched -> Int]
      <3>1. \A y \in Launched : Paid(mine(y)) \in Int
        BY <1>1, <2>4, <2>6, <2>7, <2>8
      <3> QED
        BY <3>1
    <2>11. \A y \in Launched \ {c} : g[y] = f[y]
      BY <2>4
    <2>12. g[c] = f[c] + Moved(x, b, fee) /\ f[c] \in Int
      BY <1>1, <2>6, <2>7
    <2> HIDE DEF f, g, fee
    <2>13. SumFunction(g) = SumFunction(f) + (g[c] - f[c])
      <3>1. IsFiniteSet(Launched)
        BY DEF FiniteLedger
      <3> QED
        BY <1>1, <2>9, <2>10, <2>11, <3>1, SumChanges
    <2> QED
      BY <2>1, <2>2, <2>8, <2>12, <2>13
  <1> QED
    BY <1>10, <1>11

-----------------------------------------------------------------------------
(* One lemma per way the ledger moves; the other steps leave it alone.       *)
LEMMA InitLedger == Init => LedgerInv
  <1> SUFFICES ASSUME Init PROVE LedgerInv
    OBVIOUS
  <1>1. Published = {} /\ Launched = {}
    BY DEF Init, ModelInit, Published, Launched
  <1>2. /\ buyers = [m \in ModelIds |-> {}]
        /\ integrations = [c \in CollectionIds |-> {}]
        /\ balance = [a \in Accounts |-> InitialBalance]
    BY DEF Init, ModelInit
  <1>3. FiniteLedger
    BY <1>1, <1>2, FS_EmptySet DEF FiniteLedger
  <1>4. ASSUME NEW x \in Accounts
        PROVE  /\ AccessIncome(x) = 0 /\ AccessSpending(x) = 0
               /\ ForkIncome(x) = 0 /\ ForkSpending(x) = 0
               /\ RegisterIncome(x) = 0 /\ RegisterSpending(x) = 0
    <2>1. AccessIncome(x) = 0
      BY <1>1, SumOfNothing DEF AccessIncome
    <2>2. AccessSpending(x) = 0
      BY <1>1, SumOfNothing DEF AccessSpending
    <2>3. ForkIncome(x) = 0
      BY <1>1, SumOfNothing DEF ForkIncome
    <2>4. ForkSpending(x) = 0
      BY <1>1, SumOfNothing DEF ForkSpending
    <2>5. RegisterIncome(x) = 0
      BY <1>1, SumOfNothing DEF RegisterIncome
    <2>6. RegisterSpending(x) = 0
      BY <1>1, SumOfNothing DEF RegisterSpending
    <2> QED
      BY <2>1, <2>2, <2>3, <2>4, <2>5, <2>6
  <1>5. LedgerSettled
    BY <1>2, <1>4, FeeAssumption DEF LedgerSettled
  <1> QED
    BY <1>3, <1>5, InitInv DEF LedgerInv

LEMMA PublishLedger ==
    ASSUME LedgerInv, NEW m \in ModelIds, NEW a \in Accounts, NEW license \in LicenseTerms,
           NEW has_key \in BOOLEAN, NEW seal_id \in SealIds \cup {NoSealId},
           new_model(m, a, license, has_key, seal_id), UNCHANGED collectionVars
    PROVE  FiniteLedger' /\ LedgerSettled'
  <1>1. Inv /\ FiniteLedger /\ LedgerSettled
    BY DEF LedgerInv
  <1>2. UNCHANGED <<buyers, balance, collection, integrations>> /\ Launched' = Launched
    BY DEF new_model, collectionVars, Launched
  <1>3. \A x \in Accounts : /\ Published' = Published \cup {m}
                            /\ \A y \in Published : model'[y] = model[y]
                            /\ AccessIncome(x)' = AccessIncome(x)
                            /\ AccessSpending(x)' = AccessSpending(x)
    BY <1>1, PublishSums
  <1>4. FiniteLedger'
    <2>1. IsFiniteSet(Published')
      BY <1>1, <1>3, FS_AddElement DEF FiniteLedger
    <2> QED
      BY <1>1, <1>2, <2>1 DEF FiniteLedger
  <1>5. ASSUME NEW x \in Accounts
        PROVE  /\ ForkIncome(x)' = ForkIncome(x) /\ ForkSpending(x)' = ForkSpending(x)
               /\ RegisterIncome(x)' = RegisterIncome(x)
               /\ RegisterSpending(x)' = RegisterSpending(x)
    BY <1>1, <1>2, <1>3, ForkSumsKept, RegisterSumsKept
  <1>6. LedgerSettled'
    BY <1>1, <1>2, <1>3, <1>5 DEF LedgerSettled
  <1> QED
    BY <1>4, <1>6

LEMMA PurchaseLedger ==
    ASSUME LedgerInv, NEW m \in ModelIds, NEW b \in Accounts,
           purchase_access(m, b), UNCHANGED collectionVars
    PROVE  FiniteLedger' /\ LedgerSettled'
  <1> DEFINE fee == model[m].license.access_fee
             payee == model[m].creator
  <1>1. Inv /\ FiniteLedger /\ LedgerSettled
    BY DEF LedgerInv
  <1>2. /\ m \in Published
        /\ UNCHANGED <<model, collection, integrations>>
        /\ Launched' = Launched /\ Published' = Published
        /\ buyers' = [buyers EXCEPT ![m] = @ \cup {b}]
        /\ \E payment \in Coins(b, fee) : balance' = Settle(b, payee, payment, fee)
    BY DEF purchase_access, MayPurchase, collectionVars, Launched, Published
  <1>3. payee \in Accounts /\ fee \in Nat /\ balance \in [Accounts -> Nat]
    BY <1>1, <1>2, ModelFees DEF Inv, ModelInv, ModelTypeOK
  <1>4. FiniteLedger'
    <2>1. \A y \in ModelIds : buyers'[y] = IF y = m THEN buyers[m] \cup {b} ELSE buyers[y]
      BY <1>1, <1>2 DEF Inv, ModelInv, ModelTypeOK
    <2>2. IsFiniteSet(buyers[m] \cup {b})
      BY <1>1, FS_AddElement DEF FiniteLedger
    <2> QED
      BY <1>1, <1>2, <2>1, <2>2 DEF FiniteLedger
  <1>5. ASSUME NEW x \in Accounts
        PROVE  balance'[x] = InitialBalance
                   + AccessIncome(x)' - AccessSpending(x)'
                   + ForkIncome(x)' - ForkSpending(x)'
                   + RegisterIncome(x)' - RegisterSpending(x)'
    <2>1. balance'[x] = balance[x] + Moved(x, payee, fee) - Moved(x, b, fee)
      <3> HIDE DEF fee, payee
      <3> QED
        BY <1>2, <1>3, SettleMoves
    <2>2. /\ AccessIncome(x)' = AccessIncome(x) + Moved(x, payee, fee)
          /\ AccessSpending(x)' = AccessSpending(x) + Moved(x, b, fee)
      BY <1>1, PurchaseSums
    <2>3. /\ ForkIncome(x)' = ForkIncome(x) /\ ForkSpending(x)' = ForkSpending(x)
          /\ RegisterIncome(x)' = RegisterIncome(x)
          /\ RegisterSpending(x)' = RegisterSpending(x)
      BY <1>1, <1>2, ForkSumsKept, RegisterSumsKept
    <2>4. Moved(x, payee, fee) \in Int /\ Moved(x, b, fee) \in Int /\ InitialBalance \in Int
      BY <1>3, FeeAssumption DEF Moved
    <2> HIDE DEF fee, payee
    <2> QED
      BY <1>1, <2>1, <2>2, <2>3, <2>4, LedgerTypes DEF LedgerSettled
  <1>6. LedgerSettled'
    BY <1>5 DEF LedgerSettled
  <1> QED
    BY <1>4, <1>6

LEMMA LaunchLedger ==
    ASSUME LedgerInv, Inv', NEW c \in CollectionIds, NEW m \in ModelIds, NEW a \in Accounts,
           NEW quilt, NEW register_fee,
           launch_collection_internal(c, m, a, quilt, register_fee)
    PROVE  FiniteLedger' /\ LedgerSettled'
  <1> DEFINE fee == model[m].license.derivative_mint_fee
             payee == model[m].creator
  <1>1. Inv /\ FiniteLedger /\ LedgerSettled
    BY DEF LedgerInv
  <1>2. /\ m \in Published /\ c \notin Launched
        /\ UNCHANGED <<model, buyers, integrations>>
        /\ Published' = Published
        /\ [collection_id |-> c, holder |-> a] \in caps'
        /\ \A y \in CollectionIds \ {c} : collection'[y] = collection[y]
        /\ \E payment \in Coins(a, fee) : balance' = Settle(a, payee, payment, fee)
    BY <1>1 DEF launch_collection_internal, MayLaunch, Published, Inv, TypeOK
  <1>3. Launched' = Launched \cup {c}
    BY <1>2 DEF Launched, Inv, ForkInv, CapsMatchCollections
  <1>4. payee \in Accounts /\ fee \in Nat /\ balance \in [Accounts -> Nat]
    BY <1>1, <1>2, ModelFees DEF Inv, ModelInv, ModelTypeOK
  <1>5. FiniteLedger'
    <2>1. IsFiniteSet(Launched')
      BY <1>1, <1>3, FS_AddElement DEF FiniteLedger
    <2> QED
      BY <1>1, <1>2, <1>3, <2>1 DEF FiniteLedger
  <1>6. ASSUME NEW x \in Accounts
        PROVE  balance'[x] = InitialBalance
                   + AccessIncome(x)' - AccessSpending(x)'
                   + ForkIncome(x)' - ForkSpending(x)'
                   + RegisterIncome(x)' - RegisterSpending(x)'
    <2>1. balance'[x] = balance[x] + Moved(x, payee, fee) - Moved(x, a, fee)
      <3> HIDE DEF fee, payee
      <3> QED
        BY <1>2, <1>4, SettleMoves
    <2>2. /\ ForkIncome(x)' = ForkIncome(x) + Moved(x, payee, fee)
          /\ ForkSpending(x)' = ForkSpending(x) + Moved(x, a, fee)
          /\ RegisterIncome(x)' = RegisterIncome(x)
          /\ RegisterSpending(x)' = RegisterSpending(x)
      BY <1>1, <1>3, LaunchSums
    <2>3. AccessIncome(x)' = AccessIncome(x) /\ AccessSpending(x)' = AccessSpending(x)
      BY <1>2, AccessSumsKept
    <2>4. Moved(x, payee, fee) \in Int /\ Moved(x, a, fee) \in Int /\ InitialBalance \in Int
      BY <1>4, FeeAssumption DEF Moved
    <2> HIDE DEF fee, payee
    <2> QED
      BY <1>1, <2>1, <2>2, <2>3, <2>4, LedgerTypes DEF LedgerSettled
  <1>7. LedgerSettled'
    BY <1>6 DEF LedgerSettled
  <1> QED
    BY <1>5, <1>7

LEMMA RegisterLedger ==
    ASSUME LedgerInv, NEW c \in CollectionIds, NEW b \in Accounts, register_integration(c, b)
    PROVE  FiniteLedger' /\ LedgerSettled'
  <1> DEFINE fee == collection[c].register_fee
             payee == collection[c].nft_creator
             new == [integrator |-> b, paid |-> fee]
  <1>1. Inv /\ FiniteLedger /\ LedgerSettled
    BY DEF LedgerInv
  <1>2. /\ c \in Launched
        /\ UNCHANGED <<model, buyers, collection>>
        /\ Launched' = Launched /\ Published' = Published
        /\ integrations' = [integrations EXCEPT ![c] = @ \cup {new}]
        /\ \E payment \in Coins(b, fee) : balance' = Settle(b, payee, payment, fee)
    BY DEF register_integration, MayRegister, Launched, Published
  <1>3. payee \in Accounts /\ fee \in Nat /\ balance \in [Accounts -> Nat]
    BY <1>1, <1>2, LaunchedFields DEF Inv, ModelInv, ModelTypeOK
  <1>4. FiniteLedger'
    <2> HIDE DEF new
    <2>1. \A y \in CollectionIds :
              integrations'[y] = IF y = c THEN integrations[c] \cup {new} ELSE integrations[y]
      BY <1>1, <1>2 DEF Inv, TypeOK
    <2>2. IsFiniteSet(integrations[c] \cup {new})
      BY <1>1, FS_AddElement DEF FiniteLedger
    <2> QED
      BY <1>1, <1>2, <2>1, <2>2 DEF FiniteLedger
  <1>5. ASSUME NEW x \in Accounts
        PROVE  balance'[x] = InitialBalance
                   + AccessIncome(x)' - AccessSpending(x)'
                   + ForkIncome(x)' - ForkSpending(x)'
                   + RegisterIncome(x)' - RegisterSpending(x)'
    <2>1. balance'[x] = balance[x] + Moved(x, payee, fee) - Moved(x, b, fee)
      <3> HIDE DEF fee, payee
      <3> QED
        BY <1>2, <1>3, SettleMoves
    <2>2. /\ RegisterIncome(x)' = RegisterIncome(x) + Moved(x, payee, fee)
          /\ RegisterSpending(x)' = RegisterSpending(x) + Moved(x, b, fee)
      BY <1>1, RegisterSums
    <2>3. /\ AccessIncome(x)' = AccessIncome(x) /\ AccessSpending(x)' = AccessSpending(x)
          /\ ForkIncome(x)' = ForkIncome(x) /\ ForkSpending(x)' = ForkSpending(x)
      BY <1>1, <1>2, AccessSumsKept, ForkSumsKept
    <2>4. Moved(x, payee, fee) \in Int /\ Moved(x, b, fee) \in Int /\ InitialBalance \in Int
      BY <1>3, FeeAssumption DEF Moved
    <2> HIDE DEF fee, payee
    <2> QED
      BY <1>1, <2>1, <2>2, <2>3, <2>4, LedgerTypes DEF LedgerSettled
  <1>6. LedgerSettled'
    BY <1>5 DEF LedgerSettled
  <1> QED
    BY <1>4, <1>6

(* Steps that move no coin and make no object the sums range over. *)
LEMMA LedgerKept ==
    ASSUME LedgerInv, Inv', UNCHANGED <<model, buyers, balance, integrations>>,
           Launched' = Launched,
           \A c \in Launched : /\ collection'[c].base_model_id = collection[c].base_model_id
                               /\ collection'[c].nft_creator = collection[c].nft_creator
    PROVE  FiniteLedger' /\ LedgerSettled'
  <1>1. Inv /\ FiniteLedger /\ LedgerSettled
    BY DEF LedgerInv
  <1>2. Published' = Published
    BY DEF Published
  <1>3. \A c \in Launched : collection'[c].base_creator = collection[c].base_creator
    BY <1>1 DEF Inv, ForkInv, CollectionsMatchBases
  <1>4. FiniteLedger'
    BY <1>1, <1>2 DEF FiniteLedger
  <1>5. ASSUME NEW x \in Accounts
        PROVE  /\ AccessIncome(x)' = AccessIncome(x) /\ AccessSpending(x)' = AccessSpending(x)
               /\ ForkIncome(x)' = ForkIncome(x) /\ ForkSpending(x)' = ForkSpending(x)
               /\ RegisterIncome(x)' = RegisterIncome(x)
               /\ RegisterSpending(x)' = RegisterSpending(x)
    BY <1>1, <1>3, AccessSumsKept, ForkSumsKept, RegisterSumsKept
  <1>6. LedgerSettled'
    BY <1>1, <1>5 DEF LedgerSettled
  <1> QED
    BY <1>4, <1>6

LEMMA ManageLedger ==
    ASSUME LedgerInv, Inv', NEW c \in CollectionIds, NEW a \in Accounts, Manage(c, a)
    PROVE  FiniteLedger' /\ LedgerSettled'
  <1>1. /\ c \in Launched
        /\ UNCHANGED <<model, buyers, balance, integrations, caps>>
    BY DEF Manage, mint_nft_token, mint_tokens, set_register_fee, set_integration_policy,
           HoldsCap, modelVars
  <1>2. collection[c] \in NftCollectionObject
    BY <1>1, LaunchedIsObject DEF LedgerInv, Inv
  <1>3. \/ collection' = collection
        \/ \E quilt : collection' = [collection EXCEPT ![c].quilt_blob_id = quilt]
        \/ \E fee : collection' = [collection EXCEPT ![c].register_fee = fee]
        \/ \E policy : collection' = [collection EXCEPT ![c].integration_policy = policy]
    BY DEF Manage, mint_nft_token, mint_tokens, set_register_fee, set_integration_policy
  <1>4. /\ \A x \in CollectionIds \ {c} : collection'[x] = collection[x]
        /\ collection'[c].base_model_id = collection[c].base_model_id
        /\ collection'[c].nft_creator = collection[c].nft_creator
    BY <1>2, <1>3 DEF NftCollectionObject, LedgerInv, Inv, TypeOK
  <1>5. c \in Launched'
    <2>1. PICK cap \in caps : cap.collection_id = c
      BY DEF Manage, mint_nft_token, mint_tokens, set_register_fee,
             set_integration_policy, HoldsCap
    <2> QED
      BY <1>1, <2>1 DEF Inv, ForkInv, CapsMatchCollections
  <1>6. Launched' = Launched
    BY <1>1, <1>4, <1>5 DEF Launched
  <1>7. \A x \in Launched : /\ collection'[x].base_model_id = collection[x].base_model_id
                            /\ collection'[x].nft_creator = collection[x].nft_creator
    BY <1>4 DEF Launched
  <1> QED
    BY <1>1, <1>6, <1>7, LedgerKept

LEMMA NextLedger == LedgerInv /\ [Next]_vars => LedgerInv'
  <1> SUFFICES ASSUME LedgerInv, [Next]_vars PROVE FiniteLedger' /\ LedgerSettled'
    BY NextInv DEF LedgerInv
  <1>0. Inv'
    BY NextInv DEF LedgerInv
  <1>1. CASE ModelNext /\ UNCHANGED collectionVars
    <2>1. ASSUME NEW m \in ModelIds, NEW a \in Accounts, NEW license \in LicenseTerms,
                 NEW has_key \in BOOLEAN, NEW seal_id \in SealIds \cup {NoSealId},
                 new_model(m, a, license, has_key, seal_id)
          PROVE  FiniteLedger' /\ LedgerSettled'
      BY <1>1, <2>1, PublishLedger
    <2>2. ASSUME NEW m \in ModelIds, NEW a \in Accounts, purchase_access(m, a)
          PROVE  FiniteLedger' /\ LedgerSettled'
      BY <1>1, <2>2, PurchaseLedger
    <2>3. CASE UpgradePackage
      BY <1>0, <1>1, <2>3, LedgerKept DEF UpgradePackage, collectionVars, Launched
    <2> QED
      BY <1>1, <2>1, <2>2, <2>3 DEF ModelNext, publish, publish_encrypted
  <1>2. ASSUME NEW c \in CollectionIds, NEW m \in ModelIds, NEW a \in Accounts,
               NEW quilt \in Quilts \cup {NoQuilt}, Launch(c, m, a, quilt)
        PROVE  FiniteLedger' /\ LedgerSettled'
    <2>1. PICK fee \in RegisterFees \cup {0} :
              launch_collection_internal(c, m, a, quilt, fee)
      BY <1>2 DEF Launch, launch_collection, launch_collection_with_entitlement,
                  launch_collection_with_tokens
    <2> QED
      BY <1>0, <2>1, LaunchLedger
  <1>3. ASSUME NEW c \in CollectionIds, NEW a \in Accounts, Manage(c, a)
        PROVE  FiniteLedger' /\ LedgerSettled'
    BY <1>0, <1>3, ManageLedger
  <1>4. ASSUME NEW c \in CollectionIds, NEW a \in Accounts, register_integration(c, a)
        PROVE  FiniteLedger' /\ LedgerSettled'
    BY <1>4, RegisterLedger
  <1>5. CASE UNCHANGED <<modelVars, collection, integrations>>
    BY <1>0, <1>5, LedgerKept DEF modelVars, Launched
  <1> QED
    BY <1>1, <1>2, <1>3, <1>4, <1>5 DEF Next, TransferToken, vars, collectionVars

(* Every mist of every wallet is accounted for, whatever coins are offered,  *)
(* whoever buys, forks and registers, and however often fees are changed:    *)
(* the balance is the initial one plus what the sales, forks and             *)
(* registrations on chain earned the wallet, less what they cost it.         *)
THEOREM LedgerIsSettled == Spec => []LedgerSettled
  <1>1. LedgerInv => LedgerSettled
    BY DEF LedgerInv
  <1> QED
    BY <1>1, InitLedger, NextLedger, PTL DEF Spec

=============================================================================
