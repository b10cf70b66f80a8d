---------------------------- MODULE Model3DProofs ----------------------------
(***************************************************************************)
(* Proofs about the L1 layer: type correctness, and that the Seal gates    *)
(* release a key to its creator and its paying buyers and to nobody else.  *)
(* The last part is about sums over finite sets, for the ledger of the     *)
(* whole package.                                                          *)
(***************************************************************************)
EXTENDS Model3D, SequenceTheorems, FiniteSetTheorems, WellFoundedInduction, TLAPS

(* A published base has one of the three policies and is encrypted iff the   *)
(* policy says so; an encrypted one has a seal_id of the legal length, which *)
(* the registry remembers.                                                   *)
SealFieldsInv ==
    \A m \in Published :
        /\ model[m].license.policy \in {RESTRICTED, ALLOW_LIST, PERMISSIONLESS}
        /\ model[m].is_encrypted = (model[m].license.policy # PERMISSIONLESS)
        /\ model[m].is_encrypted =>
               /\ Len(model[m].seal_id) = SealIdLen
               /\ model[m].seal_id \in used
        /\ ~model[m].is_encrypted => model[m].seal_id = NoSealId

(* No two encrypted bases share a seal_id. *)
UniqueSealIds ==
    \A m1, m2 \in Encrypted : model[m1].seal_id = model[m2].seal_id => m1 = m2

(* Receipts and the buyers tables say the same, and only of ALLOW_LIST       *)
(* bases that exist.                                                         *)
ReceiptsMatchBuyers ==
    /\ \A e \in entitlements : e.holder \in buyers[e.model_id]
    /\ \A m \in ModelIds : \A a \in buyers[m] :
           /\ m \in Published
           /\ model[m].license.policy = ALLOW_LIST
           /\ a # model[m].creator
           /\ [model_id |-> m, holder |-> a] \in entitlements

ModelInv ==
    /\ ModelTypeOK
    /\ SealFieldsInv
    /\ UniqueSealIds
    /\ ReceiptsMatchBuyers

(* A published base is a Model3D object. *)
LEMMA PublishedIsObject ==
    ASSUME ModelTypeOK, NEW m \in Published
    PROVE  /\ m \in ModelIds
           /\ model[m] \in ModelObject
  BY DEF Published, ModelTypeOK

(* A coin settlement moves natural numbers. *)
LEMMA SettleType ==
    ASSUME balance \in [Accounts -> Nat],
           NEW payer \in Accounts, NEW payee \in Accounts,
           NEW fee \in Nat, NEW payment \in Coins(payer, fee)
    PROVE  Settle(payer, payee, payment, fee) \in [Accounts -> Nat]
  BY DEF Settle, Coins

LEMMA ModelInitInv == ModelInit => ModelInv
  <1> SUFFICES ASSUME ModelInit PROVE ModelInv
    OBVIOUS
  <1>1. Published = {}
    BY DEF ModelInit, Published
  <1>2. ModelTypeOK
    BY FeeAssumption DEF ModelInit, ModelTypeOK
  <1>3. SealFieldsInv /\ UniqueSealIds
    BY <1>1 DEF SealFieldsInv, UniqueSealIds, Encrypted
  <1>4. ReceiptsMatchBuyers
    BY DEF ModelInit, ReceiptsMatchBuyers
  <1> QED
    BY <1>2, <1>3, <1>4 DEF ModelInv

(* The object new_model adds is well typed and nothing else is disturbed.    *)
LEMMA NewModelType ==
    ASSUME ModelTypeOK,
           NEW m \in ModelIds, NEW sender \in Accounts, NEW license \in LicenseTerms,
           NEW has_key \in BOOLEAN, NEW seal_id \in SealIds \cup {NoSealId},
           new_model(m, sender, license, has_key, seal_id)
    PROVE  /\ model' \in [ModelIds -> ModelObject \cup {NoModel}]
           /\ Published' = Published \cup {m}
           /\ m \notin Published
           /\ \A x \in ModelIds \ {m} : model'[x] = model[x]
           /\ model'[m].seal_id = seal_id
           /\ model'[m].license = license
           /\ model'[m].is_encrypted = (license.policy # PERMISSIONLESS)
           /\ model'[m].creator = sender
           /\ SealFieldsConsistent(license, has_key, seal_id)
           /\ validate_publish_inputs(license)
  <1> DEFINE object == [creator |-> sender, license |-> license,
                        is_encrypted |-> license.policy # PERMISSIONLESS,
                        seal_id |-> seal_id, seal_version |-> version]
  <1>1. object \in ModelObject
    BY DEF ModelObject, ModelTypeOK
  <1>2. model' = [model EXCEPT ![m] = object]
    BY DEF new_model
  <1>3. object # NoModel
    BY <1>1, NoModelAssumption
  <1>4. model'[m] = object /\ \A x \in ModelIds \ {m} : model'[x] = model[x]
    BY <1>2 DEF ModelTypeOK
  <1> HIDE DEF object
  <1>5. Published' = Published \cup {m} /\ m \notin Published
    BY <1>3, <1>4 DEF Published, new_model
  <1>6. model' \in [ModelIds -> ModelObject \cup {NoModel}]
    BY <1>1, <1>2 DEF ModelTypeOK
  <1>7. SealFieldsConsistent(license, has_key, seal_id) /\ validate_publish_inputs(license)
    BY DEF new_model
  <1> QED
    BY <1>4, <1>5, <1>6, <1>7 DEF object

LEMMA NewModelInv ==
    ASSUME ModelInv,
           NEW m \in ModelIds, NEW sender \in Accounts, NEW license \in LicenseTerms,
           NEW has_key \in BOOLEAN, NEW seal_id \in SealIds \cup {NoSealId},
           new_model(m, sender, license, has_key, seal_id),
           used \subseteq used', used' \subseteq SealIds,
           license.policy # PERMISSIONLESS => seal_id \in used' \ used
    PROVE  ModelInv'
  <1>1. /\ model' \in [ModelIds -> ModelObject \cup {NoModel}]
        /\ Published' = Published \cup {m}
        /\ m \notin Published
        /\ \A x \in ModelIds \ {m} : model'[x] = model[x]
        /\ model'[m].seal_id = seal_id
        /\ model'[m].license = license
        /\ model'[m].is_encrypted = (license.policy # PERMISSIONLESS)
        /\ model'[m].creator = sender
        /\ SealFieldsConsistent(license, has_key, seal_id)
        /\ validate_publish_inputs(license)
    BY NewModelType DEF ModelInv
  <1>2. UNCHANGED <<buyers, entitlements, balance, version>>
    BY DEF new_model
  <1>3. ModelTypeOK'
    BY <1>1, <1>2 DEF ModelInv, ModelTypeOK
  <1>4. \A x \in Published : x # m /\ x \in ModelIds /\ model'[x] = model[x]
    BY <1>1 DEF Published
  <1>5. SealFieldsInv'
    <2> SUFFICES ASSUME NEW x \in Published'
                 PROVE  /\ model'[x].license.policy \in {RESTRICTED, ALLOW_LIST, PERMISSIONLESS}
                        /\ model'[x].is_encrypted = (model'[x].license.policy # PERMISSIONLESS)
                        /\ model'[x].is_encrypted =>
                               /\ Len(model'[x].seal_id) = SealIdLen
                               /\ model'[x].seal_id \in used'
                        /\ ~model'[x].is_encrypted => model'[x].seal_id = NoSealId
      BY DEF SealFieldsInv
    <2>1. CASE x = m
      BY <2>1, <1>1 DEF SealFieldsConsistent, validate_publish_inputs
    <2>2. CASE x \in Published
      BY <2>2, <1>4 DEF ModelInv, SealFieldsInv
    <2> QED
      BY <2>1, <2>2, <1>1
  <1>6. UniqueSealIds'
    <2>1. \A x \in Encrypted : model[x].seal_id \in used
      BY DEF ModelInv, SealFieldsInv, Encrypted
    <2>2. \A x \in Encrypted' \ {m} : x \in Encrypted /\ model'[x] = model[x]
      BY <1>1, <1>4 DEF Encrypted
    <2>3. m \in Encrypted' => model'[m].seal_id \notin used
      BY <1>1 DEF Encrypted
    <2> QED
      BY <2>1, <2>2, <2>3 DEF UniqueSealIds, ModelInv
  <1>7. ReceiptsMatchBuyers'
    BY <1>1, <1>2, <1>4 DEF ModelInv, ReceiptsMatchBuyers
  <1> QED
    BY <1>3, <1>5, <1>6, <1>7 DEF ModelInv

LEMMA PublishInv ==
    ASSUME ModelInv, NEW m \in ModelIds, NEW a \in Accounts, NEW license \in LicenseTerms,
           publish(m, a, license)
    PROVE  ModelInv'
  <1>1. new_model(m, a, license, FALSE, NoSealId) /\ used' = used
    BY DEF publish
  <1>2. license.policy = PERMISSIONLESS
    BY <1>1 DEF new_model, SealFieldsConsistent
  <1> QED
    BY <1>1, <1>2, NewModelInv DEF ModelInv, ModelTypeOK

LEMMA PublishEncryptedInv ==
    ASSUME ModelInv, NEW m \in ModelIds, NEW a \in Accounts, NEW license \in LicenseTerms,
           NEW has_key \in BOOLEAN, NEW seal_id \in SealIds,
           publish_encrypted(m, a, license, has_key, seal_id)
    PROVE  ModelInv'
  <1>1. /\ new_model(m, a, license, has_key, seal_id)
        /\ used' = used \cup {seal_id}
        /\ seal_id \notin used
    BY DEF publish_encrypted
  <1> QED
    BY <1>1, NewModelInv DEF ModelInv, ModelTypeOK

LEMMA PurchaseInv ==
    ASSUME ModelInv, NEW m \in ModelIds, NEW a \in Accounts, purchase_access(m, a)
    PROVE  ModelInv'
  <1> DEFINE receipt == [model_id |-> m, holder |-> a]
  <1>1. /\ MayPurchase(m, a)
        /\ buyers' = [buyers EXCEPT ![m] = @ \cup {a}]
        /\ entitlements' = entitlements \cup {receipt}
        /\ UNCHANGED <<model, used, version>>
    BY DEF purchase_access
  <1>2. model[m] \in ModelObject
    BY <1>1, PublishedIsObject DEF MayPurchase, ModelInv
  <1>3. model[m].creator \in Accounts /\ model[m].license.access_fee \in Nat
    BY <1>2, FeeAssumption DEF ModelObject, LicenseTerms
  <1>4. balance' \in [Accounts -> Nat]
    BY <1>3, SettleType DEF purchase_access, ModelInv, ModelTypeOK
  <1>5. ModelTypeOK'
    BY <1>1, <1>4 DEF ModelInv, ModelTypeOK, AccessEntitlement
  <1>6. SealFieldsInv' /\ UniqueSealIds'
    BY <1>1 DEF ModelInv, SealFieldsInv, UniqueSealIds, Encrypted, Published
  <1>7. ReceiptsMatchBuyers'
    <2>1. \A x \in ModelIds : buyers'[x] = IF x = m THEN buyers[m] \cup {a} ELSE buyers[x]
      BY <1>1 DEF ModelInv, ModelTypeOK
    <2>2. Published' = Published
      BY <1>1 DEF Published
    <2>3. ASSUME NEW e \in entitlements' PROVE e.holder \in buyers'[e.model_id]
      <3>1. CASE e = receipt
        BY <3>1, <2>1
      <3>2. CASE e \in entitlements
        BY <3>2, <2>1 DEF ModelInv, ModelTypeOK, ReceiptsMatchBuyers, AccessEntitlement
      <3> QED
        BY <1>1, <2>3, <3>1, <3>2
    <2>4. ASSUME NEW x \in ModelIds, NEW b \in buyers'[x]
          PROVE  /\ x \in Published'
                 /\ model'[x].license.policy = ALLOW_LIST
                 /\ b # model'[x].creator
                 /\ [model_id |-> x, holder |-> b] \in entitlements'
      <3>1. CASE x = m /\ b = a
        BY <3>1, <1>1, <2>2 DEF MayPurchase
      <3>2. CASE b \in buyers[x]
        BY <3>2, <1>1, <2>2 DEF ModelInv, ReceiptsMatchBuyers
      <3> QED
        BY <2>1, <3>1, <3>2
    <2> QED
      BY <2>3, <2>4 DEF ReceiptsMatchBuyers
  <1> QED
    BY <1>5, <1>6, <1>7 DEF ModelInv

(* Whatever else a transaction of the package does, the invariant stands as  *)
(* long as it leaves the L1 objects alone and balances stay natural numbers. *)
LEMMA ModelInvFrame ==
    ASSUME ModelInv, UNCHANGED <<model, buyers, used, entitlements>>,
           balance' \in [Accounts -> Nat], version' \in Nat
    PROVE  ModelInv'
  BY DEF ModelInv, ModelTypeOK, SealFieldsInv, UniqueSealIds, ReceiptsMatchBuyers,
         Encrypted, Published

LEMMA ModelNextInv == ModelInv /\ [ModelNext]_modelVars => ModelInv'
  <1> SUFFICES ASSUME ModelInv, [ModelNext]_modelVars PROVE ModelInv'
    OBVIOUS
  <1>1. ASSUME NEW m \in ModelIds, NEW a \in Accounts, NEW license \in LicenseTerms,
               publish(m, a, license)
        PROVE  ModelInv'
    BY <1>1, PublishInv
  <1>2. ASSUME NEW m \in ModelIds, NEW a \in Accounts, NEW license \in LicenseTerms,
               NEW has_key \in BOOLEAN, NEW seal_id \in SealIds,
               publish_encrypted(m, a, license, has_key, seal_id)
        PROVE  ModelInv'
    BY <1>2, PublishEncryptedInv
  <1>3. ASSUME NEW m \in ModelIds, NEW a \in Accounts, purchase_access(m, a)
        PROVE  ModelInv'
    BY <1>3, PurchaseInv
  <1>4. CASE UpgradePackage
    BY <1>4, ModelInvFrame DEF UpgradePackage, ModelInv, ModelTypeOK
  <1>5. CASE UNCHANGED modelVars
    BY <1>5, ModelInvFrame DEF modelVars, ModelInv, ModelTypeOK
  <1> QED
    BY <1>1, <1>2, <1>3, <1>4, <1>5 DEF ModelNext

(* The inductive invariant of the L1 layer. *)
THEOREM ModelInvariant == ModelSpec => []ModelInv
  <1> QED
    BY ModelInitInv, ModelNextInv, PTL DEF ModelSpec

(* Every reachable state of the L1 layer is well typed, for any number of    *)
(* wallets, bases, seal_ids and fees.                                        *)
THEOREM ModelTypeCorrect == ModelSpec => []ModelTypeOK
  <1>1. ModelInv => ModelTypeOK
    BY DEF ModelInv
  <1> QED
    BY <1>1, ModelInvariant, PTL

-----------------------------------------------------------------------------
(* With seal_ids of one length, the prefix test is an equality test (D-085). *)
LEMMA PrefixBinds ==
    ASSUME NEW s \in Seq(Nat), NEW t \in Seq(Nat), NEW nonce \in Seq(Nat),
           Len(s) = Len(t), is_prefix(s, t \o nonce)
    PROVE  s = t
  <1>1. \A i \in 1..Len(s) : s[i] = (t \o nonce)[i] /\ (t \o nonce)[i] = t[i]
    BY ConcatProperties DEF is_prefix
  <1> QED
    BY <1>1, SeqEqual

(* Every seal_id is a prefix of the identities built from it. *)
LEMMA OwnPrefix ==
    ASSUME NEW s \in Seq(Nat), NEW nonce \in Seq(Nat)
    PROVE  is_prefix(s, s \o nonce)
  BY ConcatProperties DEF is_prefix

LEMMA SealIdIsSeq ==
    ASSUME ModelTypeOK, NEW m \in Published
    PROVE  model[m].seal_id \in Seq(Nat)
  <1>1. model[m].seal_id \in SealIds \cup {NoSealId}
    BY PublishedIsObject DEF ModelObject
  <1>2. NoSealId \in Seq(Nat) /\ SealIds \subseteq Seq(Nat)
    BY SealAssumption DEF NoSealId
  <1> QED
    BY <1>1, <1>2

(* A gate that reads model m2 opens an identity of model m only if m2 = m.   *)
LEMMA GateBindsModel ==
    ASSUME ModelInv, NEW m \in Encrypted, NEW id \in Identities(m), NEW m2 \in Published,
           Len(model[m2].seal_id) = SealIdLen, is_prefix(model[m2].seal_id, id)
    PROVE  m2 = m
  <1>1. PICK nonce \in Nonces : id = model[m].seal_id \o nonce
    BY DEF Identities
  <1>2. /\ m \in Published
        /\ Len(model[m].seal_id) = SealIdLen
    BY DEF Encrypted, ModelInv, SealFieldsInv
  <1>3. model[m].seal_id \in Seq(Nat) /\ model[m2].seal_id \in Seq(Nat) /\ nonce \in Seq(Nat)
    BY <1>2, SealIdIsSeq, SealAssumption DEF ModelInv
  <1>4. model[m2].seal_id = model[m].seal_id
    BY <1>1, <1>2, <1>3, PrefixBinds
  <1>5. m2 \in Encrypted
    <2>1. model[m2].seal_id # NoSealId
      BY <1>3, SealAssumption DEF NoSealId
    <2>2. model[m2].is_encrypted
      BY <2>1, PublishedIsObject DEF ModelInv, SealFieldsInv, ModelObject
    <2> QED
      BY <2>2 DEF Encrypted
  <1> QED
    BY <1>4, <1>5 DEF ModelInv, UniqueSealIds

(* In a state of the invariant a key reaches only those it is meant for.     *)
LEMMA InvIsolates ==
    ASSUME ModelInv PROVE DecryptIsolation
  <1> SUFFICES ASSUME NEW m \in Encrypted, NEW a \in Accounts, NEW id \in Identities(m),
                      KeyReleased(id, a)
               PROVE  /\ model[m].seal_version = version
                      /\ \/ a = model[m].creator
                         \/ /\ model[m].license.policy = ALLOW_LIST
                            /\ a \in buyers[m]
    BY DEF DecryptIsolation
  <1>1. PICK m2 \in Published :
            \/ seal_approve_creator(id, m2, a)
            \/ \E e \in entitlements : seal_approve_entitlement(id, e, m2, a)
    BY DEF KeyReleased
  <1>2. CASE seal_approve_creator(id, m2, a)
    <2>1. m2 = m
      BY <1>2, GateBindsModel DEF seal_approve_creator
    <2> QED
      BY <1>2, <2>1 DEF seal_approve_creator
  <1>3. CASE \E e \in entitlements : seal_approve_entitlement(id, e, m2, a)
    <2>1. PICK e \in entitlements : seal_approve_entitlement(id, e, m2, a)
      BY <1>3
    <2>2. m2 = m
      BY <2>1, GateBindsModel DEF seal_approve_entitlement
    <2>3. a \in buyers[m]
      BY <2>1, <2>2 DEF seal_approve_entitlement, ModelInv, ReceiptsMatchBuyers
    <2> QED
      BY <2>1, <2>2, <2>3
      DEF seal_approve_entitlement, ModelInv, ReceiptsMatchBuyers, Encrypted, Published
  <1> QED
    BY <1>1, <1>2, <1>3

(* Decryption is isolated per model: whatever objects a call to the gates    *)
(* combines, a key reaches its creator and its paying buyers only.           *)
THEOREM ModelDecryptIsolation == ModelSpec => []DecryptIsolation
  <1> QED
    BY InvIsolates, ModelInvariant, PTL

(* In a state of the invariant no base is bricked. *)
LEMMA InvDecrypts ==
    ASSUME ModelInv PROVE EntitledCanDecrypt
  <1> SUFFICES ASSUME NEW m \in Encrypted, model[m].seal_version = version,
                      NEW a \in {model[m].creator} \cup buyers[m], NEW id \in Identities(m)
               PROVE  KeyReleased(id, a)
    BY DEF EntitledCanDecrypt
  <1>1. m \in Published /\ m \in ModelIds /\ Len(model[m].seal_id) = SealIdLen
    BY DEF Encrypted, Published, ModelInv, SealFieldsInv
  <1>2. is_prefix(model[m].seal_id, id)
    BY <1>1, SealIdIsSeq, OwnPrefix, SealAssumption DEF Identities, ModelInv
  <1>3. CASE a = model[m].creator
    BY <1>1, <1>2, <1>3 DEF KeyReleased, seal_approve_creator
  <1>4. CASE a \in buyers[m]
    <2>1. [model_id |-> m, holder |-> a] \in entitlements
      BY <1>1, <1>4 DEF ModelInv, ReceiptsMatchBuyers
    <2>2. seal_approve_entitlement(id, [model_id |-> m, holder |-> a], m, a)
      BY <1>1, <1>2 DEF seal_approve_entitlement
    <2> QED
      BY <1>1, <2>1, <2>2 DEF KeyReleased
  <1> QED
    BY <1>3, <1>4

(* No encrypted base is bricked: the creator and everyone who paid pass a    *)
(* gate, until the package version moves on.                                 *)
THEOREM ModelEntitledCanDecrypt == ModelSpec => []EntitledCanDecrypt
  <1> QED
    BY InvDecrypts, ModelInvariant, PTL

-----------------------------------------------------------------------------
(* A set of numbers has a least one, so what holds of 0 and of every next    *)
(* number up to N holds of all up to N.                                      *)
LEMMA LeastOne ==
    ASSUME NEW T \in SUBSET Nat, T # {}
    PROVE  \E x \in T : \A y \in T : x <= y
  <1>1. PICK x \in T : \A y \in T : <<y, x>> \notin OpToRel(<, Nat)
    BY NatLessThanWellFounded, WFMin
  <1>2. ASSUME NEW y \in T PROVE x <= y
    <2>1. x \in Nat /\ y \in Nat /\ ~(y < x)
      BY <1>1 DEF OpToRel
    <2> QED
      BY <2>1
  <1> QED
    BY <1>2

LEMMA CountUp ==
    ASSUME NEW N \in Nat, NEW S, 0 \in S, \A n \in 0..N - 1 : n \in S => n + 1 \in S
    PROVE  0..N \subseteq S
  <1> SUFFICES ASSUME (0..N) \ S # {} PROVE FALSE
    OBVIOUS
  <1>0. (0..N) \ S \in SUBSET Nat
    OBVIOUS
  <1>1. PICK x \in (0..N) \ S : \A y \in (0..N) \ S : x <= y
    BY <1>0, LeastOne
  <1>2. x \in 1..N
    BY <1>1
  <1>3. x - 1 \in 0..N - 1 /\ x - 1 \in S
    BY <1>1, <1>2
  <1> QED
    BY <1>1, <1>2, <1>3

(* The sum over s, given the sums over smaller sets; and the subsets of S    *)
(* with at most k elements.                                                  *)
First(s) == CHOOSE x \in s : TRUE
SumOver(f, g, s) == IF s = {} THEN 0 ELSE f[First(s)] + g[s \ {First(s)}]
UpTo(S, k) == {s \in SUBSET S : Cardinality(s) <= k}

LEMMA Without ==
    ASSUME NEW S, IsFiniteSet(S), NEW k \in Nat, NEW s \in UpTo(S, k + 1), NEW x \in s
    PROVE  s \ {x} \in UpTo(S, k)
  <1>1. IsFiniteSet(s) /\ s \subseteq S /\ Cardinality(s) <= k + 1
    BY FS_Subset DEF UpTo
  <1>2. Cardinality(s \ {x}) = Cardinality(s) - 1 /\ Cardinality(s) \in Nat
    BY <1>1, FS_RemoveElement, FS_CardinalityType
  <1> QED
    BY <1>1, <1>2 DEF UpTo

LEMMA NoElements ==
    ASSUME NEW S, IsFiniteSet(S)
    PROVE  /\ UpTo(S, 0) = {{}}
           /\ UpTo(S, Cardinality(S)) = SUBSET S
           /\ \A k \in Nat : UpTo(S, k) \subseteq UpTo(S, k + 1)
           /\ Cardinality(S) \in Nat
  <1>1. \A s \in SUBSET S : IsFiniteSet(s) /\ Cardinality(s) \in Nat /\ Cardinality(s) <= Cardinality(S)
    BY FS_Subset, FS_CardinalityType
  <1>2. \A s \in SUBSET S : Cardinality(s) <= 0 <=> s = {}
    BY <1>1, FS_EmptySet
  <1>3. Cardinality(S) \in Nat
    BY FS_CardinalityType
  <1> QED
    BY <1>1, <1>2, <1>3 DEF UpTo

LEMMA SumsExist ==
    ASSUME NEW S, IsFiniteSet(S), NEW f
    PROVE  \E g : g = [s \in SUBSET S |-> SumOver(f, g, s)]
  <1> DEFINE Summed(k) == \E g : g = [s \in UpTo(S, k) |-> SumOver(f, g, s)]
             Done == {k \in Nat : Summed(k)}
  <1>1. 0 \in Done
    <2> DEFINE g == [s \in UpTo(S, 0) |-> 0]
    <2>1. \A s \in UpTo(S, 0) : SumOver(f, g, s) = 0
      BY NoElements DEF SumOver
    <2>2. g = [s \in UpTo(S, 0) |-> SumOver(f, g, s)]
      BY <2>1
    <2> HIDE DEF g
    <2> QED
      BY <2>2
  <1>2. ASSUME NEW k \in Nat, k \in Done PROVE k + 1 \in Done
    <2>1. PICK g : g = [s \in UpTo(S, k) |-> SumOver(f, g, s)]
      BY <1>2
    <2> DEFINE h == [s \in UpTo(S, k + 1) |-> SumOver(f, g, s)]
    <2>2. \A s \in UpTo(S, k) : h[s] = g[s]
      <3>1. UpTo(S, k) \subseteq UpTo(S, k + 1)
        BY NoElements
      <3>2. \A s \in UpTo(S, k) : g[s] = SumOver(f, g, s)
        BY <2>1
      <3> QED
        BY <3>1, <3>2
    <2>3. ASSUME NEW s \in UpTo(S, k + 1) PROVE h[s] = SumOver(f, h, s)
      <3>1. h[s] = SumOver(f, g, s)
        OBVIOUS
      <3> HIDE DEF h
      <3>2. CASE s = {}
        BY <3>1, <3>2 DEF SumOver
      <3>3. CASE s # {}
        <4>1. First(s) \in s
          BY <3>3 DEF First
        <4>2. h[s \ {First(s)}] = g[s \ {First(s)}]
          BY <4>1, <2>2, Without
        <4> QED
          BY <3>1, <3>3, <4>2 DEF SumOver
      <3> QED
        BY <3>2, <3>3
    <2>4. h = [s \in UpTo(S, k + 1) |-> SumOver(f, h, s)]
      <3>1. h = [s \in UpTo(S, k + 1) |-> h[s]]
        OBVIOUS
      <3> HIDE DEF h
      <3> QED
        BY <2>3, <3>1
    <2> HIDE DEF h
    <2>5. Summed(k + 1)
      BY <2>4
    <2> QED
      BY <2>5
  <1>3. Cardinality(S) \in Done
    <2> HIDE DEF Done
    <2>1. 0..Cardinality(S) \subseteq Done
      BY <1>1, <1>2, NoElements, CountUp
    <2> QED
      BY <2>1, NoElements
  <1>4. PICK g : g = [s \in UpTo(S, Cardinality(S)) |-> SumOver(f, g, s)]
    BY <1>3
  <1>5. g = [s \in SUBSET S |-> SumOver(f, g, s)]
    BY <1>4, NoElements
  <1> QED
    BY <1>5

(* The sums over the subsets of S, from which SumFunction takes the one over *)
(* the whole domain.                                                         *)
Sums(f, S) == CHOOSE g : g = [s \in SUBSET S |-> SumOver(f, g, s)]

LEMMA SumsAddUp ==
    ASSUME NEW S, IsFiniteSet(S), NEW f
    PROVE  /\ Sums(f, S)[{}] = 0
           /\ \A s \in SUBSET S : s # {} =>
                Sums(f, S)[s] = f[First(s)] + Sums(f, S)[s \ {First(s)}]
           /\ DOMAIN f = S => SumFunction(f) = Sums(f, S)[S]
  <1> DEFINE A(g) == g = [s \in SUBSET S |-> SumOver(f, g, s)]
             h == Sums(f, S)
  <1>1. A(h)
    BY SumsExist DEF Sums
  <1>2. DOMAIN f = S => SumFunction(f) = h[S]
    BY DEF Sums, SumOver, First, SumFunction, SumFunctionOnSet, FoldFunctionOnSet, MapThenFoldSet
  <1> HIDE DEF h
  <1>3. \A s \in SUBSET S : h[s] = SumOver(f, h, s)
    BY <1>1
  <1>4. h[{}] = 0
    BY <1>3 DEF SumOver
  <1>5. \A s \in SUBSET S : s # {} => h[s] = f[First(s)] + h[s \ {First(s)}]
    BY <1>3 DEF SumOver
  <1> QED
    BY <1>2, <1>4, <1>5 DEF h

(* What is added is integers. *)
LEMMA SumsAreIntegers ==
    ASSUME NEW S, IsFiniteSet(S), NEW f, \A x \in S : f[x] \in Int
    PROVE  \A s \in SUBSET S : Sums(f, S)[s] \in Int
  <1> DEFINE Done == {k \in Nat : \A s \in UpTo(S, k) : Sums(f, S)[s] \in Int}
  <1>1. 0 \in Done
    <2>1. Sums(f, S)[{}] \in Int
      BY SumsAddUp
    <2>2. \A s \in UpTo(S, 0) : Sums(f, S)[s] \in Int
      BY <2>1, NoElements
    <2> QED
      BY <2>2
  <1>2. ASSUME NEW k \in Nat, k \in Done PROVE k + 1 \in Done
    <2>1. ASSUME NEW s \in UpTo(S, k + 1), s # {} PROVE Sums(f, S)[s] \in Int
      <3>1. First(s) \in s /\ s \in SUBSET S
        BY <2>1 DEF First, UpTo
      <3>2. Sums(f, S)[s \ {First(s)}] \in Int
        BY <1>2, <3>1, Without
      <3> QED
        BY <2>1, <3>1, <3>2, SumsAddUp
    <2>2. Sums(f, S)[{}] \in Int
      BY SumsAddUp
    <2>3. \A s \in UpTo(S, k + 1) : Sums(f, S)[s] \in Int
      BY <2>1, <2>2
    <2> QED
      BY <2>3
  <1> HIDE DEF Done
  <1>3. Cardinality(S) \in Done
    <2>1. 0..Cardinality(S) \subseteq Done
      BY <1>1, <1>2, NoElements, CountUp
    <2> QED
      BY <2>1, NoElements
  <1> QED
    BY <1>3, NoElements DEF Done

(* Any element may be taken first. *)
LEMMA SumsTakeAny ==
    ASSUME NEW S, IsFiniteSet(S), NEW f, \A x \in S : f[x] \in Int
    PROVE  \A s \in SUBSET S : \A y \in s : Sums(f, S)[s] = f[y] + Sums(f, S)[s \ {y}]
  <1> DEFINE P(s) == Sums(f, S)[s]
             Any(s) == \A y \in s : P(s) = f[y] + P(s \ {y})
             Done == {k \in Nat : \A s \in UpTo(S, k) : Any(s)}
  <1>0. \A s \in SUBSET S : P(s) \in Int
    BY SumsAreIntegers
  <1>a. \A s \in SUBSET S : s # {} => P(s) = f[First(s)] + P(s \ {First(s)})
    BY SumsAddUp
  <1> HIDE DEF P
  <1>1. 0 \in Done
    BY NoElements
  <1>2. ASSUME NEW k \in Nat, k \in Done PROVE k + 1 \in Done
    <2>1. ASSUME NEW s \in UpTo(S, k + 1), NEW y \in s PROVE P(s) = f[y] + P(s \ {y})
      <3> DEFINE x == First(s)
      <3>1. x \in s /\ s \in SUBSET S
        BY DEF First, UpTo
      <3>2. P(s) = f[x] + P(s \ {x})
        BY <1>a, <3>1
      <3> HIDE DEF x
      <3>3. CASE x # y
        <4>1. /\ s \ {x} \in UpTo(S, k) /\ y \in s \ {x}
              /\ s \ {y} \in UpTo(S, k) /\ x \in s \ {y}
              /\ (s \ {x}) \ {y} = (s \ {y}) \ {x}
          BY <3>1, <3>3, Without
        <4>2. P(s \ {x}) = f[y] + P((s \ {x}) \ {y})
          BY <1>2, <4>1
        <4>3. P(s \ {y}) = f[x] + P((s \ {y}) \ {x})
          BY <1>2, <4>1
        <4>4. /\ f[x] \in Int /\ f[y] \in Int
              /\ P((s \ {x}) \ {y}) \in Int
          BY <1>0, <3>1
        <4> DEFINE rest == P((s \ {x}) \ {y})
        <4>5. P(s \ {x}) = f[y] + rest /\ P(s \ {y}) = f[x] + rest /\ rest \in Int
          BY <4>1, <4>2, <4>3, <4>4
        <4> HIDE DEF rest
        <4> QED
          BY <3>2, <4>4, <4>5
      <3> QED
        BY <3>2, <3>3
    <2>2. \A s \in UpTo(S, k + 1) : Any(s)
      BY <2>1
    <2> HIDE DEF Any
    <2> QED
      BY <2>2
  <1> HIDE DEF Done
  <1>3. Cardinality(S) \in Done
    <2>1. 0..Cardinality(S) \subseteq Done
      BY <1>1, <1>2, NoElements, CountUp
    <2> QED
      BY <2>1, NoElements
  <1>4. \A s \in SUBSET S : Any(s)
    BY <1>3, NoElements DEF Done
  <1> QED
    BY <1>4 DEF P

(* A sum depends on what is added only. *)
LEMMA SumsAgree ==
    ASSUME NEW S, IsFiniteSet(S), NEW T \in SUBSET S, NEW f, NEW g,
           \A x \in T : f[x] = g[x]
    PROVE  Sums(f, S)[T] = Sums(g, T)[T]
  <1> DEFINE Same(s) == Sums(f, S)[s] = Sums(g, T)[s]
             Done == {k \in Nat : \A s \in UpTo(T, k) : Same(s)}
  <1>0. IsFiniteSet(T)
    BY FS_Subset
  <1>1. 0 \in Done
    <2>1. Same({})
      BY <1>0, SumsAddUp
    <2> HIDE DEF Same
    <2> QED
      BY <1>0, <2>1, NoElements
  <1>2. ASSUME NEW k \in Nat, k \in Done PROVE k + 1 \in Done
    <2>1. ASSUME NEW s \in UpTo(T, k + 1), s # {} PROVE Same(s)
      <3>1. First(s) \in s /\ s \in SUBSET T /\ s \in SUBSET S
        BY <2>1 DEF First, UpTo
      <3>2. Same(s \ {First(s)})
        BY <1>0, <1>2, <3>1, Without
      <3>3. /\ Sums(f, S)[s] = f[First(s)] + Sums(f, S)[s \ {First(s)}]
            /\ Sums(g, T)[s] = g[First(s)] + Sums(g, T)[s \ {First(s)}]
        BY <1>0, <2>1, <3>1, SumsAddUp
      <3> QED
        BY <3>1, <3>2, <3>3
    <2>2. Same({})
      BY <1>0, SumsAddUp
    <2>3. \A s \in UpTo(T, k + 1) : Same(s)
      BY <2>1, <2>2
    <2> HIDE DEF Same
    <2> QED
      BY <2>3
  <1>3. Cardinality(T) \in Done
    <2> HIDE DEF Done
    <2>1. 0..Cardinality(T) \subseteq Done
      BY <1>0, <1>1, <1>2, NoElements, CountUp
    <2> QED
      BY <1>0, <2>1, NoElements
  <1>4. Same(T)
    <2> HIDE DEF Same
    <2> QED
      BY <1>0, <1>3, NoElements
  <1> QED
    BY <1>4

(* A sum of nothing is zero, a sum of integers is one. *)
LEMMA SumOfNothing == ASSUME NEW f, DOMAIN f = {} PROVE SumFunction(f) = 0
  BY SumsAddUp, FS_EmptySet

LEMMA SumType ==
    ASSUME NEW S, IsFiniteSet(S), NEW f \in [S -> Int]
    PROVE  SumFunction(f) \in Int
  BY SumsAddUp, SumsAreIntegers

(* One summand can be taken out. *)
Rest(f, S, y) == [x \in S \ {y} |-> f[x]]

LEMMA SumSplits ==
    ASSUME NEW S, IsFiniteSet(S), NEW f \in [S -> Int], NEW y \in S
    PROVE  SumFunction(f) = f[y] + SumFunction(Rest(f, S, y))
  <1> DEFINE T == S \ {y}
             g == [x \in T |-> f[x]]
  <1>1. IsFiniteSet(T) /\ T \in SUBSET S
    BY FS_Subset
  <1>2. SumFunction(f) = Sums(f, S)[S]
    BY SumsAddUp
  <1>3. DOMAIN g = T /\ \A x \in T : f[x] = g[x]
    OBVIOUS
  <1>4. Sums(f, S)[S] = f[y] + Sums(f, S)[T]
    <2>1. \A x \in S : f[x] \in Int
      OBVIOUS
    <2> QED
      BY <2>1, SumsTakeAny
  <1> HIDE DEF T, g
  <1>5. SumFunction(g) = Sums(g, T)[T]
    BY <1>1, <1>3, SumsAddUp
  <1>6. Sums(f, S)[T] = Sums(g, T)[T]
    BY <1>1, <1>3, SumsAgree
  <1>7. SumFunction(f) = f[y] + SumFunction(g)
    BY <1>2, <1>4, <1>5, <1>6
  <1> QED
    BY <1>7 DEF T, g, Rest

(* One more summand; and one summand changed. *)
LEMMA SumGrows ==
    ASSUME NEW S, IsFiniteSet(S), NEW y, y \notin S,
           NEW f \in [S -> Int], NEW g \in [S \cup {y} -> Int], \A x \in S : g[x] = f[x]
    PROVE  SumFunction(g) = SumFunction(f) + g[y]
  <1>1. IsFiniteSet(S \cup {y}) /\ (S \cup {y}) \ {y} = S
    BY FS_AddElement
  <1>2. Rest(g, S \cup {y}, y) = f
    BY <1>1 DEF Rest
  <1>3. SumFunction(g) = g[y] + SumFunction(Rest(g, S \cup {y}, y))
    BY <1>1, SumSplits
  <1>4. SumFunction(f) \in Int /\ g[y] \in Int
    BY SumType
  <1> QED
    BY <1>2, <1>3, <1>4

LEMMA SumChanges ==
    ASSUME NEW S, IsFiniteSet(S), NEW y \in S, NEW f \in [S -> Int], NEW g \in [S -> Int],
           \A x \in S \ {y} : g[x] = f[x]
    PROVE  SumFunction(g) = SumFunction(f) + (g[y] - f[y])
  <1> DEFINE rest == Rest(f, S, y)
  <1>1. Rest(g, S, y) = rest
    BY DEF Rest
  <1>2. SumFunction(g) = g[y] + SumFunction(rest) /\ SumFunction(f) = f[y] + SumFunction(rest)
    BY <1>1, SumSplits
  <1>3. SumFunction(rest) \in Int
    <2>1. IsFiniteSet(S \ {y})
      BY FS_Subset
    <2>2. rest \in [S \ {y} -> Int]
      BY DEF Rest
    <2> HIDE DEF rest
    <2> QED
      BY <2>1, <2>2, SumType
  <1>4. f[y] \in Int /\ g[y] \in Int
    OBVIOUS
  <1> HIDE DEF rest
  <1> QED
    BY <1>2, <1>3, <1>4

=============================================================================
