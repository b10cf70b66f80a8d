---------------------------- MODULE ServicesProofs ----------------------------
(***************************************************************************)
(* Proofs about the long-running parts, for any number of users, events,   *)
(* callers, models and crashes, and any delays, timeouts and limits.       *)
(***************************************************************************)
EXTENDS Services, Integers, TLAPS, FiniteSetTheorems, WellFoundedInduction

(* A step of the composition is a step or a stutter of each component.     *)
LEMMA ServiceSteps ==
    [ServicesNext]_servicesVars =>
        /\ [Next]_vars /\ [Indexer!Next]_(Indexer!vars) /\ [Balance!Next]_(Balance!vars)
        /\ [Chain!Next]_(Chain!vars) /\ [Agent!Next]_(Agent!vars)
        /\ [Discovery!Next]_(Discovery!vars) /\ [Limiter!Next]_(Limiter!vars)
<1> SUFFICES ASSUME [ServicesNext]_servicesVars
             PROVE  /\ [Next]_vars /\ [Indexer!Next]_(Indexer!vars)
                    /\ [Balance!Next]_(Balance!vars) /\ [Chain!Next]_(Chain!vars)
                    /\ [Agent!Next]_(Agent!vars) /\ [Discovery!Next]_(Discovery!vars)
                    /\ [Limiter!Next]_(Limiter!vars)
  OBVIOUS
<1>1. [Next]_vars
  BY DEF ServicesNext, servicesVars
<1>2. Indexer!Next \/ UNCHANGED indexerVars
  BY DEF ServicesNext, servicesVars
<1>3. UNCHANGED indexerVars => UNCHANGED Indexer!vars
  BY DEF indexerVars, Indexer!vars
<1>4. Balance!Next \/ UNCHANGED balanceVars
  BY DEF ServicesNext, servicesVars
<1>5. UNCHANGED balanceVars => UNCHANGED Balance!vars
  BY DEF balanceVars, Balance!vars
<1>6. Chain!Next \/ UNCHANGED chainVars
  BY DEF ServicesNext, servicesVars
<1>7. UNCHANGED chainVars => UNCHANGED Chain!vars
  BY DEF chainVars, Chain!vars
<1>8. Agent!Next \/ UNCHANGED agentVars
  BY DEF ServicesNext, servicesVars
<1>9. UNCHANGED agentVars => UNCHANGED Agent!vars
  BY DEF agentVars, Agent!vars
<1>10. Discovery!Next \/ UNCHANGED discoveryVars
  BY DEF ServicesNext, servicesVars
<1>11. UNCHANGED discoveryVars => UNCHANGED Discovery!vars
  BY DEF discoveryVars, Discovery!vars
<1>12. Limiter!Next \/ UNCHANGED limiterVars
  BY DEF ServicesNext, servicesVars
<1>13. UNCHANGED limiterVars => UNCHANGED Limiter!vars
  BY DEF limiterVars, Limiter!vars
<1>14. QED
  BY <1>1, <1>2, <1>3, <1>4, <1>5, <1>6, <1>7, <1>8, <1>9, <1>10, <1>11, <1>12, <1>13

-----------------------------------------------------------------------------
(* A set of numbers has a least one, so what holds of 0 and of every next    *)
(* number holds of all.                                                      *)
LEMMA LeastOne ==
    ASSUME NEW T \in SUBSET Nat, T # {}
    PROVE  \E x \in T : \A y \in T : x <= y
<1>1. PICK x \in T : \A y \in T : <<y, x>> \notin OpToRel(<, Nat)
  BY NatLessThanWellFounded, WFMin
<1>2. ASSUME NEW y \in T PROVE x <= y
  <2>1. x \in Nat /\ y \in Nat OBVIOUS
  <2>2. ~(y < x) BY <1>1, <2>1 DEF OpToRel
  <2>3. QED BY <2>1, <2>2
<1>3. QED BY <1>2

LEMMA CountUp ==
    ASSUME NEW N \in Nat, NEW S, 0 \in S, \A n \in 0..N - 1 : n \in S => n + 1 \in S
    PROVE  0..N \subseteq S
<1> SUFFICES ASSUME (0..N) \ S # {} PROVE FALSE
  OBVIOUS
<1>1. (0..N) \ S \in SUBSET Nat OBVIOUS
<1>2. PICK x \in (0..N) \ S : \A y \in (0..N) \ S : x <= y BY <1>1, LeastOne
<1>3. x \in 1..N BY <1>2
<1>4. x - 1 \in 0..N - 1 /\ x - 1 \in S BY <1>2, <1>3
<1>5. QED BY <1>2, <1>3, <1>4

-----------------------------------------------------------------------------
(* The Gemini budget.                                                        *)

QuotaInv == TypeOK /\ OvershootBounded

(* A set of slots is finite, and no larger than all of them. *)
LEMMA SlotsCounted ==
    ASSUME NEW R \in SUBSET Slots
    PROVE  /\ IsFiniteSet(R) /\ Cardinality(R) \in Nat
           /\ Cardinality(Slots) \in Nat /\ Cardinality(R) <= Cardinality(Slots)
BY QuotaAssumption, FS_Subset, FS_CardinalityType

(* A model call that ends is no longer running, and no other call is.        *)
LEMMA EndedRunning ==
    ASSUME TypeOK, NEW s \in Slots, Ended(s)
    PROVE  /\ turns' \in [Slots -> Users \cup {NoUser}]
           /\ Cardinality(Running') = Cardinality(Running) - 1
<1>1. turns' \in [Slots -> Users \cup {NoUser}] BY DEF TypeOK, Ended
<1>2. s \in Running /\ Running' = Running \ {s} BY DEF TypeOK, Ended, Running
<1>3. Running \in SUBSET Slots BY DEF Running
<1>4. QED BY <1>1, <1>2, <1>3, SlotsCounted, FS_RemoveElement

(* Every step keeps the bound: admission needs room in the budget, and the   *)
(* turns under way are never more than the slots.                            *)
LEMMA QuotaStep ==
    ASSUME QuotaInv, [Next]_vars
    PROVE  QuotaInv'
<1> USE DEF QuotaInv
<1>1. Running \in SUBSET Slots /\ Running' \in SUBSET Slots
  BY DEF Running
<1>2. /\ Cardinality(Running) \in Nat /\ Cardinality(Running') \in Nat
      /\ Cardinality(Slots) \in Nat
      /\ Cardinality(Running) <= Cardinality(Slots)
      /\ Cardinality(Running') <= Cardinality(Slots)
  BY <1>1, SlotsCounted
<1>3. Budget \in Nat /\ Budget >= 1
  BY QuotaAssumption
<1>4. ASSUME NEW s \in Slots, NEW u \in Users, Admit(s, u) PROVE QuotaInv'
  <2>1. TypeOK' BY <1>4 DEF Admit, TypeOK
  <2>2. count' = count /\ count < Budget BY <1>4 DEF Admit, checkBudget
  <2>3. OvershootBounded' BY <1>2, <1>3, <2>2 DEF OvershootBounded, TypeOK
  <2>4. QED BY <2>1, <2>3
<1>5. ASSUME NEW s \in Slots, ModelEnds(s) PROVE QuotaInv'
  <2>1. Ended(s) /\ count' \in {count, count + 1}
    BY <1>5 DEF ModelEnds, ModelAnswers, ModelLimits, ModelFails, quotaVars
  <2>2. cooldown' \in {cooldown, TRUE} /\ attempts' = attempts
    BY <1>5 DEF ModelEnds, ModelAnswers, ModelLimits, ModelFails, quotaVars
  <2>3. turns' \in [Slots -> Users \cup {NoUser}] BY <2>1, EndedRunning
  <2>4. TypeOK'
    <3>1. count' \in Nat BY <2>1 DEF TypeOK
    <3>2. cooldown' \in BOOLEAN BY <2>2, Zenon DEF TypeOK
    <3>3. attempts' \in [Users -> Nat] BY <2>2 DEF TypeOK
    <3>4. QED BY <2>3, <3>1, <3>2, <3>3 DEF TypeOK
  <2>5. Cardinality(Running') = Cardinality(Running) - 1 BY <2>1, EndedRunning
  <2>6. QED BY <1>2, <1>3, <2>1, <2>4, <2>5 DEF TypeOK, OvershootBounded
<1>6. CASE CooldownEnds
  BY <1>6 DEF CooldownEnds, TypeOK, OvershootBounded, Running
<1>7. CASE Midnight
  <2>1. count' = 0 /\ turns' = turns BY <1>7 DEF Midnight
  <2>2. TypeOK' BY <1>7 DEF Midnight, TypeOK
  <2>3. QED BY <1>2, <1>3, <2>1, <2>2 DEF OvershootBounded
<1>8. CASE Restart
  <2>1. TypeOK' BY <1>8 DEF Restart, TypeOK, quotaVars
  <2>2. Running' = {} BY <1>8 DEF Restart, Running
  <2>3. Cardinality(Running') = 0 BY <2>2, FS_EmptySet
  <2>4. QED BY <1>2, <1>3, <1>8, <2>1, <2>3 DEF Restart, quotaVars, TypeOK, OvershootBounded
<1>9. CASE UNCHANGED vars
  BY <1>9 DEF vars, quotaVars, TypeOK, OvershootBounded, Running
<1>10. QED
  BY <1>4, <1>5, <1>6, <1>7, <1>8, <1>9 DEF Next

LEMMA QuotaStart == Init => QuotaInv
<1> SUFFICES ASSUME Init PROVE QuotaInv OBVIOUS
<1>1. TypeOK BY DEF Init, TypeOK
<1>2. Running = {} BY DEF Init, Running
<1>3. Cardinality(Running) = 0 BY <1>2, FS_EmptySet
<1>4. Budget \in Nat /\ Budget >= 1 /\ Cardinality(Slots) \in Nat
  BY QuotaAssumption, SlotsCounted
<1>5. QED BY <1>1, <1>3, <1>4 DEF Init, QuotaInv, OvershootBounded

(* The budget is type correct; its counters never go below zero.             *)
THEOREM QuotaTypeCorrect == ServicesSpec => []TypeOK
<1>1. ServicesInit => QuotaInv BY QuotaStart DEF ServicesInit
<1>2. QuotaInv /\ [ServicesNext]_servicesVars => QuotaInv' BY QuotaStep, ServiceSteps
<1>3. QuotaInv => TypeOK BY DEF QuotaInv
<1>4. QED BY <1>1, <1>2, <1>3, PTL DEF ServicesSpec

(* Checked before the await and counted after it (checkGeminiQuota,          *)
(* recordSuccess), the operator's daily budget is overshot by at most the    *)
(* turns served at a time less one, over restarts, timeouts and midnight.    *)
THEOREM BudgetOvershoot == ServicesSpec => []OvershootBounded
<1>1. ServicesInit => QuotaInv BY QuotaStart DEF ServicesInit
<1>2. QuotaInv /\ [ServicesNext]_servicesVars => QuotaInv' BY QuotaStep, ServiceSteps
<1>3. QuotaInv => OvershootBounded BY DEF QuotaInv
<1>4. QED BY <1>1, <1>2, <1>3, PTL DEF ServicesSpec

-----------------------------------------------------------------------------
(* The agent's arc.                                                          *)

(* The fullnode knows what the chain holds; an offer was checked against the *)
(* policy and the creator, which never change.                               *)
OffersChecked ==
    /\ replica \subseteq ents
    /\ \A o \in offers : Policy[o.model] = "ALLOW_LIST" /\ Creator[o.model] # o.sender

OneEach == \A e, f \in ents : e.model = f.model /\ e.owner = f.owner => e = f

(* The material names an entitlement to its own model; from the key servers' *)
(* answer on, the helper runs with the key that owns it.                     *)
MaterialNamed ==
    \A m \in material : m.ent \in ents /\ m.ent.model = m.model /\ m.model \in Models

Approved == {"read", "write", "writing", "rename"}

HelperEntitled ==
    run # Agent!NoRun =>
        /\ run \in [stage : Approved \cup {"key"}, of : material, signer : Agents]
        /\ run.stage \in Approved => run.of.ent.owner = run.signer

ArcInv ==
    /\ OffersChecked /\ OneEach /\ MaterialNamed /\ HelperEntitled
    /\ DOMAIN file = Models /\ Agent!FileIsWholeAndPaid

LEMMA ArcStart == Agent!Init => ArcInv
BY DEF Agent!Init, ArcInv, OffersChecked, OneEach, MaterialNamed, HelperEntitled,
       Agent!FileIsWholeAndPaid

LEMMA ArcStep == ArcInv /\ [Agent!Next]_(Agent!vars) => ArcInv'
<1> SUFFICES ASSUME ArcInv, [Agent!Next]_(Agent!vars) PROVE ArcInv'
  OBVIOUS
<1> USE DEF ArcInv
<1>1. CASE Agent!ReplicaCatchesUp
  BY <1>1 DEF Agent!ReplicaCatchesUp, OffersChecked, OneEach, MaterialNamed, HelperEntitled,
       Agent!FileIsWholeAndPaid
<1>2. ASSUME NEW m \in Models, NEW a \in Agents, Agent!build_purchase_tx(m, a) PROVE ArcInv'
  BY <1>2 DEF Agent!build_purchase_tx, Agent!Offered, OffersChecked, OneEach, MaterialNamed,
       HelperEntitled, Agent!FileIsWholeAndPaid
<1>3. ASSUME NEW o \in offers, Agent!Execute(o) PROVE ArcInv'
  <2>1. PICK e : /\ e.model = o.model /\ e.owner = o.sender /\ ents' = ents \cup {e}
                 /\ ~Agent!Bought(o.model, o.sender, ents)
    <3> DEFINE e == [id |-> Agent!Cardinality(ents) + 1, model |-> o.model,
                     owner |-> o.sender]
    <3>1. e.model = o.model /\ e.owner = o.sender
      OBVIOUS
    <3>2. ents' = ents \cup {e} /\ ~Agent!Bought(o.model, o.sender, ents)
      BY <1>3 DEF Agent!Execute, Agent!Purchasable
    <3>3. QED BY <3>1, <3>2
  <2>2. UNCHANGED <<replica, offers, material, run, temp, file>>
    BY <1>3 DEF Agent!Execute
  <2>3. OneEach' BY <2>1 DEF OneEach, Agent!Bought
  <2>4. OffersChecked' /\ MaterialNamed' BY <2>1, <2>2 DEF OffersChecked, MaterialNamed
  <2>5. HelperEntitled' BY <2>2 DEF HelperEntitled
  <2>6. Agent!FileIsWholeAndPaid' BY <2>1, <2>2 DEF Agent!FileIsWholeAndPaid
  <2>7. QED BY <2>2, <2>3, <2>4, <2>5, <2>6
<1>4. ASSUME NEW m \in Models, NEW e \in replica, NEW a \in Agents,
             Agent!download_content(m, e, a)
      PROVE  ArcInv'
  <2>1. /\ material' = material \cup {[model |-> m, ent |-> e]} /\ e \in ents /\ e.model = m
        /\ UNCHANGED <<ents, replica, offers, run, file>>
    BY <1>4 DEF Agent!download_content, Agent!Entitled, OffersChecked
  <2>2. MaterialNamed' BY <2>1 DEF MaterialNamed
  <2>3. HelperEntitled' BY <2>1 DEF HelperEntitled
  <2>4. QED BY <2>1, <2>2, <2>3 DEF OffersChecked, OneEach, Agent!FileIsWholeAndPaid
<1>5. ASSUME NEW m \in material, NEW a \in Agents, Agent!runAgentDecrypt(m, a) PROVE ArcInv'
  <2>1. /\ run' = [stage |-> "key", of |-> m, signer |-> a]
        /\ UNCHANGED <<ents, replica, offers, material, file>>
    BY <1>5 DEF Agent!runAgentDecrypt
  <2>2. HelperEntitled' BY <2>1 DEF HelperEntitled, Approved
  <2>3. QED BY <2>1, <2>2 DEF OffersChecked, OneEach, MaterialNamed, Agent!FileIsWholeAndPaid
<1>6. CASE run # Agent!NoRun /\ UNCHANGED <<ents, replica, offers, material, file>>
           /\ \/ run' = Agent!NoRun
              \/ /\ \E s \in Approved : run' = [run EXCEPT !.stage = s]
                 /\ run.of.ent.owner = run.signer
  <2>1. HelperEntitled' BY <1>6 DEF HelperEntitled
  <2>2. QED BY <1>6, <2>1 DEF OffersChecked, OneEach, MaterialNamed, Agent!FileIsWholeAndPaid
<1>7. CASE Agent!KeyAnswers
  <2>1. run # Agent!NoRun BY <1>7 DEF Agent!KeyAnswers, Agent!NoRun
  <2>2. QED BY <1>6, <1>7, <2>1 DEF Agent!KeyAnswers, Agent!Approves, Approved
<1>8. CASE Agent!Plaintext \/ Agent!WriteStarts \/ Agent!WriteEnds
  <2>1. run.stage \in {"read", "write", "writing"}
    BY <1>8 DEF Agent!Plaintext, Agent!WriteStarts, Agent!WriteEnds
  <2>2. run # Agent!NoRun BY <2>1 DEF Agent!NoRun
  <2>3. run.of.ent.owner = run.signer BY <2>1, <2>2 DEF HelperEntitled, Approved
  <2>4. QED
    BY <1>6, <1>8, <2>2, <2>3 DEF Agent!Plaintext, Agent!WriteStarts, Agent!WriteEnds, Approved
<1>9. CASE Agent!Rename
  <2>1. /\ run.stage = "rename" /\ run' = Agent!NoRun
        /\ UNCHANGED <<ents, replica, offers, material>>
    BY <1>9 DEF Agent!Rename, Agent!MayRename
  <2>2. PICK part : /\ part = Agent!Mine(TRUE)
                    /\ file' \in {file, [file EXCEPT ![run.of.model] = part]}
    BY <1>9, <2>1 DEF Agent!Rename
  <2>3. run # Agent!NoRun BY <2>1 DEF Agent!NoRun
  <2>4. run.of \in material /\ run.of.ent.owner = run.signer
    BY <2>1, <2>3 DEF HelperEntitled, Approved
  <2>5. run.of.ent \in ents /\ run.of.ent.model = run.of.model /\ run.of.model \in Models
    BY <2>4 DEF MaterialNamed
  <2>6. part.whole /\ part.by = run.signer BY <2>2 DEF Agent!Mine
  <2>7. Agent!FileIsWholeAndPaid' /\ DOMAIN file' = Models
    <3>1. CASE file' = file
      BY <2>1, <3>1 DEF Agent!FileIsWholeAndPaid
    <3>2. CASE file' = [file EXCEPT ![run.of.model] = part]
      <4>1. DOMAIN file' = Models /\ file'[run.of.model] = part BY <2>5, <3>2
      <4>2. \A m \in Models : m # run.of.model => file'[m] = file[m] BY <3>2
      <4>3. QED BY <2>1, <2>4, <2>5, <2>6, <4>1, <4>2 DEF Agent!FileIsWholeAndPaid
    <3>3. QED BY <2>2, <3>1, <3>2
  <2>8. QED BY <2>1, <2>7 DEF OffersChecked, OneEach, MaterialNamed, HelperEntitled
<1>10. CASE Agent!Crash
  BY <1>6, <1>10 DEF Agent!Crash
<1>11. CASE UNCHANGED Agent!vars
  BY <1>11 DEF Agent!vars, OffersChecked, OneEach, MaterialNamed, HelperEntitled,
       Agent!FileIsWholeAndPaid
<1>12. QED
  BY <1>1, <1>2, <1>3, <1>4, <1>5, <1>7, <1>8, <1>9, <1>10, <1>11 DEF Agent!Next

LEMMA ArcHolds == ArcInv => ArcDelivers
BY DEF ArcInv, OffersChecked, OneEach, ArcDelivers, Agent!ArcDelivers, Agent!OffersExecute,
       Agent!Purchasable

(* An agent's arc: an unsigned purchase (build_purchase_tx) is one the chain *)
(* takes or has taken, nobody pays for two, and a file the helper wrote      *)
(* (agentDecrypt.ts) is whole and was paid for, whatever crashed.            *)
THEOREM AgentsGetWhatTheyPaidFor == ServicesSpec => []ArcDelivers
<1>1. ServicesInit => ArcInv BY ArcStart DEF ServicesInit
<1>2. ArcInv /\ [ServicesNext]_servicesVars => ArcInv' BY ArcStep, ServiceSteps
<1>3. QED BY <1>1, <1>2, ArcHolds, PTL DEF ServicesSpec

-----------------------------------------------------------------------------
(* One generation: how long it takes.                                        *)

(* The loop of a task after its first k sleeps.                              *)
Slept(t, k) ==
    {f \in [0..k -> Nat] :
        f[0] = 0 /\ \A n \in 1..k : f[n] = f[n - 1] + Chain!DelayOf(n - 1)}

LEMMA ChainConstants ==
    /\ RequestTimeout \in Nat /\ Latencies \subseteq 0..RequestTimeout
    /\ \A t \in Chain!Tasks : MaxWait[t] \in Nat \ {0}
    /\ \A n \in Nat : Chain!DelayOf(n) \in Nat \ {0}
BY ServicesAssumption DEF Chain!ChainAssumption, Chain!DelayOf

LEMMA SleepsExist ==
    ASSUME NEW t \in Chain!Tasks
    PROVE  Slept(t, MaxWait[t]) # {}
<1> DEFINE S == {k \in Nat : Slept(t, k) # {}}
<1>1. 0 \in S
  <2>1. [n \in 0..0 |-> 0] \in Slept(t, 0) BY DEF Slept
  <2>2. QED BY <2>1
<1>2. ASSUME NEW k \in Nat, k \in S PROVE k + 1 \in S
  <2>1. PICK f : f \in Slept(t, k) BY <1>2
  <2> DEFINE g == [n \in 0..k + 1 |-> IF n <= k THEN f[n] ELSE f[k] + Chain!DelayOf(k)]
  <2>2. f \in [0..k -> Nat] /\ f[0] = 0 /\ \A n \in 1..k : f[n] = f[n - 1] + Chain!DelayOf(n - 1)
    BY <2>1 DEF Slept
  <2>3. g \in [0..k + 1 -> Nat] BY <2>2, ChainConstants
  <2>4. g[0] = 0 BY <2>2
  <2>5. \A n \in 1..k + 1 : g[n] = g[n - 1] + Chain!DelayOf(n - 1)
    <3>1. \A n \in 1..k : g[n] = g[n - 1] + Chain!DelayOf(n - 1) BY <2>2
    <3>2. g[k + 1] = g[k] + Chain!DelayOf((k + 1) - 1)
      <4>1. g[k + 1] = g[k] + Chain!DelayOf(k) OBVIOUS
      <4>2. Chain!DelayOf((k + 1) - 1) = Chain!DelayOf(k) BY (k + 1) - 1 = k
      <4> HIDE DEF g
      <4>3. QED BY <4>1, <4>2
    <3>3. \A n \in 1..k + 1 : n \in 1..k \/ n = k + 1 OBVIOUS
    <3> HIDE DEF g
    <3>4. QED BY <3>1, <3>2, <3>3
  <2>6. g \in Slept(t, k + 1) BY <2>3, <2>4, <2>5 DEF Slept
  <2>7. QED BY <2>6
<1>3. 0..MaxWait[t] \subseteq S
  <2> HIDE DEF S
  <2>1. MaxWait[t] \in Nat BY ChainConstants
  <2>2. QED BY <1>1, <1>2, <2>1, CountUp
<1>4. QED BY <1>3, ChainConstants

LEMMA SleepsAddUp ==
    ASSUME NEW t \in Chain!Tasks
    PROVE  /\ Chain!SleptAfter(t) \in [0..MaxWait[t] -> Nat]
           /\ Chain!SleptAfter(t)[0] = 0
           /\ \A n \in 1..MaxWait[t] :
                Chain!SleptAfter(t)[n] = Chain!SleptAfter(t)[n - 1] + Chain!DelayOf(n - 1)
<1> DEFINE A(f) == f = [n \in 0..MaxWait[t] |->
                          IF n = 0 THEN 0 ELSE f[n - 1] + Chain!DelayOf(n - 1)]
<1>1. PICK f : f \in Slept(t, MaxWait[t]) BY SleepsExist
<1>2. A(f) BY <1>1, ChainConstants DEF Slept
<1>3. Chain!SleptAfter(t) = CHOOSE g : A(g) BY DEF Chain!SleptAfter
<1>4. A(Chain!SleptAfter(t)) BY <1>2, <1>3
<1> DEFINE h == Chain!SleptAfter(t)
<1> HIDE DEF h
<1>5. /\ h = [n \in 0..MaxWait[t] |-> IF n = 0 THEN 0 ELSE h[n - 1] + Chain!DelayOf(n - 1)]
  BY <1>4 DEF h
<1>6. h[0] = 0 /\ \A n \in 1..MaxWait[t] : h[n] = h[n - 1] + Chain!DelayOf(n - 1)
  BY <1>5, ChainConstants
<1> DEFINE S == {n \in Nat : n \in 0..MaxWait[t] => h[n] \in Nat}
<1>7. 0..MaxWait[t] \subseteq S
  <2>1. 0 \in S BY <1>6
  <2>2. ASSUME NEW n \in 0..MaxWait[t] - 1, n \in S PROVE n + 1 \in S
    <3>1. h[n + 1] = h[n] + Chain!DelayOf(n)
      <4>1. n + 1 \in 1..MaxWait[t] /\ (n + 1) - 1 = n BY ChainConstants
      <4>2. QED BY <1>6, <4>1
    <3>2. QED BY <2>2, <3>1, ChainConstants
  <2> HIDE DEF S
  <2>3. QED BY <2>1, <2>2, CountUp, ChainConstants
<1>8. h \in [0..MaxWait[t] -> Nat] BY <1>5, <1>7
<1>9. QED BY <1>6, <1>8 DEF h

(* A sleep takes time. *)
LEMMA SleptLong ==
    ASSUME NEW t \in Chain!Tasks
    PROVE  \A n \in 0..MaxWait[t] : n <= Chain!SleptAfter(t)[n]
<1> DEFINE h == Chain!SleptAfter(t)
           S == {n \in Nat : n \in 0..MaxWait[t] => n <= h[n]}
<1>1. 0 \in S BY SleepsAddUp
<1>2. ASSUME NEW n \in 0..MaxWait[t] - 1, n \in S PROVE n + 1 \in S
  <2>1. h[n + 1] = h[n] + Chain!DelayOf(n)
    <3>1. n + 1 \in 1..MaxWait[t] /\ (n + 1) - 1 = n BY ChainConstants
    <3>2. QED BY <3>1, SleepsAddUp
  <2>2. n \in Nat /\ n \in 0..MaxWait[t] BY ChainConstants
  <2>3. h[n] \in Nat /\ n <= h[n] BY <1>2, <2>2, SleepsAddUp
  <2>4. Chain!DelayOf(n) \in Nat \ {0} BY <2>2, ChainConstants
  <2> HIDE DEF h
  <2>5. QED BY <2>1, <2>2, <2>3, <2>4
<1> HIDE DEF S
<1>3. 0..MaxWait[t] \subseteq S BY <1>1, <1>2, CountUp, ChainConstants
<1>4. QED BY <1>3 DEF S

LEMMA ChainTwin == \A S : Chain!Cardinality(S) = Cardinality(S)
BY DEF Cardinality, Chain!Cardinality

(* What a generation has taken at most when a task's part of it begins and   *)
(* when it ends.                                                             *)
PartOf(t) == RequestTimeout + MaxWait[t] + Chain!PollCount(t) * RequestTimeout
Base(t) == IF t = "model" THEN 0 ELSE PartOf("model")

LEMMA Products ==
    ASSUME NEW n \in Nat, NEW m \in Nat, NEW x \in Nat
    PROVE  n * x \in Nat /\ (n + 1) * x = n * x + x /\ (n <= m => n * x <= m * x)
<1>1. n * x \in Nat /\ (n + 1) * x = n * x + x
  OBVIOUS
<1>2. ASSUME n <= m PROVE n * x <= m * x
  <2>1. PICK k \in Nat : m = n + k BY <1>2
  <2>2. m * x = n * x + k * x /\ k * x \in Nat BY <2>1
  <2>3. QED BY <1>1, <2>2
<1>3. QED BY <1>1, <1>2

(* The sleeps a loop of t has made are in its table, and within its wait.    *)
PollsOn(t) ==
    /\ attempt \in 0..MaxWait[t] /\ elapsed = Chain!SleptAfter(t)[attempt]
    /\ \A n \in 1..attempt : Chain!SleptAfter(t)[n] < MaxWait[t]

(* A loop never makes more requests than PollCount.                          *)
LEMMA PollsCounted ==
    ASSUME NEW t \in Chain!Tasks
    PROVE  /\ Chain!PollCount(t) \in Nat
           /\ PollsOn(t) => attempt + 1 <= Chain!PollCount(t)
<1> DEFINE late == {n \in 1..MaxWait[t] : Chain!SleptAfter(t)[n] < MaxWait[t]}
<1>1. IsFiniteSet(late) /\ Cardinality(late) \in Nat
  <2>1. IsFiniteSet(1..MaxWait[t])
    <3>1. 1 \in Int /\ MaxWait[t] \in Int BY ChainConstants
    <3>2. QED BY <3>1, FS_Interval
  <2>2. late \subseteq 1..MaxWait[t] OBVIOUS
  <2> HIDE DEF late
  <2>3. QED BY <2>1, <2>2, FS_Subset, FS_CardinalityType
<1>2. Chain!PollCount(t) = 1 + Cardinality(late)
  BY ChainTwin DEF Chain!PollCount
<1>3. ASSUME PollsOn(t) PROVE attempt <= Cardinality(late)
  <2>1. attempt \in Nat /\ attempt <= MaxWait[t]
    BY <1>3, ChainConstants DEF PollsOn
  <2>2. 1..attempt \subseteq late BY <1>3, <2>1, ChainConstants DEF PollsOn
  <2>3. Cardinality(1..attempt) = attempt BY <2>1, FS_Interval
  <2> HIDE DEF late
  <2>4. QED BY <1>1, <2>2, <2>3, FS_Subset
<1> HIDE DEF late
<1>4. QED BY <1>1, <1>2, <1>3 DEF PollsOn

LEMMA BoundAddsUp ==
    /\ \A t \in Chain!Tasks : PartOf(t) \in Nat /\ Base(t) \in Nat
    /\ Base("segment") = Base("model") + PartOf("model")
    /\ Chain!LatencyBound = Base("segment") + PartOf("segment") + RequestTimeout
<1> DEFINE m == Chain!PollCount("model")
           s == Chain!PollCount("segment")
<1>1. m \in Nat /\ s \in Nat BY PollsCounted DEF Chain!Tasks
<1>2. Chain!Cardinality(Chain!Tasks) = 2
  <2>1. Cardinality({"model"} \cup {"segment"}) = 2
    <3>1. Cardinality({"model"}) = 1 /\ IsFiniteSet({"model"}) BY FS_Singleton
    <3>2. QED BY <3>1, FS_AddElement
  <2>2. Chain!Tasks = {"model"} \cup {"segment"} BY DEF Chain!Tasks
  <2>3. QED BY <2>1, <2>2, ChainTwin
<1>3. MaxWait["model"] \in Nat /\ MaxWait["segment"] \in Nat /\ RequestTimeout \in Nat
  BY ChainConstants DEF Chain!Tasks
<1>4. Chain!LatencyBound = MaxWait["model"] + MaxWait["segment"] + (m + s + 2 + 1) * RequestTimeout
  BY <1>2 DEF Chain!LatencyBound
<1> HIDE DEF m, s
<1>5. (m + s + 2 + 1) * RequestTimeout = m * RequestTimeout + s * RequestTimeout + 3 * RequestTimeout
  BY <1>1, <1>3
<1>6. m * RequestTimeout \in Nat /\ s * RequestTimeout \in Nat BY <1>1, <1>3, Products
<1>7. PartOf("model") = RequestTimeout + MaxWait["model"] + m * RequestTimeout
  BY DEF PartOf, m
<1>8. PartOf("segment") = RequestTimeout + MaxWait["segment"] + s * RequestTimeout
  BY DEF PartOf, s
<1>9. QED BY <1>3, <1>4, <1>5, <1>6, <1>7, <1>8 DEF Base, Chain!Tasks

(* Where the chain is, and what it has taken by then.                        *)
ChainInv ==
    /\ at \in Chain!Steps /\ total \in Nat /\ total <= Chain!LatencyBound
    /\ \A t \in Chain!Tasks :
         /\ at = Chain!Submits[t] => total <= Base(t)
         /\ at = Chain!Polls[t] =>
              /\ PollsOn(t)
              /\ total <= Base(t) + RequestTimeout + elapsed + attempt * RequestTimeout
    /\ at = "download" => total <= Base("segment") + PartOf("segment")

LEMMA Stations ==
    /\ \A t \in Chain!Tasks :
         /\ {Chain!Submits[t], Chain!Polls[t]} \subseteq Chain!Steps
         /\ Chain!Submits[t] \notin {"end", "download"} /\ Chain!Polls[t] \notin {"end", "download"}
    /\ \A t, u \in Chain!Tasks :
         /\ Chain!Submits[t] # Chain!Polls[u]
         /\ Chain!Submits[t] = Chain!Submits[u] \/ Chain!Polls[t] = Chain!Polls[u] => t = u
    /\ {"end", "download"} \subseteq Chain!Steps
    /\ Chain!Submits["model"] = "submit model" /\ Chain!Submits["segment"] = "submit segment"
    /\ Chain!Tasks = {"model", "segment"}
BY DEF Chain!Tasks, Chain!Submits, Chain!Polls, Chain!Steps

LEMMA ChainStart == Chain!Init => ChainInv
<1> SUFFICES ASSUME Chain!Init PROVE ChainInv
  OBVIOUS
<1>1. at = "submit model" /\ total = 0 BY DEF Chain!Init
<1>2. \A t \in Chain!Tasks : Base(t) \in Nat /\ PartOf(t) \in Nat
  BY BoundAddsUp
<1>3. Chain!LatencyBound \in Nat
  <2>1. "segment" \in Chain!Tasks BY DEF Chain!Tasks
  <2>2. Base("segment") \in Nat /\ PartOf("segment") \in Nat BY <1>2, <2>1
  <2>3. QED BY <2>2, BoundAddsUp, ChainConstants
<1>4. at \in Chain!Steps BY <1>1, Stations
<1>5. \A t \in Chain!Tasks : at # Chain!Polls[t]
  <2>1. "model" \in Chain!Tasks BY DEF Chain!Tasks
  <2>2. QED BY <1>1, <2>1, Stations
<1>6. at # "download" BY <1>1
<1>7. \A n \in Nat : 0 <= n OBVIOUS
<1>8. \A t \in Chain!Tasks : total <= Base(t) BY <1>1, <1>2, <1>7, Zenon
<1>9. total \in Nat /\ total <= Chain!LatencyBound BY <1>1, <1>3, <1>7, Zenon
<1>10. QED BY <1>4, <1>5, <1>6, <1>8, <1>9 DEF ChainInv

(* A request of a loop, and the sleep after it: what they may take.          *)
LEMMA LoopFits ==
    ASSUME ChainInv, NEW t \in Chain!Tasks, at = Chain!Polls[t]
    PROVE  /\ elapsed \in Nat /\ attempt \in Nat /\ elapsed <= MaxWait[t]
           /\ total + RequestTimeout <= Base(t) + PartOf(t)
           /\ total + RequestTimeout <=
                Base(t) + RequestTimeout + elapsed + (attempt + 1) * RequestTimeout
           /\ Base(t) + RequestTimeout + MaxWait[t] + (attempt + 1) * RequestTimeout
                <= Base(t) + PartOf(t)
<1>1. /\ PollsOn(t) /\ total \in Nat
      /\ total <= Base(t) + RequestTimeout + elapsed + attempt * RequestTimeout
  BY DEF ChainInv
<1>2. MaxWait[t] \in Nat /\ RequestTimeout \in Nat /\ Base(t) \in Nat /\ PartOf(t) \in Nat
  BY ChainConstants, BoundAddsUp
<1>3. elapsed \in Nat /\ attempt \in Nat /\ elapsed <= MaxWait[t]
  <2>1. attempt \in 0..MaxWait[t] /\ elapsed = Chain!SleptAfter(t)[attempt] BY <1>1 DEF PollsOn
  <2>2. elapsed \in Nat /\ attempt \in Nat BY <2>1, <1>2, SleepsAddUp
  <2>3. attempt = 0 => elapsed = 0 BY <2>1, SleepsAddUp
  <2>4. attempt # 0 => elapsed < MaxWait[t]
    <3>1. attempt # 0 => attempt \in 1..attempt BY <2>2
    <3>2. QED BY <1>1, <2>1, <3>1 DEF PollsOn
  <2>5. QED BY <1>2, <2>2, <2>3, <2>4
<1>4. Chain!PollCount(t) \in Nat /\ attempt + 1 <= Chain!PollCount(t)
  BY <1>1, PollsCounted
<1>5. /\ (attempt + 1) * RequestTimeout = attempt * RequestTimeout + RequestTimeout
      /\ attempt * RequestTimeout \in Nat
  BY <1>2, <1>3, Products
<1>6. (attempt + 1) * RequestTimeout <= Chain!PollCount(t) * RequestTimeout
  BY <1>2, <1>3, <1>4, Products
<1>7. Chain!PollCount(t) * RequestTimeout \in Nat BY <1>2, <1>4, Products
<1>8. QED BY <1>1, <1>2, <1>3, <1>5, <1>6, <1>7 DEF PartOf

LEMMA ChainStep == ChainInv /\ [Chain!Next]_(Chain!vars) => ChainInv'
<1> SUFFICES ASSUME ChainInv, [Chain!Next]_(Chain!vars) PROVE ChainInv'
  OBVIOUS
<1>1. /\ RequestTimeout \in Nat /\ \A d \in Latencies : d \in Nat /\ d <= RequestTimeout
      /\ total \in Nat /\ Chain!LatencyBound \in Nat
  BY ChainConstants, BoundAddsUp DEF ChainInv, Chain!Tasks
<1>2. \A t \in Chain!Tasks :
        /\ Base(t) \in Nat /\ PartOf(t) \in Nat
        /\ Base(t) + PartOf(t) + RequestTimeout <= Chain!LatencyBound
        /\ RequestTimeout <= PartOf(t)
  <2>1. Base("model") = 0 BY DEF Base
  <2>2. \A t \in Chain!Tasks : RequestTimeout <= PartOf(t)
    <3>1. ASSUME NEW t \in Chain!Tasks PROVE RequestTimeout <= PartOf(t)
      <4>1. Chain!PollCount(t) * RequestTimeout \in Nat BY <1>1, PollsCounted, Products
      <4>2. QED BY <1>1, <4>1, ChainConstants DEF PartOf
    <3>2. QED BY <3>1
  <2>3. QED BY <1>1, <2>1, <2>2, BoundAddsUp DEF Chain!Tasks
(* The chain ends within the bound.                                          *)
<1>3. ASSUME at' = "end", total' \in Nat, total' <= Chain!LatencyBound PROVE ChainInv'
  BY <1>3, Stations DEF ChainInv
<1>4. ASSUME NEW t \in Chain!Tasks, Chain!Submit(t) PROVE ChainInv'
  <2>1. /\ at = Chain!Submits[t] /\ elapsed' = 0 /\ attempt' = 0
        /\ \/ at' = "end" \/ at' = Chain!Polls[t]
        /\ total' \in Nat /\ total' <= total + RequestTimeout
    BY <1>1, <1>4 DEF Chain!Submit, Chain!Fail
  <2>2. total <= Base(t) BY <2>1 DEF ChainInv
  <2>3. total' <= Base(t) + RequestTimeout /\ total' <= Chain!LatencyBound
    BY <1>1, <1>2, <2>1, <2>2
  <2>4. CASE at' = "end" BY <1>3, <2>1, <2>3, <2>4
  <2>5. CASE at' = Chain!Polls[t]
    <3>1. PollsOn(t)' BY <2>1, SleepsAddUp, ChainConstants DEF PollsOn
    <3>2. total' <= Base(t) + RequestTimeout + elapsed' + attempt' * RequestTimeout
      BY <1>1, <1>2, <2>1, <2>3
    <3>3. QED
      BY <2>1, <2>3, <2>5, <3>1, <3>2, Stations DEF ChainInv
  <2>6. QED BY <2>1, <2>4, <2>5
<1>5. ASSUME NEW t \in Chain!Tasks, Chain!TaskEnds(t) PROVE ChainInv'
  BY <1>5 DEF Chain!TaskEnds, ChainInv, PollsOn
<1>6. ASSUME NEW t \in Chain!Tasks, Chain!PollAnswered(t) PROVE ChainInv'
  <2>1. at = Chain!Polls[t] BY <1>6 DEF Chain!PollAnswered
  <2>2. /\ elapsed \in Nat /\ attempt \in Nat /\ elapsed <= MaxWait[t]
        /\ total + RequestTimeout <= Base(t) + PartOf(t)
        /\ total + RequestTimeout <=
             Base(t) + RequestTimeout + elapsed + (attempt + 1) * RequestTimeout
        /\ Base(t) + RequestTimeout + MaxWait[t] + (attempt + 1) * RequestTimeout
             <= Base(t) + PartOf(t)
    BY <2>1, LoopFits
  <2>3. PICK d \in Latencies :
          \/ total' = total + d /\ at' \in {"end", Chain!After(t)}
          \/ /\ ~Chain!GivesUp(t, Chain!DelayOf(attempt)) /\ at' = at
             /\ total' = total + d + Chain!DelayOf(attempt)
             /\ elapsed' = elapsed + Chain!DelayOf(attempt) /\ attempt' = attempt + 1
    BY <1>6 DEF Chain!PollAnswered, Chain!Fail
  <2>4. d \in Nat /\ d <= RequestTimeout BY <1>1
  <2>5. CASE total' = total + d /\ at' \in {"end", Chain!After(t)}
    <3>1. /\ total' \in Nat /\ total' <= Base(t) + PartOf(t)
          /\ total' <= Chain!LatencyBound
      BY <1>1, <1>2, <2>2, <2>4, <2>5
    <3>2. CASE at' = "end" BY <1>3, <3>1, <3>2
    <3>3. CASE at' = Chain!After(t)
      <4>1. CASE t = "model"
        <5>1. at' = "submit segment" /\ total' <= Base("segment")
          BY <3>1, <3>3, <4>1, BoundAddsUp DEF Chain!After
        <5>2. QED
          BY <3>1, <5>1, Stations DEF ChainInv
      <4>2. CASE t = "segment"
        <5>1. at' = "download" /\ total' <= Base("segment") + PartOf("segment")
          BY <3>1, <3>3, <4>2 DEF Chain!After
        <5>2. QED
          BY <3>1, <5>1, Stations DEF ChainInv
      <4>3. QED BY <4>1, <4>2 DEF Chain!Tasks
    <3>4. QED BY <2>5, <3>2, <3>3
  <2>6. CASE /\ ~Chain!GivesUp(t, Chain!DelayOf(attempt)) /\ at' = at
             /\ total' = total + d + Chain!DelayOf(attempt)
             /\ elapsed' = elapsed + Chain!DelayOf(attempt) /\ attempt' = attempt + 1
    <3> DEFINE delay == Chain!DelayOf(attempt)
    <3>1. delay \in Nat \ {0} /\ MaxWait[t] \in Nat BY <2>2, ChainConstants
    <3>2. elapsed + delay < MaxWait[t] BY <2>2, <2>6, <3>1 DEF Chain!GivesUp
    <3> HIDE DEF delay
    <3>3. PollsOn(t)'
      <4>1. PollsOn(t) BY <2>1 DEF ChainInv
      <4>2. attempt + 1 <= MaxWait[t]
        BY <2>2, <3>1, <3>2, <4>1, SleptLong DEF PollsOn
      <4>3. Chain!SleptAfter(t)[attempt + 1] = elapsed + delay
        <5>1. attempt + 1 \in 1..MaxWait[t] /\ (attempt + 1) - 1 = attempt BY <2>2, <4>2, <3>1
        <5>2. QED BY <4>1, <5>1, SleepsAddUp DEF PollsOn, delay
      <4>4. \A n \in 1..attempt + 1 : n \in 1..attempt \/ n = attempt + 1 BY <2>2
      <4>5. \A n \in 1..attempt + 1 : Chain!SleptAfter(t)[n] < MaxWait[t]
        BY <3>2, <4>1, <4>3, <4>4 DEF PollsOn
      <4>6. attempt' = attempt + 1 /\ elapsed' = elapsed + delay /\ attempt' \in 0..MaxWait[t]
        BY <2>2, <2>6, <3>1, <4>2 DEF delay
      <4>7. QED BY <4>3, <4>5, <4>6 DEF PollsOn
    <3>4. total' \in Nat /\ total' <= Base(t) + RequestTimeout + elapsed' + attempt' * RequestTimeout
      <4>1. total' = total + d + delay /\ elapsed' = elapsed + delay /\ attempt' = attempt + 1
        BY <2>6 DEF delay
      <4> DEFINE p == (attempt + 1) * RequestTimeout
      <4>2. p \in Nat BY <1>1, <2>2, Products
      <4>3. total + RequestTimeout <= Base(t) + RequestTimeout + elapsed + p BY <2>2
      <4>4. attempt' * RequestTimeout = p BY <4>1
      <4> HIDE DEF p
      <4>5. QED BY <1>1, <1>2, <2>2, <2>4, <3>1, <4>1, <4>2, <4>3, <4>4
    <3>5. total' <= Chain!LatencyBound
      <4>1. total' = total + d + delay BY <2>6 DEF delay
      <4> DEFINE p == (attempt + 1) * RequestTimeout
      <4>2. p \in Nat BY <1>1, <2>2, Products
      <4>3. /\ total + RequestTimeout <= Base(t) + RequestTimeout + elapsed + p
            /\ Base(t) + RequestTimeout + MaxWait[t] + p <= Base(t) + PartOf(t)
        BY <2>2
      <4> HIDE DEF p
      <4>4. QED BY <1>1, <1>2, <2>2, <2>4, <3>1, <3>2, <4>1, <4>2, <4>3
    <3>6. QED
      BY <2>1, <2>6, <3>3, <3>4, <3>5, Stations DEF ChainInv
  <2>7. QED BY <2>3, <2>5, <2>6
<1>7. ASSUME NEW t \in Chain!Tasks, Chain!PollFails(t) PROVE ChainInv'
  <2>1. at = Chain!Polls[t] /\ at' = "end" /\ total' \in Nat /\ total' <= total + RequestTimeout
    BY <1>1, <1>7 DEF Chain!PollFails, Chain!Fail
  <2>2. total + RequestTimeout <= Base(t) + PartOf(t) BY <2>1, LoopFits
  <2>3. QED BY <1>1, <1>2, <1>3, <2>1, <2>2
<1>8. CASE Chain!Download
  <2>1. at = "download" /\ at' = "end" /\ total' \in Nat /\ total' <= total + RequestTimeout
    BY <1>1, <1>8 DEF Chain!Download, Chain!Fail
  <2>2. total <= Base("segment") + PartOf("segment") BY <2>1 DEF ChainInv
  <2>3. QED BY <1>1, <1>2, <1>3, <2>1, <2>2 DEF Chain!Tasks
<1>9. CASE UNCHANGED Chain!vars
  BY <1>9 DEF Chain!vars, ChainInv, PollsOn
<1>10. QED BY <1>4, <1>5, <1>6, <1>7, <1>8, <1>9 DEF Chain!Next

-----------------------------------------------------------------------------
(* The cached balance: what a verdict is worth.                              *)

LEMMA BalanceConstants ==
    StaleMs \in Nat /\ StaleMs > 0 /\ BalanceTimeout \in Nat
BY ServicesAssumption DEF Balance!BalanceAssumption

(* Credit has its value now; a query began a timeout ago at most, and what   *)
(* it read held after it began.                                              *)
ReadLately(q) ==
    /\ q \in [phase : Balance!Phases, since : Nat, enough : BOOLEAN]
    /\ q.phase # "idle" =>
         q.since <= balanceClock /\ balanceClock <= q.since + BalanceTimeout
    /\ q.phase = "read" => q.since <= seen[q.enough]

(* The row's balance held a timeout before it was written, or since.         *)
RowKept ==
    row # Balance!NoRow =>
        /\ row \in [enough : BOOLEAN, at : Nat]
        /\ row.at <= balanceClock /\ row.at <= seen[row.enough] + BalanceTimeout

BalanceInv ==
    /\ balanceClock \in Nat /\ credit \in BOOLEAN /\ seen \in [BOOLEAN -> Nat]
    /\ seen[credit] = balanceClock /\ \A b \in BOOLEAN : seen[b] <= balanceClock
    /\ ReadLately(poll) /\ ReadLately(live) /\ RowKept

Recent ==
    \A u \in Callers :
        asks'[u] # asks[u] /\ asks'[u] \in {"available", "insufficient"}
          => balanceClock < seen[asks'[u] = "available"] + StaleMs + BalanceTimeout
             \/ credit = (asks'[u] = "available")

LEMMA BalanceStart == Balance!Init => BalanceInv
<1> SUFFICES ASSUME Balance!Init PROVE BalanceInv
  OBVIOUS
<1>1. /\ balanceClock = 0 /\ credit \in BOOLEAN /\ seen = [b \in BOOLEAN |-> 0]
      /\ row = Balance!NoRow /\ poll = Balance!Idle /\ live = Balance!Idle
  BY DEF Balance!Init
<1>2. seen[credit] = 0 /\ \A b \in BOOLEAN : seen[b] = 0 BY <1>1
<1>3. ReadLately(poll) /\ ReadLately(live)
  BY <1>1 DEF ReadLately, Balance!Idle, Balance!Phases
<1>4. QED BY <1>1, <1>2, <1>3 DEF BalanceInv, RowKept

LEMMA BalanceTyped ==
    BalanceInv => /\ balanceClock \in Nat /\ credit \in BOOLEAN
                  /\ seen[credit] = balanceClock
                  /\ \A b \in BOOLEAN : seen[b] \in Nat /\ seen[b] <= balanceClock
BY DEF BalanceInv

(* A query of an instant ago, or one that has been read.                     *)
LEMMA NewQueries ==
    ASSUME BalanceInv
    PROVE  /\ ReadLately(Balance!Idle) /\ ReadLately(Balance!Ask)
           /\ \A q : ReadLately(q) /\ q.phase = "asked" => ReadLately(Balance!Reads(q))
<1>1. ReadLately(Balance!Idle)
  BY DEF ReadLately, Balance!Idle, Balance!Phases
<1>2. ReadLately(Balance!Ask)
  BY BalanceTyped, BalanceConstants DEF ReadLately, Balance!Ask, Balance!Phases
<1>3. ASSUME NEW q, ReadLately(q), q.phase = "asked" PROVE ReadLately(Balance!Reads(q))
  <2> DEFINE r == Balance!Reads(q)
  <2>1. q \in [phase : Balance!Phases, since : Nat, enough : BOOLEAN] BY <1>3 DEF ReadLately
  <2>2. r \in [phase : Balance!Phases, since : Nat, enough : BOOLEAN]
    BY <2>1, BalanceTyped DEF Balance!Reads, Balance!Phases
  <2>3. r.since = q.since /\ r.phase = "read" BY <2>1 DEF Balance!Reads
  <2>4. seen[r.enough] = seen[credit] BY <2>1 DEF Balance!Reads
  <2>5. q.since <= balanceClock /\ balanceClock <= q.since + BalanceTimeout
    BY <1>3 DEF ReadLately
  <2> HIDE DEF r
  <2>6. ReadLately(r) BY <2>2, <2>3, <2>4, <2>5, BalanceTyped DEF ReadLately
  <2>7. QED BY <2>6 DEF r
<1>4. QED BY <1>1, <1>2, <1>3

(* While time stands still and credit with it, what was read stays as good.  *)
LEMMA Standing ==
    ASSUME UNCHANGED <<balanceClock, credit, seen>>
    PROVE  /\ \A q : ReadLately(q) => ReadLately(q)'
           /\ (row' = row /\ RowKept => RowKept')
BY DEF ReadLately, RowKept

LEMMA Written ==
    ASSUME BalanceInv, NEW q, ReadLately(q), q.phase = "read", row' = Balance!Write(q),
           UNCHANGED <<balanceClock, credit, seen>>
    PROVE  RowKept'
<1>1. q \in [phase : Balance!Phases, since : Nat, enough : BOOLEAN] BY DEF ReadLately
<1>2. row' = [enough |-> q.enough, at |-> balanceClock] BY DEF Balance!Write
<1>3. row' \in [enough : BOOLEAN, at : Nat] BY <1>1, <1>2, BalanceTyped
<1>4. row'.at = balanceClock BY <1>2
<1>5. seen'[row'.enough] = seen[q.enough] BY <1>2
<1>6. balanceClock <= q.since + BalanceTimeout /\ q.since <= seen[q.enough]
  BY DEF ReadLately
<1>7. seen[q.enough] \in Nat /\ q.since \in Nat BY <1>1, BalanceTyped
<1>8. QED BY <1>3, <1>4, <1>5, <1>6, <1>7, BalanceTyped, BalanceConstants DEF RowKept

LEMMA BalanceStep == BalanceInv /\ [Balance!Next]_(Balance!vars) => BalanceInv'
<1> SUFFICES ASSUME BalanceInv, [Balance!Next]_(Balance!vars) PROVE BalanceInv'
  OBVIOUS
(* Every action but Tick and CreditMoves.                                    *)
<1>1. ASSUME UNCHANGED <<balanceClock, credit, seen>>, RowKept',
             ReadLately(poll'), ReadLately(live')
      PROVE  BalanceInv'
  <2>1. ReadLately(poll)' /\ ReadLately(live)' BY <1>1, Standing DEF ReadLately
  <2>2. QED BY <1>1, <2>1 DEF BalanceInv
<1>2. RowKept /\ ReadLately(poll) /\ ReadLately(live) BY DEF BalanceInv
<1>3. CASE Balance!Tick
  <2>1. /\ balanceClock' = balanceClock + 1 /\ credit' = credit
        /\ seen' = [seen EXCEPT ![credit] = balanceClock + 1]
        /\ ~Balance!Expired(poll) /\ ~Balance!Expired(live)
        /\ row' = row /\ poll' = poll /\ live' = live
    BY <1>3 DEF Balance!Tick
  <2>2. /\ seen' \in [BOOLEAN -> Nat] /\ seen'[credit] = balanceClock + 1
        /\ \A b \in BOOLEAN : seen'[b] \in Nat /\ seen[b] <= seen'[b] /\ seen'[b] <= balanceClock + 1
    BY <2>1 DEF BalanceInv
  <2>3. ASSUME NEW q, ReadLately(q), ~Balance!Expired(q) PROVE ReadLately(q)'
    BY <2>1, <2>2, <2>3, BalanceTyped, BalanceConstants DEF ReadLately, Balance!Expired
  <2>4. RowKept' BY <1>2, <2>1, <2>2, BalanceTyped, BalanceConstants DEF RowKept
  <2>5. ReadLately(poll)' /\ ReadLately(live)' BY <1>2, <2>1, <2>3
  <2>6. QED BY <2>1, <2>2, <2>4, <2>5 DEF BalanceInv
<1>4. CASE Balance!CreditMoves
  <2>1. /\ balanceClock' = balanceClock /\ credit' = ~credit
        /\ seen' = [seen EXCEPT ![~credit] = balanceClock]
        /\ row' = row /\ poll' = poll /\ live' = live
    BY <1>4 DEF Balance!CreditMoves
  <2>2. /\ seen' \in [BOOLEAN -> Nat] /\ seen'[~credit] = balanceClock
        /\ \A b \in BOOLEAN : seen'[b] \in Nat /\ seen[b] <= seen'[b] /\ seen'[b] <= balanceClock
    BY <2>1 DEF BalanceInv
  <2>3. ASSUME NEW q, ReadLately(q) PROVE ReadLately(q)'
    BY <2>1, <2>2, <2>3, BalanceTyped, BalanceConstants DEF ReadLately
  <2>4. RowKept' BY <1>2, <2>1, <2>2, BalanceTyped, BalanceConstants DEF RowKept
  <2>5. ReadLately(poll)' /\ ReadLately(live)' BY <1>2, <2>1, <2>3
  <2>6. seen'[credit'] = balanceClock' BY <2>1, <2>2
  <2>7. QED BY <2>1, <2>2, <2>4, <2>5, <2>6 DEF BalanceInv
<1>5. CASE Balance!PollStart \/ Balance!PollReads \/ Balance!PollFails
  <2>1. UNCHANGED <<balanceClock, credit, seen, row, live>>
    BY <1>5 DEF Balance!PollStart, Balance!PollReads, Balance!PollFails
  <2>2. ReadLately(poll')
    BY <1>2, <1>5, NewQueries DEF Balance!PollStart, Balance!PollReads, Balance!PollFails
  <2>3. QED BY <1>1, <1>2, <2>1, <2>2, Standing
<1>6. CASE Balance!PollDone
  BY <1>1, <1>2, <1>6, NewQueries, Written DEF Balance!PollDone
<1>7. ASSUME NEW u \in Callers, Balance!AskWarm(u) \/ Balance!AskLive(u) PROVE BalanceInv'
  <2>1. UNCHANGED <<balanceClock, credit, seen, row, poll>>
    BY <1>7 DEF Balance!AskWarm, Balance!AskLive
  <2>2. ReadLately(live')
    BY <1>2, <1>7, NewQueries DEF Balance!AskWarm, Balance!AskLive
  <2>3. QED BY <1>1, <1>2, <2>1, <2>2, Standing
<1>8. CASE Balance!LiveReads \/ Balance!LiveFails
  <2>1. UNCHANGED <<balanceClock, credit, seen, row, poll>>
    BY <1>8 DEF Balance!LiveReads, Balance!LiveFails
  <2>2. ReadLately(live')
    BY <1>2, <1>8, NewQueries DEF Balance!LiveReads, Balance!LiveFails
  <2>3. QED BY <1>1, <1>2, <2>1, <2>2, Standing
<1>9. CASE Balance!LiveDone
  BY <1>1, <1>2, <1>9, NewQueries, Written DEF Balance!LiveDone
<1>10. CASE Balance!Restart
  BY <1>1, <1>2, <1>10, NewQueries, Standing DEF Balance!Restart
<1>11. CASE UNCHANGED Balance!vars
  BY <1>1, <1>2, <1>11, Standing DEF Balance!vars
<1>12. QED
  BY <1>3, <1>4, <1>5, <1>6, <1>7, <1>8, <1>9, <1>10, <1>11 DEF Balance!Next

(* A verdict drawn from something as old as a query or a row in use.         *)
LEMMA VerdictOf ==
    ASSUME BalanceInv, NEW b \in BOOLEAN, balanceClock < seen[b] + StaleMs + BalanceTimeout,
           NEW a, a = Balance!Verdict(b)
    PROVE  balanceClock < seen[a = "available"] + StaleMs + BalanceTimeout
<1>1. CASE b = TRUE
  <2>1. (a = "available") = TRUE BY <1>1 DEF Balance!Verdict
  <2>2. seen[a = "available"] = seen[b] BY <1>1, <2>1, Zenon
  <2>3. QED BY <2>2
<1>2. CASE b = FALSE
  <2>1. (a = "available") = FALSE BY <1>2 DEF Balance!Verdict
  <2>2. seen[a = "available"] = seen[b] BY <1>2, <2>1, Zenon
  <2>3. QED BY <2>2
<1>3. QED BY <1>1, <1>2

LEMMA BalanceTells == BalanceInv /\ [Balance!Next]_(Balance!vars) => Recent
<1> SUFFICES ASSUME BalanceInv, [Balance!Next]_(Balance!vars), NEW u \in Callers,
                    asks'[u] # asks[u], asks'[u] \in {"available", "insufficient"}
             PROVE  balanceClock < seen[asks'[u] = "available"] + StaleMs + BalanceTimeout
  BY Zenon DEF Recent
<1>1. asks' # asks OBVIOUS
<1>2. CASE Balance!LiveDone
  <2>1. asks'[u] = Balance!Verdict(live.enough) BY <1>2 DEF Balance!LiveDone, Balance!Told
  <2>2. live.phase = "read" /\ ReadLately(live) BY <1>2 DEF Balance!LiveDone, BalanceInv
  <2>3. live.enough \in BOOLEAN /\ live.since \in Nat BY <2>2 DEF ReadLately
  <2>4. balanceClock <= live.since + BalanceTimeout /\ live.since <= seen[live.enough]
    BY <2>2 DEF ReadLately
  <2>5. balanceClock < seen[live.enough] + StaleMs + BalanceTimeout
    BY <2>3, <2>4, BalanceTyped, BalanceConstants
  <2>6. QED BY <2>1, <2>3, <2>5, VerdictOf
<1>3. ASSUME NEW v \in Callers, Balance!AskWarm(v)
      PROVE  balanceClock < seen[asks'[u] = "available"] + StaleMs + BalanceTimeout
  <2>1. asks'[u] = Balance!Verdict(row.enough) /\ row # Balance!NoRow
        /\ balanceClock - row.at < StaleMs
    BY <1>3 DEF Balance!AskWarm, Balance!Warm
  <2>2. /\ row.enough \in BOOLEAN /\ row.at \in Nat
        /\ row.at <= balanceClock /\ row.at <= seen[row.enough] + BalanceTimeout
    BY <2>1 DEF BalanceInv, RowKept
  <2>3. balanceClock < seen[row.enough] + StaleMs + BalanceTimeout
    BY <2>1, <2>2, BalanceTyped, BalanceConstants
  <2>4. QED BY <2>1, <2>2, <2>3, VerdictOf
<1>4. ASSUME NEW v \in Callers, Balance!AskLive(v) PROVE FALSE
  BY <1>4 DEF Balance!AskLive
<1>5. CASE Balance!LiveFails
  BY <1>5 DEF Balance!LiveFails, Balance!Told
<1>6. CASE Balance!Restart
  BY <1>6 DEF Balance!Restart
<1>7. CASE UNCHANGED asks
  BY <1>1, <1>7
<1>8. QED
  BY <1>2, <1>3, <1>4, <1>5, <1>6, <1>7
  DEF Balance!Next, Balance!Tick, Balance!CreditMoves, Balance!PollStart, Balance!PollReads,
      Balance!PollDone, Balance!PollFails, Balance!LiveReads, Balance!vars

(* A generation settles within the waits of its loops and the latency of     *)
(* every request they can make, whatever Tripo does; and a verdict of the    *)
(* pre-flight held at Tripo no longer than a stale row and a query ago.      *)
THEOREM AnswersAreInTime == ServicesSpec => AnswersInTime
<1>1. ServicesInit => ChainInv /\ BalanceInv
  BY ChainStart, BalanceStart DEF ServicesInit
<1>2. ChainInv /\ [ServicesNext]_servicesVars => ChainInv'
  BY ChainStep, ServiceSteps
<1>3. BalanceInv /\ [ServicesNext]_servicesVars => BalanceInv' /\ [Recent]_(Balance!vars)
  BY BalanceStep, BalanceTells, ServiceSteps
<1>4. ChainInv => Chain!SettlesInTime
  BY DEF ChainInv, Chain!SettlesInTime
<1>5. QED
  BY <1>1, <1>2, <1>3, <1>4, PTL
  DEF ServicesSpec, AnswersInTime, Balance!VerdictIsRecent, Recent

-----------------------------------------------------------------------------
(* The indexer: what it serves is the chain's.                               *)

(* The events the poll loop has done with.                                   *)
Done == IF page = <<>> THEN cursor ELSE next - Len(page)

IndexTyped ==
    /\ log \in Seq(Indexer!Pairs) /\ store \in [Collections -> Seq(Integrators)]
    /\ cursor \in 0..Len(log) /\ page \in Seq(Indexer!Pairs)

(* The chain has each pair once; the fetched page is what follows the events *)
(* the loop has done with, which are not before the cursor.                  *)
PageIsNext ==
    /\ \A k, l \in 1..Len(log) : log[k] = log[l] => k = l
    /\ page # <<>> =>
         /\ next \in cursor..Len(log) /\ Done \in cursor..next
         /\ \A i \in 1..Len(page) : page[i] = log[Done + i]

Holds(s, p) == \E m \in 1..Len(s[p[1]]) : s[p[1]][m] = p[2]
Before(s, p, q) == \E m, n \in 1..Len(s[p[1]]) : m < n /\ s[p[1]][m] = p[2] /\ s[p[1]][n] = q[2]

(* A registration that is served, dropped, or had no bytes.                  *)
DealtWith(p) == p \in BadMetadata \/ p \in skipped \/ Holds(store, p)

(* All that the loop is done with is dealt with, and so is all that came     *)
(* before an event that is served: an earlier poll may have served a part of *)
(* a page that is read again.                                                *)
NoGaps ==
    /\ \A k \in 1..Len(log) : k <= Done => DealtWith(log[k])
    /\ \A k, l \in 1..Len(log) : k < l /\ Holds(store, log[l]) => DealtWith(log[k])

OnceEach ==
    \A c \in Collections : \A m, n \in 1..Len(store[c]) : store[c][m] = store[c][n] => m = n

OnTheChain ==
    \A c \in Collections : \A m \in 1..Len(store[c]) :
        <<c, store[c][m]>> \notin BadMetadata
        /\ \E k \in 1..Len(log) : log[k] = <<c, store[c][m]>>

(* The order of registration.                                                *)
InOrder ==
    \A k, l \in 1..Len(log) :
        /\ k < l /\ log[k][1] = log[l][1] /\ log[k] \notin skipped
        /\ Holds(store, log[k]) /\ Holds(store, log[l])
        => Before(store, log[k], log[l])

IndexInv == IndexTyped /\ PageIsNext /\ NoGaps /\ OnceEach /\ OnTheChain /\ InOrder

LEMMA IndexStart == Indexer!Init => IndexInv
<1> SUFFICES ASSUME Indexer!Init PROVE IndexInv
  OBVIOUS
<1>1. log = <<>> /\ page = <<>> /\ cursor = 0 /\ store = [c \in Collections |-> <<>>]
  BY DEF Indexer!Init, Indexer!Fresh
<1>2. IndexTyped BY <1>1 DEF IndexTyped
<1>3. Len(log) = 0 /\ \A c \in Collections : Len(store[c]) = 0 BY <1>1
<1>4. QED BY <1>1, <1>2, <1>3 DEF IndexInv, PageIsNext, NoGaps, OnceEach, OnTheChain, InOrder

LEMMA PairsAre ==
    ASSUME NEW p \in Indexer!Pairs
    PROVE  p[1] \in Collections /\ p[2] \in Integrators /\ p = <<p[1], p[2]>>
BY DEF Indexer!Pairs

(* A registration comes last on the chain, and is not served yet.            *)
LEMMA RegisterKeeps ==
    ASSUME IndexInv, NEW p \in Indexer!Pairs, Indexer!Register(p)
    PROVE  IndexInv'
<1> USE DEF IndexInv, IndexTyped
<1>1. /\ log' = Append(log, p) /\ \A k \in 1..Len(log) : log[k] # p
      /\ UNCHANGED <<store, cursor, page, next, skipped>>
  BY DEF Indexer!Register, Indexer!ToSet
<1>2. /\ log' \in Seq(Indexer!Pairs) /\ Len(log') = Len(log) + 1 /\ Len(log) \in Nat
      /\ log'[Len(log) + 1] = p
      /\ \A k \in 1..Len(log) : log'[k] = log[k] /\ k \in 1..Len(log')
      /\ \A k \in 1..Len(log') : k \in 1..Len(log) \/ k = Len(log) + 1
  BY <1>1
<1>3. Done' = Done /\ Done \in 0..Len(log) BY <1>1 DEF Done, PageIsNext
<1>4. ~Holds(store, p)
  <2>1. p[1] \in Collections /\ p = <<p[1], p[2]>> BY PairsAre
  <2>2. ASSUME NEW m \in 1..Len(store[p[1]]), store[p[1]][m] = p[2] PROVE FALSE
    <3>1. PICK k \in 1..Len(log) : log[k] = <<p[1], store[p[1]][m]>> BY <2>1 DEF OnTheChain
    <3>2. QED BY <1>1, <2>1, <2>2, <3>1
  <2>3. QED BY <2>2 DEF Holds
<1>5. \A k \in 1..Len(log') : Holds(store', log'[k]) => k \in 1..Len(log)
  BY <1>1, <1>2, <1>4
<1>6. IndexTyped' BY <1>1, <1>2
<1>7. PageIsNext'
  <2>1. \A k, l \in 1..Len(log') : log'[k] = log'[l] => k = l BY <1>1, <1>2 DEF PageIsNext
  <2>2. CASE page = <<>> BY <1>1, <2>1, <2>2 DEF PageIsNext
  <2>3. CASE page # <<>>
    <3>1. next \in cursor..Len(log) /\ Done \in cursor..next BY <2>3 DEF PageIsNext
    <3>2. \A i \in 1..Len(page) : Done + i \in 1..Len(log) /\ page[i] = log[Done + i]
      BY <2>3, <3>1 DEF PageIsNext, Done
    <3>3. \A i \in 1..Len(page) : page[i] = log'[Done + i] BY <1>2, <3>2
    <3>4. next \in cursor..Len(log') BY <1>2, <3>1
    <3>5. QED BY <1>1, <1>3, <2>1, <3>1, <3>3, <3>4 DEF PageIsNext
  <2>4. QED BY <2>2, <2>3
<1>8. NoGaps'
  <2>1. \A k \in 1..Len(log') : k <= Done => DealtWith(log'[k])
    BY <1>2, <1>3 DEF NoGaps
  <2>2. \A k, l \in 1..Len(log') : k < l /\ Holds(store, log'[l]) => DealtWith(log'[k])
    BY <1>1, <1>2, <1>5 DEF NoGaps
  <2>3. QED BY <1>1, <1>3, <2>1, <2>2 DEF NoGaps, DealtWith
<1>9. OnceEach' BY <1>1 DEF OnceEach
<1>10. OnTheChain'
  <2>1. ASSUME NEW c \in Collections, NEW m \in 1..Len(store[c])
        PROVE  \E k \in 1..Len(log') : log'[k] = <<c, store[c][m]>>
    <3>1. PICK k \in 1..Len(log) : log[k] = <<c, store[c][m]>> BY DEF OnTheChain
    <3>2. QED BY <1>2, <3>1
  <2>2. QED BY <1>1, <2>1 DEF OnTheChain
<1>11. InOrder'
  <2>1. ASSUME NEW k \in 1..Len(log'), NEW l \in 1..Len(log'), k < l, Holds(store, log'[l])
        PROVE  /\ k \in 1..Len(log) /\ l \in 1..Len(log)
               /\ log'[k] = log[k] /\ log'[l] = log[l]
    <3>1. l \in 1..Len(log) BY <1>1, <1>5, <2>1
    <3>2. k \in 1..Len(log) BY <2>1, <3>1
    <3>3. QED BY <1>2, <3>1, <3>2
  <2>2. ASSUME NEW k \in 1..Len(log'), NEW l \in 1..Len(log'), k < l, log'[k][1] = log'[l][1],
               log'[k] \notin skipped, Holds(store, log'[k]), Holds(store, log'[l])
        PROVE  Before(store, log'[k], log'[l])
    <3>1. k \in 1..Len(log) /\ l \in 1..Len(log) /\ log'[k] = log[k] /\ log'[l] = log[l]
      BY <2>1, <2>2
    <3>2. QED BY <2>2, <3>1 DEF InOrder
  <2>3. QED BY <1>1, <2>2 DEF InOrder
<1>12. QED BY <1>6, <1>7, <1>8, <1>9, <1>10, <1>11

LEMMA FetchKeeps ==
    ASSUME IndexInv, NEW known \in cursor..Len(log), Indexer!Fetch(known)
    PROVE  IndexInv'
<1> USE DEF IndexInv, IndexTyped
<1> DEFINE last == IF cursor + PageLimit < known THEN cursor + PageLimit ELSE known
<1>1. /\ page = <<>> /\ page' = SubSeq(log, cursor + 1, last) /\ next' = last
      /\ cursor' = cursor /\ UNCHANGED <<log, store, skipped>>
  BY DEF Indexer!Fetch, Indexer!CursorAtFetch
<1>2. PageLimit \in Nat BY ServicesAssumption DEF Indexer!IndexerAssumption
<1>3. last \in cursor..Len(log) BY <1>2
<1> HIDE DEF last
<1>4. /\ page' \in Seq(Indexer!Pairs) /\ Len(page') = last - cursor
      /\ \A i \in 1..Len(page') : page'[i] = log[cursor + i]
  BY <1>1, <1>3
<1>5. Done = cursor BY <1>1 DEF Done
<1>6. Done' = cursor
  <2>1. page' # <<>> => Done' = last - (last - cursor) BY <1>1, <1>4 DEF Done
  <2>2. page' = <<>> => Done' = cursor BY <1>1 DEF Done
  <2>3. QED BY <1>3, <2>1, <2>2
<1>7. IndexTyped' BY <1>1, <1>4
<1>8. PageIsNext' BY <1>1, <1>3, <1>4, <1>6 DEF PageIsNext
<1>9. NoGaps' BY <1>1, <1>5, <1>6 DEF NoGaps, DealtWith
<1>10. OnceEach' /\ OnTheChain' /\ InOrder' BY <1>1 DEF OnceEach, OnTheChain, InOrder
<1>11. QED BY <1>7, <1>8, <1>9, <1>10

(* After NextEvent the loop is done with one more.                           *)
LEMMA NextEventMoves ==
    ASSUME IndexInv, page # <<>>, Indexer!NextEvent
    PROVE  /\ Done + 1 \in 1..Len(log) /\ Head(page) = log[Done + 1] /\ Done' = Done + 1
           /\ cursor' \in 0..Len(log) /\ page' \in Seq(Indexer!Pairs) /\ log' = log
           /\ page' # <<>> =>
                /\ next' \in cursor'..Len(log) /\ Done' \in cursor'..next'
                /\ \A i \in 1..Len(page') : page'[i] = log[Done' + i]
<1> USE DEF IndexInv, IndexTyped
<1>1. /\ next \in cursor..Len(log) /\ Done \in cursor..next
      /\ \A i \in 1..Len(page) : page[i] = log[Done + i]
  BY DEF PageIsNext
<1>2. /\ page' = Tail(page) /\ cursor' = (IF Len(page) = 1 THEN next ELSE cursor)
      /\ log' = log /\ next' = next
  BY DEF Indexer!NextEvent
<1>3. Len(page) \in Nat /\ Len(page) >= 1 /\ Head(page) = page[1] BY DEF PageIsNext
<1>4. Done = next - Len(page) BY DEF Done
<1>5. /\ page' \in Seq(Indexer!Pairs) /\ Len(page') = Len(page) - 1
      /\ \A i \in 1..Len(page') : page'[i] = page[i + 1]
  BY <1>2, <1>3
<1>6. Done + 1 \in 1..Len(log) /\ Head(page) = log[Done + 1] BY <1>1, <1>3, <1>4
<1>7. Done' = Done + 1
  <2>1. CASE Len(page) = 1
    <3>1. page' = <<>> /\ cursor' = next BY <1>2, <1>5, <2>1
    <3>2. QED BY <1>1, <1>4, <2>1, <3>1 DEF Done
  <2>2. CASE Len(page) # 1
    <3>1. page' # <<>> BY <1>3, <1>5, <2>2
    <3>2. Done' = next - (Len(page) - 1) BY <1>2, <1>5, <3>1 DEF Done
    <3>3. QED BY <1>1, <1>3, <1>4, <3>2
  <2>3. QED BY <2>1, <2>2
<1>8. cursor' \in 0..Len(log) BY <1>1, <1>2
<1>9. ASSUME page' # <<>>
      PROVE  /\ next' \in cursor'..Len(log) /\ Done' \in cursor'..next'
             /\ \A i \in 1..Len(page') : page'[i] = log[Done' + i]
  <2>1. Len(page) > 1 BY <1>3, <1>5, <1>9
  <2>2. cursor' = cursor /\ next' = next BY <1>2, <2>1
  <2>3. \A i \in 1..Len(page') : page'[i] = log[(Done + 1) + i]
    <3>1. ASSUME NEW i \in 1..Len(page') PROVE page'[i] = log[(Done + 1) + i]
      <4>1. i + 1 \in 1..Len(page) /\ Done + (i + 1) = (Done + 1) + i BY <1>1, <1>3, <1>5
      <4>2. QED BY <1>1, <1>5, <4>1
    <3>2. QED BY <3>1
  <2>4. Done + 1 <= next BY <1>1, <1>3, <1>4
  <2>5. QED BY <1>1, <1>7, <2>2, <2>3, <2>4
<1>10. QED BY <1>2, <1>5, <1>6, <1>7, <1>8, <1>9

(* The loop's next event had no bytes, or was dropped: nothing is served.    *)
LEMMA PassedKeeps ==
    ASSUME IndexInv, page # <<>>, Indexer!NextEvent, store' = store,
           skipped \subseteq skipped',
           Head(page) \in BadMetadata \cup skipped' \/ Holds(store, Head(page))
    PROVE  IndexInv'
<1> USE DEF IndexInv, IndexTyped
<1>1. /\ Done + 1 \in 1..Len(log) /\ Head(page) = log[Done + 1] /\ Done' = Done + 1
      /\ cursor' \in 0..Len(log) /\ page' \in Seq(Indexer!Pairs) /\ log' = log
  BY NextEventMoves
<1>2. IndexTyped' BY <1>1
<1>3. PageIsNext' BY <1>1, NextEventMoves DEF PageIsNext
<1>4. \A p : DealtWith(p) => DealtWith(p)' BY DEF DealtWith
<1>5. \A p : p = log[Done + 1] => DealtWith(p)' BY <1>1 DEF DealtWith
<1>6. Done \in Nat
  BY DEF Done, PageIsNext
<1>7. \A k \in 1..Len(log) : k <= Done + 1 => k <= Done \/ k = Done + 1 BY <1>6
<1>8. NoGaps'
  <2>1. \A k \in 1..Len(log) : \A p : p = log[k] /\ k <= Done + 1 => DealtWith(p)'
    BY <1>4, <1>5, <1>7 DEF NoGaps
  <2>2. \A k, l \in 1..Len(log) : \A p :
          p = log[k] /\ k < l /\ Holds(store, log[l]) => DealtWith(p)'
    BY <1>4 DEF NoGaps
  <2>3. QED BY <1>1, <2>1, <2>2 DEF NoGaps
<1>9. OnceEach' /\ OnTheChain' /\ InOrder' BY <1>1 DEF OnceEach, OnTheChain, InOrder
<1>10. QED BY <1>2, <1>3, <1>8, <1>9

(* A valid event that is not served yet comes last on its list.              *)
LEMMA ServedKeeps ==
    ASSUME IndexInv, page # <<>>, Indexer!NextEvent, skipped' = skipped,
           NEW p \in Indexer!Pairs, p = Head(page), p \notin BadMetadata, ~Holds(store, p),
           store' = [store EXCEPT ![p[1]] = Append(store[p[1]], p[2])]
    PROVE  IndexInv'
<1> USE DEF IndexInv, IndexTyped
<1>1. /\ Done + 1 \in 1..Len(log) /\ p = log[Done + 1] /\ Done' = Done + 1
      /\ cursor' \in 0..Len(log) /\ page' \in Seq(Indexer!Pairs) /\ log' = log
  BY NextEventMoves
<1>2. p[1] \in Collections /\ p[2] \in Integrators /\ p = <<p[1], p[2]>> BY PairsAre
<1> DEFINE n == Len(store[p[1]])
<1>3. /\ store' \in [Collections -> Seq(Integrators)] /\ n \in Nat
      /\ Len(store'[p[1]]) = n + 1 /\ store'[p[1]][n + 1] = p[2]
      /\ \A m \in 1..n : store'[p[1]][m] = store[p[1]][m]
      /\ \A c \in Collections : c # p[1] => store'[c] = store[c]
  BY <1>2
<1> HIDE DEF n
<1>4. \A m \in 1..n + 1 : m \in 1..n \/ m = n + 1 BY <1>3
<1>5. \A m \in 1..n : store[p[1]][m] # p[2] BY DEF Holds, n
<1>6. \A k \in 1..Len(log) : log[k] \in Indexer!Pairs /\ log[k][1] \in Collections
                            /\ log[k] = <<log[k][1], log[k][2]>>
  BY PairsAre
<1>7. \A k \in 1..Len(log) : Holds(store', log[k]) <=> Holds(store, log[k]) \/ k = Done + 1
  <2>1. ASSUME NEW k \in 1..Len(log) 
        PROVE  Holds(store', log[k]) <=> Holds(store, log[k]) \/ log[k] = p
    <3>1. CASE log[k][1] # p[1]
      BY <1>3, <1>6, <3>1 DEF Holds
    <3>2. CASE log[k][1] = p[1]
      <4>1. Holds(store, log[k]) <=> \E m \in 1..n : store[p[1]][m] = log[k][2]
        BY <3>2 DEF Holds, n
      <4>2. Holds(store', log[k]) <=> \E m \in 1..n + 1 : store'[p[1]][m] = log[k][2]
        BY <1>3, <3>2 DEF Holds
      <4>3. log[k] = p <=> log[k][2] = p[2] BY <1>2, <1>6, <3>2
      <4>4. n + 1 \in 1..n + 1 /\ \A m \in 1..n : m \in 1..n + 1 BY <1>3
      <4>5. QED BY <1>3, <1>4, <4>1, <4>2, <4>3, <4>4
    <3>3. QED BY <3>1, <3>2
  <2>2. \A k \in 1..Len(log) : log[k] = p <=> k = Done + 1 BY <1>1 DEF PageIsNext
  <2>3. QED BY <2>1, <2>2
<1>8. IndexTyped' BY <1>1, <1>3
<1>9. PageIsNext' BY <1>1, NextEventMoves DEF PageIsNext
<1>10. \A k \in 1..Len(log) : \A q :
         q = log[k] => (DealtWith(q)' <=> DealtWith(q) \/ k = Done + 1)
  <2>1. \A k \in 1..Len(log) : \A q :
         q = log[k] => (Holds(store', q) <=> Holds(store, q) \/ k = Done + 1)
    BY <1>7
  <2>2. QED BY <1>1, <2>1 DEF DealtWith
<1>11. Done \in Nat /\ \A k \in 1..Len(log) : k <= Done + 1 => k <= Done \/ k = Done + 1
  BY DEF Done, PageIsNext
<1>12. NoGaps'
  <2>1. \A k \in 1..Len(log) : \A q : q = log[k] /\ k <= Done + 1 => DealtWith(q)'
    BY <1>10, <1>11 DEF NoGaps
  <2>2. \A k, l \in 1..Len(log) : \A q :
          q = log[k] /\ k < l /\ Holds(store', log[l]) => DealtWith(q)'
    <3>1. ASSUME NEW k \in 1..Len(log), NEW l \in 1..Len(log), k < l, Holds(store', log[l])
          PROVE  DealtWith(log[k])
      <4>1. CASE Holds(store, log[l]) BY <3>1, <4>1 DEF NoGaps
      <4>2. CASE l = Done + 1 BY <1>11, <3>1, <4>2 DEF NoGaps
      <4>3. QED BY <1>7, <3>1, <4>1, <4>2
    <3>2. QED BY <1>10, <3>1
  <2>3. QED BY <1>1, <2>1, <2>2 DEF NoGaps
<1>13. OnceEach'
  <2>1. ASSUME NEW c \in Collections, NEW m \in 1..Len(store'[c]), NEW i \in 1..Len(store'[c]),
               store'[c][m] = store'[c][i]
        PROVE  m = i
    <3>1. CASE c # p[1] BY <1>3, <2>1, <3>1 DEF OnceEach
    <3>2. CASE c = p[1]
      <4>1. m \in 1..n /\ i \in 1..n => m = i BY <1>3, <2>1, <3>2 DEF OnceEach, n
      <4>2. QED BY <1>3, <1>4, <1>5, <2>1, <3>2, <4>1
    <3>3. QED BY <3>1, <3>2
  <2>2. QED BY <2>1 DEF OnceEach
<1>14. OnTheChain'
  <2>1. ASSUME NEW c \in Collections, NEW m \in 1..Len(store'[c])
        PROVE  /\ <<c, store'[c][m]>> \notin BadMetadata
               /\ \E k \in 1..Len(log) : log[k] = <<c, store'[c][m]>>
    <3>1. CASE m \in 1..Len(store[c]) /\ store'[c][m] = store[c][m]
      BY <3>1 DEF OnTheChain
    <3>2. CASE c = p[1] /\ m = n + 1
      <4>1. <<c, store'[c][m]>> = p BY <1>2, <1>3, <3>2
      <4>2. QED BY <1>1, <4>1
    <3>3. QED BY <1>3, <1>4, <3>1, <3>2 DEF n
  <2>2. QED BY <1>1, <2>1 DEF OnTheChain
<1>15. InOrder'
  <2>1. ASSUME NEW k \in 1..Len(log), NEW l \in 1..Len(log), k < l, log[k][1] = log[l][1],
               log[k] \notin skipped, Holds(store', log[k]), Holds(store', log[l])
        PROVE  Before(store', log[k], log[l])
    <3>1. Before(store, log[k], log[l]) => Before(store', log[k], log[l])
      <4>1. CASE log[k][1] # p[1] BY <1>3, <1>6, <4>1 DEF Before
      <4>2. CASE log[k][1] = p[1]
        <5>1. \A m \in 1..n : m \in 1..n + 1 BY <1>3
        <5>2. QED BY <1>3, <4>2, <5>1 DEF Before, n
      <4>3. QED BY <4>1, <4>2
    <3>2. CASE k = Done + 1
      <4>1. Holds(store, log[l]) BY <1>7, <2>1, <3>2
      <4>2. DealtWith(log[k]) BY <2>1, <4>1 DEF NoGaps
      <4>3. QED BY <1>1, <2>1, <3>2, <4>2 DEF DealtWith
    <3>3. CASE k # Done + 1 /\ l = Done + 1
      <4>1. Holds(store, log[k]) /\ log[l] = p /\ log[k][1] = p[1] BY <1>1, <1>7, <2>1, <3>3
      <4>2. PICK m \in 1..n : store[p[1]][m] = log[k][2] BY <4>1 DEF Holds, n
      <4>3. /\ m \in 1..n + 1 /\ n + 1 \in 1..n + 1 /\ m < n + 1
            /\ store'[p[1]][m] = log[k][2] /\ store'[p[1]][n + 1] = log[l][2]
        BY <1>3, <4>1, <4>2
      <4>4. \E i, j \in 1..Len(store'[p[1]]) :
              i < j /\ store'[p[1]][i] = log[k][2] /\ store'[p[1]][j] = log[l][2]
        BY <1>3, <4>3
      <4>5. QED BY <4>1, <4>4 DEF Before
    <3>4. CASE k # Done + 1 /\ l # Done + 1
      BY <1>7, <2>1, <3>1, <3>4 DEF InOrder
    <3>5. QED BY <3>2, <3>3, <3>4
  <2>2. QED BY <1>1, <2>1 DEF InOrder
<1>16. QED BY <1>8, <1>9, <1>12, <1>13, <1>14, <1>15

LEMMA IndexStep == IndexInv /\ [Indexer!Next]_(Indexer!vars) => IndexInv'
<1> SUFFICES ASSUME IndexInv, [Indexer!Next]_(Indexer!vars) PROVE IndexInv'
  OBVIOUS
<1>1. ASSUME NEW p \in Indexer!Pairs, Indexer!Register(p) PROVE IndexInv'
  BY <1>1, RegisterKeeps
<1>2. ASSUME NEW known \in cursor..Len(log), Indexer!Fetch(known) PROVE IndexInv'
  BY <1>2, FetchKeeps
<1>3. ASSUME page # <<>>
      PROVE  Head(page) \in Indexer!Pairs /\ Head(page)[1] \in Collections
  <2>1. Head(page) \in Indexer!Pairs BY <1>3 DEF IndexInv, IndexTyped
  <2>2. QED BY <2>1, PairsAre
<1>4. CASE Indexer!Ingest
  <2>1. page # <<>> /\ Indexer!NextEvent /\ skipped' = skipped
    BY <1>4 DEF Indexer!Ingest
  <2>2. PICK p \in Indexer!Pairs : p = Head(page) BY <1>3, <2>1
  <2>3. CASE p \in BadMetadata
    <3>1. store' = store BY <1>4, <2>2, <2>3 DEF Indexer!Ingest, Indexer!ValidMetadata
    <3>2. QED BY <2>1, <2>2, <2>3, <3>1, PassedKeeps
  <2>4. CASE p \notin BadMetadata
    <3>1. store' = [store EXCEPT ![p[1]] = Indexer!Served(store[p[1]], p[2])]
      BY <1>4, <2>2, <2>4 DEF Indexer!Ingest, Indexer!ValidMetadata
    <3>2. /\ store \in [Collections -> Seq(Integrators)]
          /\ p[1] \in Collections /\ p[2] \in Integrators /\ p = <<p[1], p[2]>>
      BY PairsAre DEF IndexInv, IndexTyped
    <3>3. p[2] \in Indexer!ToSet(store[p[1]]) <=> Holds(store, p)
      BY <3>2 DEF Indexer!ToSet, Holds
    <3>4. CASE Holds(store, p)
      <4>1. store' = store BY <3>1, <3>2, <3>3, <3>4 DEF Indexer!Served
      <4>2. QED BY <2>1, <2>2, <3>4, <4>1, PassedKeeps
    <3>5. CASE ~Holds(store, p)
      <4>1. store' = [store EXCEPT ![p[1]] = Append(store[p[1]], p[2])]
        BY <3>1, <3>3, <3>5 DEF Indexer!Served
      <4>2. QED BY <2>1, <2>2, <2>4, <3>5, <4>1, ServedKeeps
    <3>6. QED BY <3>4, <3>5
  <2>5. QED BY <2>3, <2>4
<1>5. CASE Indexer!IngestBlank
  BY <1>5, PassedKeeps DEF Indexer!IngestBlank
<1>6. CASE Indexer!PollThrows
  <2>1. page' = <<>> /\ UNCHANGED <<log, store, cursor, skipped>>
    BY <1>6 DEF Indexer!PollThrows
  <2>2. Done' = cursor /\ cursor <= Done
    BY <2>1 DEF Done, IndexInv, IndexTyped, PageIsNext
  <2>3. NoGaps'
    <3>1. Done \in Int /\ cursor \in Int BY DEF IndexInv, IndexTyped, PageIsNext, Done
    <3>2. \A k \in 1..Len(log) : k <= cursor => k <= Done BY <2>2, <3>1
    <3>3. QED BY <2>1, <2>2, <3>2 DEF IndexInv, NoGaps, DealtWith
  <2>4. IndexTyped' BY <2>1 DEF IndexInv, IndexTyped
  <2>5. PageIsNext' BY <2>1 DEF IndexInv, PageIsNext
  <2>6. OnceEach' /\ OnTheChain' BY <2>1 DEF IndexInv, OnceEach, OnTheChain
  <2>7. InOrder' BY <2>1 DEF IndexInv, InOrder
  <2>8. QED BY <2>3, <2>4, <2>5, <2>6, <2>7 DEF IndexInv
<1>7. CASE Indexer!Restart
  <2>1. /\ page' = <<>> /\ cursor' = 0 /\ store' = [c \in Collections |-> <<>>] /\ log' = log
    BY <1>7 DEF Indexer!Restart, Indexer!Fresh
  <2>2. IndexTyped' BY <2>1 DEF IndexInv, IndexTyped
  <2>3. \A c \in Collections : Len(store'[c]) = 0 BY <2>1
  <2>4. \A k \in 1..Len(log) : ~Holds(store', log[k])
    <3>1. \A k \in 1..Len(log) : log[k][1] \in Collections
      BY PairsAre DEF IndexInv, IndexTyped
    <3>2. QED BY <2>3, <3>1 DEF Holds
  <2>5. Done' = 0 BY <2>1 DEF Done
  <2>6. PageIsNext' BY <2>1 DEF IndexInv, PageIsNext
  <2>7. NoGaps' /\ InOrder' BY <2>1, <2>4, <2>5 DEF NoGaps, InOrder
  <2>8. OnceEach' /\ OnTheChain' BY <2>3 DEF OnceEach, OnTheChain
  <2>9. QED BY <2>2, <2>6, <2>7, <2>8 DEF IndexInv
<1>8. CASE Indexer!Tick \/ UNCHANGED Indexer!vars
  <2>1. UNCHANGED <<log, store, cursor, page, next, skipped>>
    BY <1>8 DEF Indexer!Tick, Indexer!vars
  <2>2. Done' = Done BY <2>1 DEF Done
  <2>3. IndexTyped' BY <2>1 DEF IndexInv, IndexTyped
  <2>4. PageIsNext' BY <2>1, <2>2 DEF IndexInv, PageIsNext
  <2>5. NoGaps' BY <2>1, <2>2 DEF IndexInv, NoGaps, DealtWith
  <2>6. OnceEach' /\ OnTheChain' BY <2>1 DEF IndexInv, OnceEach, OnTheChain
  <2>7. InOrder' BY <2>1 DEF IndexInv, InOrder
  <2>8. QED BY <2>3, <2>4, <2>5, <2>6, <2>7 DEF IndexInv
<1>9. QED
  BY <1>1, <1>2, <1>4, <1>5, <1>6, <1>7, <1>8 DEF Indexer!Next

LEMMA IndexServes == IndexInv => Indexer!ServesTheChain
<1> SUFFICES ASSUME IndexInv PROVE Indexer!ServesTheChain
  OBVIOUS
<1> USE DEF IndexInv, IndexTyped
<1>1. \A k \in 1..Len(log) : /\ log[k] \in Indexer!Pairs /\ log[k][1] \in Collections
                            /\ log[k] = <<log[k][1], log[k][2]>>
  BY PairsAre
<1>2. \A k \in 1..Len(log) :
        log[k][2] \in Indexer!ToSet(store[log[k][1]]) <=> Holds(store, log[k])
  <2>1. \A c \in Collections : DOMAIN store[c] = 1..Len(store[c]) OBVIOUS
  <2>2. \A c \in Collections : \A x :
          x \in Indexer!ToSet(store[c]) <=> \E m \in 1..Len(store[c]) : store[c][m] = x
    BY <2>1 DEF Indexer!ToSet
  <2>3. QED BY <1>1, <2>2 DEF Holds
<1>3. Indexer!CursorCovers
  <2>1. cursor <= Done /\ cursor \in 0..Len(log) /\ Done \in Int BY DEF Done, PageIsNext
  <2>2. \A k \in 1..cursor : k \in 1..Len(log) /\ k <= Done BY <2>1
  <2>3. QED BY <1>2, <2>2 DEF NoGaps, DealtWith, Indexer!CursorCovers
<1>4. Indexer!ListIsFaithful
  <2>1. ASSUME NEW c \in Collections, NEW i \in Indexer!ToSet(store[c])
        PROVE  <<c, i>> \in Indexer!ToSet(log) \ BadMetadata
    <3>1. PICK m \in 1..Len(store[c]) : store[c][m] = i BY <2>1 DEF Indexer!ToSet
    <3>2. PICK k \in 1..Len(log) : log[k] = <<c, i>> BY <3>1 DEF OnTheChain
    <3>3. <<c, i>> \notin BadMetadata BY <3>1 DEF OnTheChain
    <3>4. log[k] \in Indexer!ToSet(log) BY DEF Indexer!ToSet
    <3>5. QED BY <3>2, <3>3, <3>4
  <2>2. ASSUME NEW c \in Collections, NEW k \in 1..Len(log), NEW l \in 1..Len(log),
               k < l, log[k][1] = c, log[l][1] = c, log[k] \notin skipped,
               {log[k][2], log[l][2]} \subseteq Indexer!ToSet(store[c])
        PROVE  \E m, n \in 1..Len(store[c]) :
                 m < n /\ store[c][m] = log[k][2] /\ store[c][n] = log[l][2]
    <3>1. Holds(store, log[k]) /\ Holds(store, log[l]) BY <1>2, <2>2
    <3>2. Before(store, log[k], log[l]) BY <2>2, <3>1 DEF InOrder
    <3>3. QED BY <2>2, <3>2 DEF Before
  <2>3. QED
    BY <2>1, <2>2 DEF OnceEach, Indexer!ListIsFaithful, Indexer!Count, Indexer!Integrations
<1>5. QED BY <1>3, <1>4 DEF Indexer!ServesTheChain

-----------------------------------------------------------------------------
(* What an agent finds.                                                      *)

LEMMA DiscoveryCount == \A S : Discovery!Cardinality(S) = Cardinality(S)
BY DEF Cardinality, Discovery!Cardinality

IndexLags ==
    /\ indexed \subseteq launched /\ launched \subseteq Forks
    /\ counts \in [Forks -> Nat]

(* A page fits, and so does what the agent may expect on it.                 *)
Fits == Cardinality(launched) <= Page
Listed(nodes) == {nodes[i] : i \in DOMAIN nodes}

CallAsksIndex ==
    /\ call = [tool |-> call.tool, id |-> call.id, step |-> call.step, nodes |-> call.nodes,
               known |-> call.known]
    /\ call.known \subseteq indexed
    /\ call.step = "object" => call.tool = "get_model"
    /\ call.step = "name" =>
         /\ \E k \in Nat : DOMAIN call.nodes = 1..k
         /\ Listed(call.nodes) \subseteq indexed
         /\ Fits => call.known \subseteq Listed(call.nodes)

DiscoveryInv == IndexLags /\ CallAsksIndex /\ Discovery!ForksAreListed

LEMMA DiscoveryStart == Discovery!Init => DiscoveryInv
<1> SUFFICES ASSUME Discovery!Init PROVE DiscoveryInv
  OBVIOUS
<1>1. IndexLags BY DEF Discovery!Init, IndexLags
<1>2. CallAsksIndex BY DEF Discovery!Init, CallAsksIndex, Discovery!NoCall
<1>3. Discovery!ForksAreListed
  BY DEF Discovery!Init, Discovery!ForksAreListed, Discovery!NoAnswer
<1>4. QED BY <1>1, <1>2, <1>3 DEF DiscoveryInv

(* What is on the chain is finite, and fits a page only if it did before.    *)
LEMMA Growing ==
    ASSUME IndexLags, launched' \subseteq Forks, launched \subseteq launched'
    PROVE  /\ IsFiniteSet(launched) /\ IsFiniteSet(indexed)
           /\ Fits' => Fits
<1>1. IsFiniteSet(launched') /\ IsFiniteSet(launched) /\ IsFiniteSet(indexed)
  BY ServicesAssumption, FS_Subset DEF IndexLags
<1>2. Cardinality(launched) <= Cardinality(launched')
  BY <1>1, FS_Subset
<1>3. Cardinality(launched) \in Nat /\ Cardinality(launched') \in Nat
  BY <1>1, FS_CardinalityType
<1>4. Page \in Nat BY ServicesAssumption DEF Discovery!DiscoveryAssumption
<1>5. QED BY <1>1, <1>2, <1>3, <1>4 DEF Fits

(* A fork of the page is listed at its first place on it.                    *)
LEMMA ForksAre ==
    ASSUME NEW k \in Nat, DOMAIN call.nodes = 1..k
    PROVE  \A f : f \in Discovery!forks <=> f \in Listed(call.nodes) /\ BaseOf[f] = call.id
<1> DEFINE n == call.nodes
<1>1. ASSUME NEW i \in 1..k
      PROVE  \E j \in 1..k : n[j] = n[i] /\ ~Discovery!Seen(n, j)
  <2> DEFINE T == {j \in 1..k : n[j] = n[i]}
  <2>1. T \in SUBSET Nat /\ T # {} OBVIOUS
  <2>2. PICK j \in T : \A l \in T : j <= l
    <3> HIDE DEF T
    <3>1. QED BY <2>1, LeastOne
  <2>3. \A l \in 1..j - 1 : l \in 1..k /\ ~(j <= l) BY <2>2
  <2>4. QED BY <2>2, <2>3 DEF Discovery!Seen
<1>2. \A f : f \in Discovery!forks <=>
        \E j \in 1..k : n[j] = f /\ BaseOf[n[j]] = call.id /\ ~Discovery!Seen(n, j)
  BY DEF Discovery!forks
<1>3. \A f : f \in Listed(n) <=> \E j \in 1..k : n[j] = f
  BY DEF Listed
<1> HIDE DEF n
<1>4. QED BY <1>1, <1>2, <1>3 DEF n

(* An answer is honest when it is given.                                     *)
LEMMA AnswersHonestly ==
    ASSUME DiscoveryInv, NEW how, NEW list, Discovery!Reply(how, list),
           how # "ok" => list = <<>>,
           how = "ok" /\ call.tool = "list_fork_collections" =>
             /\ \A i, j \in DOMAIN list :
                  i < j => list[i] # list[j] /\ counts[list[i]] >= counts[list[j]]
             /\ \A i \in DOMAIN list : list[i] \in launched /\ BaseOf[list[i]] = call.id
             /\ Fits => {f \in call.known : BaseOf[f] = call.id} \subseteq Listed(list)
    PROVE  DiscoveryInv'
<1>1. /\ answer' = [tool |-> call.tool, id |-> call.id, outcome |-> how, list |-> list,
                    known |-> call.known, counts |-> counts]
      /\ call' = Discovery!NoCall /\ UNCHANGED <<launched, indexed, counts>>
  BY DEF Discovery!Reply
<1>2. IndexLags' BY <1>1 DEF DiscoveryInv, IndexLags
<1>3. CallAsksIndex' BY <1>1 DEF CallAsksIndex, Discovery!NoCall
<1>4. Discovery!ForksAreListed'
  <2>1. /\ answer'.tool = call.tool /\ answer'.id = call.id /\ answer'.outcome = how
        /\ answer'.list = list /\ answer'.known = call.known /\ answer'.counts = counts
    BY <1>1
  <2>2. Discovery!ToSet(list) = Listed(list) BY DEF Discovery!ToSet, Listed
  <2>3. Discovery!Cardinality(launched) <= Page <=> Fits BY DiscoveryCount DEF Fits
  <2>4. launched' = launched BY <1>1
  <2>5. QED BY <2>1, <2>2, <2>3, <2>4 DEF Discovery!ForksAreListed
<1>5. QED BY <1>2, <1>3, <1>4 DEF DiscoveryInv

(* ... and stays so while the chain grows.                                   *)
LEMMA AnswerStands ==
    ASSUME IndexLags, Discovery!ForksAreListed,
           answer' = answer, launched \subseteq launched', launched' \subseteq Forks
    PROVE  Discovery!ForksAreListed'
<1>1. Discovery!Cardinality(launched') <= Page => Discovery!Cardinality(launched) <= Page
  BY Growing, DiscoveryCount DEF Fits
<1>2. QED BY <1>1 DEF Discovery!ForksAreListed

LEMMA DiscoveryStep == DiscoveryInv /\ [Discovery!Next]_(Discovery!vars) => DiscoveryInv'
<1> SUFFICES ASSUME DiscoveryInv, [Discovery!Next]_(Discovery!vars) PROVE DiscoveryInv'
  OBVIOUS
<1> USE DEF DiscoveryInv
<1>1. ASSUME NEW f \in Forks, Discovery!Launch(f) \/ Discovery!IndexCatchesUp(f)
      PROVE  DiscoveryInv'
  <2>1. /\ launched \subseteq launched' /\ indexed \subseteq indexed'
        /\ UNCHANGED <<counts, call, answer>> /\ IndexLags'
    BY <1>1 DEF Discovery!Launch, Discovery!IndexCatchesUp, IndexLags
  <2>2. Fits' => Fits BY <2>1, Growing DEF IndexLags
  <2>3. CallAsksIndex' BY <2>1, <2>2 DEF CallAsksIndex
  <2>4. QED BY <2>1, <2>3, AnswerStands DEF IndexLags
<1>2. ASSUME UNCHANGED <<launched, indexed, call, answer>>, counts' \in [Forks -> Nat]
      PROVE  DiscoveryInv'
  <2>1. IndexLags' BY <1>2 DEF IndexLags
  <2>2. CallAsksIndex' BY <1>2 DEF CallAsksIndex, Fits
  <2>3. QED BY <1>2, <2>1, <2>2, AnswerStands DEF IndexLags
<1>3. ASSUME NEW f \in Forks, Discovery!Integrated(f) PROVE DiscoveryInv'
  BY <1>2, <1>3 DEF Discovery!Integrated, IndexLags
<1>4. CASE Discovery!Restart
  <2>1. IndexLags' BY <1>4 DEF Discovery!Restart, IndexLags
  <2>2. CallAsksIndex' BY <1>4 DEF Discovery!Restart, Discovery!NoCall, CallAsksIndex
  <2>3. launched' = launched /\ answer' = answer BY <1>4 DEF Discovery!Restart
  <2>4. QED BY <2>1, <2>2, <2>3, AnswerStands DEF IndexLags
<1>5. ASSUME NEW tool \in {"get_model", "list_fork_collections"}, NEW id \in Bases \cup Strange,
             Discovery!Call(tool, id)
      PROVE  DiscoveryInv'
  <2>1. /\ call' = [tool |-> tool, id |-> id,
                    step |-> IF tool = "get_model" THEN "object" ELSE "query",
                    nodes |-> <<>>, known |-> indexed]
        /\ answer' = Discovery!NoAnswer /\ UNCHANGED <<launched, indexed, counts>>
    BY <1>5 DEF Discovery!Call
  <2>2. IndexLags' BY <2>1 DEF IndexLags
  <2>3. CallAsksIndex' BY <2>1 DEF CallAsksIndex
  <2>4. Discovery!ForksAreListed' BY <2>1 DEF Discovery!ForksAreListed, Discovery!NoAnswer
  <2>5. QED BY <2>2, <2>3, <2>4
<1>6. CASE Discovery!BadToken \/ Discovery!QueryFails
  BY <1>6, AnswersHonestly DEF Discovery!BadToken, Discovery!QueryFails
<1>7. CASE Discovery!ObjectRead
  <2>1. call.tool = "get_model" BY <1>7 DEF Discovery!ObjectRead, CallAsksIndex
  <2>2. QED BY <1>7, <2>1, AnswersHonestly DEF Discovery!ObjectRead
<1>8. CASE Discovery!QueryAnswers
  <2>1. PICK s \in Discovery!Pages : call' = [call EXCEPT !.step = "name", !.nodes = s]
    BY <1>8 DEF Discovery!QueryAnswers
  <2>2. UNCHANGED <<launched, indexed, counts, answer>> BY <1>8 DEF Discovery!QueryAnswers
  <2>0. IsFiniteSet(launched) /\ IsFiniteSet(indexed) /\ indexed \in SUBSET launched
    BY <2>2, Growing DEF IndexLags
  <2> DEFINE size == IF Cardinality(indexed) < Page THEN Cardinality(indexed) ELSE Page
  <2>3. Cardinality(indexed) \in Nat /\ Page \in Nat /\ size \in Nat
    BY <2>0, FS_CardinalityType, ServicesAssumption DEF Discovery!DiscoveryAssumption
  <2>4. PICK k \in {size, size + 1} : s \in [1..k -> indexed]
    BY <2>1, DiscoveryCount DEF Discovery!Pages
  <2>5. Cardinality(Listed(s)) = size
    <3>1. Discovery!ToSet(s) = Listed(s) BY DEF Discovery!ToSet, Listed
    <3>2. QED BY <2>1, <3>1, DiscoveryCount DEF Discovery!Pages
  <2>6. k \in Nat /\ DOMAIN s = 1..k /\ Listed(s) \subseteq indexed BY <2>3, <2>4 DEF Listed
  <2>7. ASSUME Fits PROVE Listed(s) = indexed
    <3>1. Cardinality(indexed) <= Page
      <4>1. Cardinality(indexed) <= Cardinality(launched) BY <2>0, FS_Subset
      <4>2. Cardinality(launched) \in Nat BY <2>0, FS_CardinalityType
      <4>3. QED BY <2>3, <2>7, <4>1, <4>2 DEF Fits
    <3>2. Cardinality(Listed(s)) = Cardinality(indexed) BY <2>3, <2>5, <3>1
    <3>3. QED BY <2>0, <2>6, <3>2, FS_Subset
  <2>8. /\ call' = [tool |-> call.tool, id |-> call.id, step |-> "name", nodes |-> s,
                    known |-> call.known]
        /\ call.known \subseteq indexed
    BY <2>1 DEF CallAsksIndex
  <2> HIDE DEF size
  <2>9. CallAsksIndex'
    <3>1. /\ call'.tool = call.tool /\ call'.id = call.id /\ call'.step = "name"
          /\ call'.nodes = s /\ call'.known = call.known
      BY <2>8
    <3>2. Fits' = Fits /\ indexed' = indexed BY <2>2 DEF Fits
    <3>3. QED BY <2>6, <2>7, <2>8, <3>1, <3>2 DEF CallAsksIndex
  <2>10. IndexLags' BY <2>2 DEF IndexLags
  <2>11. QED BY <2>2, <2>9, <2>10, AnswerStands DEF IndexLags
<1>9. CASE Discovery!NameReads
  <2>1. call.step = "name" BY <1>9 DEF Discovery!NameReads
  <2>2. PICK list : /\ Discovery!ToSet(list) = Discovery!forks
                    /\ Discovery!Sorted(list) /\ Discovery!Reply("ok", list)
                    /\ list \in [1..Discovery!Cardinality(Discovery!forks) -> Discovery!forks]
    BY <1>9 DEF Discovery!NameReads
  <2>3. PICK k \in Nat : DOMAIN call.nodes = 1..k BY <2>1 DEF CallAsksIndex
  <2>4. \A f : f \in Listed(list) <=> f \in Listed(call.nodes) /\ BaseOf[f] = call.id
    BY <2>2, <2>3, ForksAre DEF Discovery!ToSet, Listed
  <2>5. \A i \in DOMAIN list : list[i] \in Listed(list) BY DEF Listed
  <2>6. Listed(call.nodes) \subseteq launched /\ launched \subseteq Forks
    BY <2>1 DEF CallAsksIndex, IndexLags
  <2>7. ASSUME NEW i \in DOMAIN list, NEW j \in DOMAIN list, i < j
        PROVE  list[i] # list[j] /\ counts[list[i]] >= counts[list[j]]
    <3>1. Discovery!Before(list[i], list[j]) BY <2>2, <2>7 DEF Discovery!Sorted
    <3>2. list[i] \in Forks /\ list[j] \in Forks BY <2>4, <2>5, <2>6
    <3>3. counts[list[i]] \in Nat /\ counts[list[j]] \in Nat BY <3>2 DEF IndexLags
    <3>4. list[i] \in Nat /\ list[j] \in Nat
      BY <3>2, ServicesAssumption DEF Discovery!DiscoveryAssumption
    <3>5. QED BY <3>1, <3>3, <3>4 DEF Discovery!Before
  <2>8. \A i \in DOMAIN list : list[i] \in launched /\ BaseOf[list[i]] = call.id
    BY <2>4, <2>5, <2>6
  <2>9. Fits => {f \in call.known : BaseOf[f] = call.id} \subseteq Listed(list)
    BY <2>1, <2>4 DEF CallAsksIndex
  <2>10. QED BY <2>2, <2>7, <2>8, <2>9, AnswersHonestly
<1>10. CASE UNCHANGED Discovery!vars
  <2>1. UNCHANGED <<launched, indexed, call, answer, counts>> BY <1>10 DEF Discovery!vars
  <2>2. QED BY <1>2, <2>1 DEF IndexLags
<1>11. QED
  BY <1>1, <1>3, <1>4, <1>5, <1>6, <1>7, <1>8, <1>9, <1>10 DEF Discovery!Next

(* What is served is what the chain holds: the lists of integrations miss    *)
(* nothing valid that was read, repeat nothing, invent nothing and keep the  *)
(* order of registration, over throws, restarts and pages read twice         *)
(* (integrationIndexer.ts); and the forks an agent is told are the model's,  *)
(* each once, the most integrated first (list_fork_collections).             *)
THEOREM ListsServeTheChain == ServicesSpec => []ServesTheChain
<1>1. ServicesInit => IndexInv /\ DiscoveryInv
  BY IndexStart, DiscoveryStart DEF ServicesInit
<1>2. IndexInv /\ [ServicesNext]_servicesVars => IndexInv'
  BY IndexStep, ServiceSteps
<1>3. DiscoveryInv /\ [ServicesNext]_servicesVars => DiscoveryInv'
  BY DiscoveryStep, ServiceSteps
<1>4. IndexInv /\ DiscoveryInv => ServesTheChain
  BY IndexServes DEF DiscoveryInv, ServesTheChain
<1>5. QED BY <1>1, <1>2, <1>3, <1>4, PTL DEF ServicesSpec

-----------------------------------------------------------------------------
(* The limiter of the MCP route.  Its tables are in the order of their ends, *)
(* each key is there once, and there are never more than MaxKeys.            *)
KeysIn(t) == IF t = "ip" THEN Ips ELSE Addresses

Ordered(T) ==
  \A i, j \in DOMAIN T : i < j => T[i].key # T[j].key /\ T[i].resetAt <= T[j].resetAt

TableKept(T, t) ==
  /\ T \in Seq(Limiter!Windows) /\ Len(T) <= MaxKeys /\ Ordered(T)
  /\ \A i \in DOMAIN T : T[i].key \in KeysIn(t) /\ T[i].resetAt <= limiterClock + WindowMs

RateTyped ==
  /\ Limiter!TypeOK
  /\ \A t \in Limiter!Tables : TableKept(hits[t], t)

(* The times A at which a key was let through, as windows: those of O opened *)
(* one, windows do not overlap, and each admits at most the limit.           *)
Paced(A, O, limit) ==
  /\ \A i \in DOMAIN A : \E o \in O : o <= i /\ i < o + limit
  /\ \A o, p \in O : o < p => A[o] + WindowMs <= A[p]

(* The key's windows are over, or the table holds the one that runs, and it  *)
(* has counted everything since it opened.                                   *)
Tracked(A, O, T, k, now) ==
  /\ \A i \in DOMAIN T : T[i].key = k /\ now < T[i].resetAt =>
        \E o \in O : T[i].resetAt = A[o] + WindowMs /\ Len(A) - o < T[i].count
  /\ \A o \in O : \/ A[o] + WindowMs <= now
                  \/ \E i \in DOMAIN T : T[i].key = k /\ now < T[i].resetAt

PacedKey(k) ==
  /\ \A i, j \in DOMAIN admitted[k] : i <= j => admitted[k][i] <= admitted[k][j]
  /\ \A i \in DOMAIN admitted[k] : admitted[k][i] <= limiterClock
  /\ k \notin evicted =>
       \E O \in SUBSET DOMAIN admitted[k] :
         /\ Paced(admitted[k], O, MaxPerWindow[Limiter!TableOf(k)])
         /\ Tracked(admitted[k], O, hits[Limiter!TableOf(k)], k, limiterClock)

RateInv == RateTyped /\ \A k \in Limiter!Keys : PacedKey(k)

LEMMA LimiterConstants ==
    /\ Ips \cap Addresses = {} /\ MaxKeys \in Nat \ {0} /\ WindowMs \in Nat \ {0}
    /\ MaxPerWindow["ip"] \in Nat \ {0} /\ MaxPerWindow["address"] \in Nat \ {0}
    /\ MaxClock \in Nat /\ MaxCalls \in Nat
    /\ Limiter!Tables = {"ip", "address"} /\ Limiter!Keys = Ips \cup Addresses
<1>1. Limiter!LimiterAssumption BY ServicesAssumption
<1>2. MaxPerWindow \in [{"ip", "address"} -> Nat \ {0}]
  BY <1>1 DEF Limiter!LimiterAssumption, Limiter!Tables
<1>3. QED BY <1>1, <1>2 DEF Limiter!LimiterAssumption, Limiter!Tables, Limiter!Keys

(* What the first m entries of a table leave: the recursive function in      *)
(* Keeping exists, and is this.                                              *)
KeptUpTo(T, table, kept, m) ==
    {f \in [0..m -> Seq(T)] :
        f[0] = <<>> /\ \A n \in 1..m :
            f[n] = IF n \in kept THEN Append(f[n - 1], table[n]) ELSE f[n - 1]}

LEMMA KeptExist ==
    ASSUME NEW T, NEW table \in Seq(T), NEW kept
    PROVE  KeptUpTo(T, table, kept, Len(table)) # {}
<1> DEFINE S == {k \in Nat : k <= Len(table) => KeptUpTo(T, table, kept, k) # {}}
<1>1. 0 \in S
  <2>1. [n \in 0..0 |-> <<>>] \in KeptUpTo(T, table, kept, 0) BY DEF KeptUpTo
  <2>2. QED BY <2>1
<1>2. ASSUME NEW k \in 0..Len(table) - 1, k \in S PROVE k + 1 \in S
  <2>1. k \in Nat /\ k + 1 \in 1..Len(table) /\ table[k + 1] \in T OBVIOUS
  <2>2. PICK f : f \in KeptUpTo(T, table, kept, k) BY <1>2, <2>1
  <2>3. f \in [0..k -> Seq(T)] /\ f[0] = <<>>
        /\ \A n \in 1..k : f[n] = IF n \in kept THEN Append(f[n - 1], table[n]) ELSE f[n - 1]
    BY <2>2 DEF KeptUpTo
  <2> DEFINE last == IF k + 1 \in kept THEN Append(f[k], table[k + 1]) ELSE f[k]
             g == [n \in 0..k + 1 |-> IF n <= k THEN f[n] ELSE last]
  <2>4. last \in Seq(T)
    <3>1. f[k] \in Seq(T) BY <2>1, <2>3
    <3>2. QED BY <2>1, <3>1
  <2> HIDE DEF last
  <2>5. g \in [0..k + 1 -> Seq(T)] BY <2>3, <2>4
  <2>6. g[0] = <<>> /\ g[k + 1] = last /\ \A n \in 0..k : g[n] = f[n] BY <2>1, <2>3
  <2>7. \A n \in 1..k + 1 :
          g[n] = IF n \in kept THEN Append(g[n - 1], table[n]) ELSE g[n - 1]
    <3> HIDE DEF g
    <3>1. ASSUME NEW n \in 1..k
          PROVE  g[n] = IF n \in kept THEN Append(g[n - 1], table[n]) ELSE g[n - 1]
      <4>1. n \in 0..k /\ n - 1 \in 0..k OBVIOUS
      <4>2. QED BY <4>1, <2>3, <2>6
    <3>2. (k + 1) - 1 = k /\ g[k] = f[k] BY <2>1, <2>6
    <3>3. g[k + 1] = IF k + 1 \in kept THEN Append(g[(k + 1) - 1], table[k + 1])
                     ELSE g[(k + 1) - 1]
      BY <3>2, <2>6 DEF last
    <3>4. \A n \in 1..k + 1 : n \in 1..k \/ n = k + 1 BY <2>1
    <3>5. QED BY <3>1, <3>3, <3>4
  <2>8. g \in KeptUpTo(T, table, kept, k + 1)
    <3> HIDE DEF g
    <3>1. QED BY <2>5, <2>6, <2>7 DEF KeptUpTo
  <2>9. QED BY <2>1, <2>8
<1>3. Len(table) \in Nat OBVIOUS
<1> HIDE DEF S
<1>4. 0..Len(table) \subseteq S BY <1>1, <1>2, <1>3, CountUp
<1>5. Len(table) \in S BY <1>3, <1>4
<1>6. QED BY <1>5 DEF S

LEMMA KeepingIsThis ==
    ASSUME NEW T, NEW table \in Seq(T), NEW kept
    PROVE  \E f \in KeptUpTo(T, table, kept, Len(table)) :
              Limiter!Keeping(table, kept) = f[Len(table)]
<1> DEFINE N == Len(table)
           A(f) == f = [n \in 0..N |->
                          IF n = 0 THEN <<>>
                          ELSE IF n \in kept THEN Append(f[n - 1], table[n]) ELSE f[n - 1]]
           h == CHOOSE g : A(g)
           S == {n \in Nat : n <= N => h[n] \in Seq(T)}
<1>0. N \in Nat /\ \A n \in 1..N : table[n] \in T OBVIOUS
<1>1. PICK f : f \in KeptUpTo(T, table, kept, N) BY KeptExist
<1>2. A(f)
  <2>1. f \in [0..N -> Seq(T)] /\ f[0] = <<>>
        /\ \A n \in 1..N : f[n] = IF n \in kept THEN Append(f[n - 1], table[n]) ELSE f[n - 1]
    BY <1>1 DEF KeptUpTo
  <2> HIDE DEF N
  <2>2. \A n \in 0..N : n = 0 \/ n \in 1..N BY <1>0
  <2>3. \A n \in 0..N : f[n] = IF n = 0 THEN <<>>
                               ELSE IF n \in kept THEN Append(f[n - 1], table[n]) ELSE f[n - 1]
    BY <1>0, <2>1, <2>2
  <2>4. QED BY <2>1, <2>3
<1>3. Limiter!Keeping(table, kept) = h[N] BY DEF Limiter!Keeping
<1>4. A(h) BY <1>2
<1> HIDE DEF h, N
<1>5. h[0] = <<>> /\ \A n \in 1..N :
          h[n] = IF n \in kept THEN Append(h[n - 1], table[n]) ELSE h[n - 1]
  <2>1. 0 \in 0..N /\ \A n \in 1..N : n \in 0..N /\ n # 0 BY <1>0
  <2>2. QED BY <1>4, <2>1
<1>6. 0 \in S
  <2>1. <<>> \in Seq(T) OBVIOUS
  <2>2. QED BY <1>5, <2>1
<1>7. ASSUME NEW n \in 0..N - 1, n \in S PROVE n + 1 \in S
  <2>1. n \in Nat /\ n <= N /\ n + 1 \in 1..N /\ (n + 1) - 1 = n BY <1>0
  <2>2. h[n] \in Seq(T) /\ table[n + 1] \in T BY <1>0, <1>7, <2>1
  <2>3. h[n + 1] = IF n + 1 \in kept THEN Append(h[n], table[n + 1]) ELSE h[n]
    BY <1>5, <2>1
  <2>4. h[n + 1] \in Seq(T) BY <2>2, <2>3
  <2>5. QED BY <2>1, <2>4
<1>8. 0..N \subseteq S
  <2> HIDE DEF S
  <2>1. QED BY <1>0, <1>6, <1>7, CountUp
<1>9. h \in [0..N -> Seq(T)]
  <2>1. \A n \in 0..N : h[n] \in Seq(T) BY <1>0, <1>8
  <2>2. QED BY <1>4, <2>1
<1>10. h \in KeptUpTo(T, table, kept, N) BY <1>5, <1>9 DEF KeptUpTo
<1>11. QED BY <1>3, <1>10 DEF N

(* A part of a table in its order: position i of the part is place[i].       *)
Places(s, table, place) ==
    /\ place \in [1..Len(s) -> 1..Len(table)]
    /\ \A i, j \in 1..Len(s) : i < j => place[i] < place[j]
    /\ \A i \in 1..Len(s) : s[i] = table[place[i]]

(* What is kept is the entries at the positions kept, in their order, and    *)
(* fewer than there were when a position is not kept.                        *)
LEMMA KeepingThins ==
    ASSUME NEW T, NEW table \in Seq(T), NEW kept
    PROVE  LET s == Limiter!Keeping(table, kept)
           IN  /\ s \in Seq(T) /\ Len(s) <= Len(table)
               /\ DOMAIN table \subseteq kept \/ Len(s) < Len(table)
               /\ \E place : /\ Places(s, table, place)
                             /\ \A i \in 1..Len(s) : place[i] \in kept
                             /\ \A j \in DOMAIN table \cap kept :
                                  \E i \in 1..Len(s) : place[i] = j
<1> DEFINE Shorter(s, n) == Len(s) <= n /\ (1..n \subseteq kept \/ Len(s) < n)
           IsKept(s, n, place) ==
             /\ place \in [1..Len(s) -> (1..n) \cap kept]
             /\ \A i, j \in 1..Len(s) : i < j => place[i] < place[j]
             /\ \A i \in 1..Len(s) : s[i] = table[place[i]]
             /\ \A j \in (1..n) \cap kept : \E i \in 1..Len(s) : place[i] = j
<1>0. Len(table) \in Nat /\ DOMAIN table = 1..Len(table) OBVIOUS
<1>1. PICK f \in KeptUpTo(T, table, kept, Len(table)) :
          Limiter!Keeping(table, kept) = f[Len(table)]
  BY KeepingIsThis
<1>2. /\ f \in [0..Len(table) -> Seq(T)] /\ f[0] = <<>>
      /\ \A n \in 1..Len(table) :
            f[n] = IF n \in kept THEN Append(f[n - 1], table[n]) ELSE f[n - 1]
  BY <1>1 DEF KeptUpTo
<1> DEFINE S == {n \in Nat : n <= Len(table) =>
                    Shorter(f[n], n) /\ \E place : IsKept(f[n], n, place)}
<1>3. 0 \in S
  <2>1. IsKept(<<>>, 0, [i \in 1..0 |-> i]) OBVIOUS
  <2>2. Shorter(<<>>, 0) OBVIOUS
  <2> HIDE DEF IsKept, Shorter
  <2>3. QED BY <1>2, <2>1, <2>2
<1>4. ASSUME NEW n \in 0..Len(table) - 1, n \in S PROVE n + 1 \in S
  <2>1. n \in Nat /\ n <= Len(table) /\ n + 1 \in 1..Len(table) /\ (n + 1) - 1 = n
    BY <1>0
  <2>2. Shorter(f[n], n) BY <1>4, <2>1
  <2>3. PICK place : IsKept(f[n], n, place) BY <1>4, <2>1
  <2>4. f[n] \in Seq(T) /\ f[n + 1] = IF n + 1 \in kept THEN Append(f[n], table[n + 1]) ELSE f[n]
    BY <1>2, <2>1
  <2> DEFINE s == f[n]
  <2>5. s \in Seq(T) /\ Len(s) \in Nat /\ DOMAIN s = 1..Len(s) BY <2>4
  <2>6. Shorter(s, n) /\ IsKept(s, n, place) BY <2>2, <2>3
  <2> HIDE DEF s
  <2>7. CASE n + 1 \notin kept
    <3>1. (1..n + 1) \cap kept = (1..n) \cap kept BY <2>1, <2>7
    <3>2. f[n + 1] = s BY <2>4, <2>7 DEF s
    <3>3. IsKept(s, n + 1, place) BY <2>6, <3>1
    <3>4. Shorter(s, n + 1) BY <2>1, <2>5, <2>6
    <3> HIDE DEF IsKept, Shorter
    <3>5. QED BY <2>1, <3>2, <3>3, <3>4
  <2>8. CASE n + 1 \in kept
    <3> DEFINE r == Append(s, table[n + 1])
               longer == [i \in 1..Len(s) + 1 |-> IF i <= Len(s) THEN place[i] ELSE n + 1]
    <3>1. f[n + 1] = r BY <2>4, <2>8 DEF s
    <3>2. (1..n + 1) \cap kept = ((1..n) \cap kept) \cup {n + 1} BY <2>1, <2>8
    <3>3. /\ Len(r) = Len(s) + 1 /\ r[Len(s) + 1] = table[n + 1]
          /\ \A i \in 1..Len(s) : r[i] = s[i]
      <4>1. table[n + 1] \in T BY <2>1
      <4>2. QED BY <2>5, <4>1
    <3> HIDE DEF r
    <3>4. /\ longer \in [1..Len(s) + 1 -> ((1..n) \cap kept) \cup {n + 1}]
          /\ longer[Len(s) + 1] = n + 1 /\ \A i \in 1..Len(s) : longer[i] = place[i]
      BY <2>5, <2>6
    <3> HIDE DEF longer
    <3>5. \A i \in 1..Len(s) + 1 : i \in 1..Len(s) \/ i = Len(s) + 1 BY <2>5
    <3>6. \A i, j \in 1..Len(s) + 1 : i < j => longer[i] < longer[j]
      <4> SUFFICES ASSUME NEW i \in 1..Len(s) + 1, NEW j \in 1..Len(s) + 1, i < j
                   PROVE  longer[i] < longer[j]
        OBVIOUS
      <4>1. i \in 1..Len(s) /\ longer[i] = place[i] /\ place[i] \in 1..n BY <2>5, <2>6, <3>4
      <4>2. CASE j \in 1..Len(s) BY <2>6, <3>4, <4>1, <4>2
      <4>3. CASE j = Len(s) + 1 BY <3>4, <4>1, <4>3
      <4>4. QED BY <3>5, <4>2, <4>3
    <3>7. \A i \in 1..Len(s) + 1 : r[i] = table[longer[i]] BY <2>6, <3>3, <3>4, <3>5
    <3>8. \A j \in ((1..n) \cap kept) \cup {n + 1} : \E i \in 1..Len(s) + 1 : longer[i] = j
      <4>1. 1..Len(s) \subseteq 1..Len(s) + 1 /\ Len(s) + 1 \in 1..Len(s) + 1 BY <2>5
      <4>2. QED BY <2>6, <3>4, <4>1
    <3>9. IsKept(r, n + 1, longer) BY <3>2, <3>3, <3>4, <3>6, <3>7, <3>8
    <3>10. Shorter(r, n + 1)
      <4>1. Len(r) <= n + 1 BY <2>1, <2>5, <2>6, <3>3
      <4>2. 1..n \subseteq kept => 1..n + 1 \subseteq kept BY <2>1, <2>8
      <4>3. CASE 1..n \subseteq kept BY <4>1, <4>2, <4>3
      <4>4. CASE Len(s) < n BY <2>1, <2>5, <3>3, <4>1, <4>4
      <4>5. QED BY <2>6, <4>3, <4>4
    <3> HIDE DEF IsKept, Shorter
    <3>11. QED BY <2>1, <3>1, <3>9, <3>10
  <2>9. QED BY <2>7, <2>8
<1>5. Len(table) \in S
  <2> HIDE DEF S
  <2>1. 0..Len(table) \subseteq S BY <1>0, <1>3, <1>4, CountUp
  <2>2. QED BY <1>0, <2>1
<1> DEFINE s == Limiter!Keeping(table, kept)
<1>6. s = f[Len(table)] /\ s \in Seq(T) BY <1>0, <1>1, <1>2
<1> HIDE DEF s
<1>7. Shorter(s, Len(table)) BY <1>0, <1>5, <1>6
<1>8. PICK place : IsKept(s, Len(table), place) BY <1>0, <1>5, <1>6
<1>9. /\ Places(s, table, place) /\ \A i \in 1..Len(s) : place[i] \in kept
      /\ \A j \in DOMAIN table \cap kept : \E i \in 1..Len(s) : place[i] = j
  BY <1>0, <1>8 DEF Places
<1>10. QED BY <1>0, <1>6, <1>7, <1>9 DEF s

LEMMA PartOfPart ==
    ASSUME NEW T, NEW table \in Seq(T), NEW s \in Seq(T), NEW r \in Seq(T),
           NEW f, NEW g, Places(s, table, f), Places(r, s, g)
    PROVE  Places(r, table, [i \in 1..Len(r) |-> f[g[i]]])
<1> DEFINE h == [i \in 1..Len(r) |-> f[g[i]]]
<1>1. Len(r) \in Nat /\ Len(s) \in Nat /\ Len(table) \in Nat OBVIOUS
<1>2. /\ f \in [1..Len(s) -> 1..Len(table)]
      /\ \A i, j \in 1..Len(s) : i < j => f[i] < f[j]
      /\ \A i \in 1..Len(s) : s[i] = table[f[i]]
  BY DEF Places
<1>3. /\ g \in [1..Len(r) -> 1..Len(s)]
      /\ \A i, j \in 1..Len(r) : i < j => g[i] < g[j]
      /\ \A i \in 1..Len(r) : r[i] = s[g[i]]
  BY DEF Places
<1>4. \A i \in 1..Len(r) : h[i] = f[g[i]] /\ g[i] \in 1..Len(s) BY <1>3
<1>5. h \in [1..Len(r) -> 1..Len(table)] BY <1>2, <1>3
<1> HIDE DEF h
<1>6. \A i, j \in 1..Len(r) : i < j => h[i] < h[j] BY <1>2, <1>3, <1>4
<1>7. \A i \in 1..Len(r) : r[i] = table[h[i]] BY <1>2, <1>3, <1>4
<1>8. QED BY <1>5, <1>6, <1>7 DEF Places, h

LEMMA PartKept ==
    ASSUME NEW t, NEW table, TableKept(table, t), NEW s \in Seq(Limiter!Windows),
           Len(s) <= Len(table), NEW place, Places(s, table, place)
    PROVE  TableKept(s, t)
<1>1. /\ table \in Seq(Limiter!Windows) /\ Len(table) <= MaxKeys
      /\ \A i, j \in DOMAIN table :
            i < j => table[i].key # table[j].key /\ table[i].resetAt <= table[j].resetAt
      /\ \A i \in DOMAIN table :
            table[i].key \in KeysIn(t) /\ table[i].resetAt <= limiterClock + WindowMs
  BY DEF TableKept, Ordered
<1>2. Len(s) \in Nat /\ Len(table) \in Nat /\ DOMAIN s = 1..Len(s) /\ DOMAIN table = 1..Len(table)
  BY <1>1
<1>3. /\ \A i \in 1..Len(s) : place[i] \in 1..Len(table) /\ s[i] = table[place[i]]
      /\ \A i, j \in 1..Len(s) : i < j => place[i] < place[j]
  BY DEF Places
<1>4. Len(s) <= MaxKeys BY <1>1, <1>2, LimiterConstants
<1>5. Ordered(s) BY <1>1, <1>2, <1>3 DEF Ordered
<1>6. \A i \in DOMAIN s : s[i].key \in KeysIn(t) /\ s[i].resetAt <= limiterClock + WindowMs
  BY <1>1, <1>2, <1>3
<1>7. QED BY <1>4, <1>5, <1>6 DEF TableKept

(* What a sweep leaves of a table: exactly the windows that still run.       *)
LEMMA SweptPart ==
    ASSUME NEW t, NEW table, TableKept(table, t)
    PROVE  LET s == Limiter!Swept(table)
           IN  /\ s \in Seq(Limiter!Windows) /\ Len(s) <= Len(table)
               /\ (\A j \in DOMAIN table : Limiter!Live(table[j])) \/ Len(s) < Len(table)
               /\ \E place : /\ Places(s, table, place)
                             /\ \A i \in 1..Len(s) : Limiter!Live(s[i])
                             /\ \A j \in DOMAIN table : Limiter!Live(table[j]) =>
                                  \E i \in 1..Len(s) : place[i] = j
<1> DEFINE kept == {i \in DOMAIN table : Limiter!Live(table[i])}
           s == Limiter!Keeping(table, kept)
<1>1. Limiter!Swept(table) = s BY DEF Limiter!Swept
<1>2. table \in Seq(Limiter!Windows) BY DEF TableKept
<1> HIDE DEF s
<1>3. /\ s \in Seq(Limiter!Windows) /\ Len(s) <= Len(table)
      /\ DOMAIN table \subseteq kept \/ Len(s) < Len(table)
      /\ \E place : /\ Places(s, table, place)
                    /\ \A i \in 1..Len(s) : place[i] \in kept
                    /\ \A j \in DOMAIN table \cap kept : \E i \in 1..Len(s) : place[i] = j
  BY <1>2, KeepingThins DEF s
<1>4. PICK place : /\ Places(s, table, place)
                   /\ \A i \in 1..Len(s) : place[i] \in kept
                   /\ \A j \in DOMAIN table \cap kept : \E i \in 1..Len(s) : place[i] = j
  BY <1>3
<1>5. \A i \in 1..Len(s) : Limiter!Live(s[i]) BY <1>4 DEF Places
<1>6. \A j \in DOMAIN table : Limiter!Live(table[j]) => \E i \in 1..Len(s) : place[i] = j
  BY <1>4
<1>7. QED BY <1>1, <1>3, <1>4, <1>5, <1>6

(* Making room leaves room; a running window that is lost was the one that   *)
(* ends first, of a table full of running windows.                           *)
Stalest(table, j) ==
    /\ Len(table) = MaxKeys
    /\ \A l \in DOMAIN table : Limiter!Live(table[l]) /\ table[j].resetAt <= table[l].resetAt

LEMMA RoomIsMade ==
    ASSUME NEW t, NEW table, TableKept(table, t), limiterClock \in Nat
    PROVE  LET r == Limiter!WithRoom(table)
           IN  /\ r \in Seq(Limiter!Windows) /\ Len(r) <= Len(table) /\ Len(r) < MaxKeys
               /\ \E place : /\ Places(r, table, place)
                             /\ \A j \in DOMAIN table : Limiter!Live(table[j]) =>
                                  \/ \E i \in 1..Len(r) : place[i] = j
                                  \/ Stalest(table, j)
<1>1. table \in Seq(Limiter!Windows) /\ Len(table) \in Nat /\ DOMAIN table = 1..Len(table)
      /\ Len(table) <= MaxKeys /\ MaxKeys \in Nat \ {0}
  BY LimiterConstants DEF TableKept
<1>2. CASE Len(table) < MaxKeys
  <2>1. Limiter!WithRoom(table) = table BY <1>2 DEF Limiter!WithRoom
  <2> DEFINE id == [i \in 1..Len(table) |-> i]
  <2>2. Places(table, table, id) BY <1>1 DEF Places
  <2>3. \A j \in DOMAIN table : \E i \in 1..Len(table) : id[i] = j BY <1>1
  <2> HIDE DEF id
  <2>4. QED BY <1>1, <1>2, <2>1, <2>2, <2>3
<1>3. CASE ~(Len(table) < MaxKeys)
  <2> DEFINE s == Limiter!Swept(table)
             excess == IF Len(s) < MaxKeys THEN 0 ELSE Len(s) - MaxKeys + 1
             r == SubSeq(s, excess + 1, Len(s))
  <2>1. Limiter!WithRoom(table) = r BY <1>3 DEF Limiter!WithRoom
  <2> HIDE DEF s
  <2>2. Len(table) = MaxKeys
    <3>1. Len(table) \in Int /\ MaxKeys \in Int /\ Len(table) <= MaxKeys BY <1>1
    <3>2. \A m, n \in Int : m <= n /\ ~(m < n) => m = n OBVIOUS
    <3>3. QED BY <1>3, <3>1, <3>2
  <2>3. /\ s \in Seq(Limiter!Windows) /\ Len(s) <= Len(table)
        /\ (\A j \in DOMAIN table : Limiter!Live(table[j])) \/ Len(s) < Len(table)
        /\ \E place : /\ Places(s, table, place)
                      /\ \A i \in 1..Len(s) : Limiter!Live(s[i])
                      /\ \A j \in DOMAIN table : Limiter!Live(table[j]) =>
                            \E i \in 1..Len(s) : place[i] = j
    BY SweptPart DEF s
  <2>4. PICK f : /\ Places(s, table, f)
                 /\ \A i \in 1..Len(s) : Limiter!Live(s[i])
                 /\ \A j \in DOMAIN table : Limiter!Live(table[j]) =>
                       \E i \in 1..Len(s) : f[i] = j
    BY <2>3
  <2>5. Len(s) \in Nat /\ DOMAIN s = 1..Len(s) BY <2>3
  <2>6. /\ f \in [1..Len(s) -> 1..Len(table)]
        /\ \A i, j \in 1..Len(s) : i < j => f[i] < f[j]
        /\ \A i \in 1..Len(s) : s[i] = table[f[i]]
    BY <2>4 DEF Places
  <2>7. CASE Len(s) < MaxKeys
    <3>1. r = s BY <2>3, <2>5, <2>7
    <3> HIDE DEF r
    <3>2. QED BY <1>1, <2>1, <2>3, <2>4, <2>7, <3>1
  <2>8. CASE ~(Len(s) < MaxKeys)
    <3>1. Len(s) = MaxKeys BY <1>1, <2>2, <2>3, <2>5, <2>8
    <3>2. r = SubSeq(s, 2, Len(s)) BY <1>1, <2>5, <2>8, <3>1
    <3> HIDE DEF r
    <3>3. /\ r \in Seq(Limiter!Windows) /\ Len(r) = Len(s) - 1
          /\ \A i \in 1..Len(r) : r[i] = s[i + 1]
      BY <1>1, <2>3, <2>5, <3>1, <3>2
    <3> DEFINE g == [i \in 1..Len(r) |-> i + 1]
    <3>4. Places(r, s, g) BY <2>5, <3>1, <3>3, <1>1 DEF Places
    <3> DEFINE h == [i \in 1..Len(r) |-> f[g[i]]]
    <3>5. Places(r, table, h)
      <4> HIDE DEF g
      <4>1. r \in Seq(Limiter!Windows) /\ s \in Seq(Limiter!Windows)
            /\ table \in Seq(Limiter!Windows)
        BY <1>1, <2>3, <3>3
      <4>2. Places(s, table, f) BY <2>4
      <4>3. QED BY <3>4, <4>1, <4>2, PartOfPart
    <3>6. ASSUME NEW j \in DOMAIN table, Limiter!Live(table[j])
          PROVE  (\E i \in 1..Len(r) : h[i] = j) \/ Stalest(table, j)
      <4>1. PICK i \in 1..Len(s) : f[i] = j BY <2>4, <3>6
      <4>2. CASE i = 1
        <5>1. \A l \in DOMAIN table : Limiter!Live(table[l])
          BY <1>1, <2>2, <2>3, <2>5, <3>1
        <5>2. \A l \in DOMAIN table : table[j].resetAt <= table[l].resetAt
          <6> SUFFICES ASSUME NEW l \in DOMAIN table PROVE table[j].resetAt <= table[l].resetAt
            OBVIOUS
          <6>1. PICK m \in 1..Len(s) : f[m] = l BY <2>4, <5>1
          <6>2. m = 1 \/ f[1] < f[m] BY <2>5, <2>6, <6>1
          <6>3. \A a, b \in DOMAIN table : a < b => table[a].resetAt <= table[b].resetAt
            BY DEF TableKept, Ordered
          <6>4. table[j] \in Limiter!Windows BY <1>1
          <6> table[j].resetAt \in Nat BY <6>4 DEF Limiter!Windows
          <6>5. l = j \/ j < l BY <4>1, <4>2, <6>1, <6>2
          <6>6. QED BY <6>3, <6>4, <6>5
        <5>3. QED BY <2>2, <5>1, <5>2 DEF Stalest
      <4>3. CASE i # 1
        <5>1. i - 1 \in 1..Len(r) /\ g[i - 1] = i BY <2>5, <3>3, <4>3
        <5>2. h[i - 1] = j BY <4>1, <5>1
        <5>3. QED BY <5>1, <5>2
      <4>4. QED BY <4>2, <4>3
    <3> HIDE DEF h
    <3>7. Len(r) <= Len(table) /\ Len(r) < MaxKeys BY <1>1, <2>2, <2>5, <3>1, <3>3
    <3>8. QED BY <2>1, <3>3, <3>5, <3>6, <3>7
  <2>9. QED BY <2>7, <2>8
<1>4. QED BY <1>2, <1>3

(* A request that opens a window: the key's window is the last of the table, *)
(* the others were there, and a running one is lost only as the stalest.     *)
Opened(k) == [key |-> k, count |-> 1, resetAt |-> limiterClock + WindowMs]

LEMMA ChargeOpens ==
    ASSUME NEW t \in Limiter!Tables, NEW table, TableKept(table, t), NEW k \in KeysIn(t),
           limiterClock \in Nat, Limiter!Opens(table, k)
    PROVE  LET after == Limiter!Charge(table, k)
           IN  /\ TableKept(after, t)
               /\ \E i \in DOMAIN after : after[i] = Opened(k)
               /\ \A i \in DOMAIN after :
                    \/ after[i] = Opened(k)
                    \/ after[i].key # k /\ \E j \in DOMAIN table : after[i] = table[j]
               /\ \A j \in DOMAIN table :
                    Limiter!Live(table[j]) /\ Limiter!Entry(after, table[j].key) = {}
                      => Stalest(table, j)
<1> DEFINE room == IF Limiter!Entry(table, k) = {} THEN Limiter!WithRoom(table) ELSE table
           rest == Limiter!Without(room, k)
           after == Append(rest, Opened(k))
<1>1. Limiter!Charge(table, k) = after BY DEF Limiter!Charge, Opened
<1>2. table \in Seq(Limiter!Windows) /\ Len(table) \in Nat /\ DOMAIN table = 1..Len(table)
      /\ Len(table) <= MaxKeys /\ MaxKeys \in Nat \ {0} /\ WindowMs \in Nat \ {0}
  BY LimiterConstants DEF TableKept
<1>3. /\ room \in Seq(Limiter!Windows) /\ Len(room) <= Len(table)
      /\ Limiter!Entry(table, k) = {} => Len(room) < MaxKeys
      /\ Limiter!Entry(table, k) # {} => room = table
      /\ \E place : /\ Places(room, table, place)
                    /\ \A j \in DOMAIN table : Limiter!Live(table[j]) =>
                         \/ \E i \in 1..Len(room) : place[i] = j
                         \/ Stalest(table, j)
  <2>1. CASE Limiter!Entry(table, k) = {}
    <3>1. room = Limiter!WithRoom(table) BY <2>1
    <3> HIDE DEF room
    <3>2. QED BY <2>1, <3>1, RoomIsMade
  <2>2. CASE Limiter!Entry(table, k) # {}
    <3>1. room = table BY <2>2
    <3> HIDE DEF room
    <3> DEFINE id == [i \in 1..Len(table) |-> i]
    <3>2. Places(table, table, id) BY <1>2 DEF Places
    <3>3. \A j \in DOMAIN table : \E i \in 1..Len(table) : id[i] = j BY <1>2
    <3> HIDE DEF id
    <3>4. QED BY <1>2, <2>2, <3>1, <3>2, <3>3
  <2>3. QED BY <2>1, <2>2
<1> HIDE DEF room
<1>4. PICK f : /\ Places(room, table, f)
               /\ \A j \in DOMAIN table : Limiter!Live(table[j]) =>
                     \/ \E i \in 1..Len(room) : f[i] = j
                     \/ Stalest(table, j)
  BY <1>3
<1>5. TableKept(room, t) BY <1>3, <1>4, PartKept
<1> DEFINE kept == DOMAIN room \ Limiter!Entry(room, k)
<1>6. rest = Limiter!Keeping(room, kept) BY DEF Limiter!Without
<1> HIDE DEF rest
<1>7. /\ rest \in Seq(Limiter!Windows) /\ Len(rest) <= Len(room)
      /\ DOMAIN room \subseteq kept \/ Len(rest) < Len(room)
      /\ \E place : /\ Places(rest, room, place)
                    /\ \A i \in 1..Len(rest) : place[i] \in kept
                    /\ \A j \in DOMAIN room \cap kept : \E i \in 1..Len(rest) : place[i] = j
  <2> HIDE DEF kept
  <2>1. QED BY <1>3, <1>6, KeepingThins
<1>8. PICK g : /\ Places(rest, room, g)
               /\ \A i \in 1..Len(rest) : g[i] \in kept
               /\ \A j \in DOMAIN room \cap kept : \E i \in 1..Len(rest) : g[i] = j
  BY <1>7
<1>9. TableKept(rest, t) BY <1>5, <1>7, <1>8, PartKept
<1>10. /\ Len(rest) \in Nat /\ DOMAIN rest = 1..Len(rest)
       /\ Len(room) \in Nat /\ DOMAIN room = 1..Len(room)
  BY <1>3, <1>7
<1>11. Len(rest) < MaxKeys
  <2>1. CASE Limiter!Entry(table, k) = {} BY <1>2, <1>3, <1>7, <1>10, <2>1
  <2>2. CASE Limiter!Entry(table, k) # {}
    <3>1. room = table BY <1>3, <2>2
    <3>2. \E i \in DOMAIN room : i \notin kept BY <2>2, <3>1 DEF Limiter!Entry
    <3>3. Len(rest) < Len(room) BY <1>7, <3>2
    <3>4. QED BY <1>2, <1>10, <3>1, <3>3
  <2>3. QED BY <2>1, <2>2
<1>12. \A i \in 1..Len(rest) : rest[i].key # k
  BY <1>8 DEF Places, Limiter!Entry
<1>13. Opened(k) \in Limiter!Windows /\ Opened(k).key = k
       /\ Opened(k).resetAt = limiterClock + WindowMs
  <2>1. k \in Limiter!Keys BY LimiterConstants DEF KeysIn
  <2>2. QED BY <1>2, <2>1 DEF Opened, Limiter!Windows
<1>14. /\ after \in Seq(Limiter!Windows) /\ Len(after) = Len(rest) + 1
       /\ DOMAIN after = 1..Len(rest) + 1 /\ after[Len(rest) + 1] = Opened(k)
       /\ \A i \in 1..Len(rest) : after[i] = rest[i]
  BY <1>7, <1>10, <1>13
<1> HIDE DEF after, kept
<1>15. \A i \in DOMAIN after : i \in 1..Len(rest) \/ i = Len(rest) + 1 BY <1>10, <1>14
<1>16. TableKept(after, t)
  <2>1. /\ \A i, j \in 1..Len(rest) :
             i < j => rest[i].key # rest[j].key /\ rest[i].resetAt <= rest[j].resetAt
        /\ \A i \in 1..Len(rest) :
             rest[i].key \in KeysIn(t) /\ rest[i].resetAt <= limiterClock + WindowMs
    BY <1>9, <1>10 DEF TableKept, Ordered
  <2>2. Len(after) <= MaxKeys BY <1>2, <1>10, <1>11, <1>14
  <2>3. Ordered(after)
    <3> SUFFICES ASSUME NEW i \in DOMAIN after, NEW j \in DOMAIN after, i < j
                 PROVE  after[i].key # after[j].key /\ after[i].resetAt <= after[j].resetAt
      BY DEF Ordered
    <3>1. i \in 1..Len(rest) /\ after[i] = rest[i] BY <1>10, <1>14
    <3>2. CASE j \in 1..Len(rest) BY <1>14, <2>1, <3>1, <3>2
    <3>3. CASE j = Len(rest) + 1 BY <1>12, <1>13, <1>14, <2>1, <3>1, <3>3
    <3>4. QED BY <1>15, <3>2, <3>3
  <2>4. \A i \in DOMAIN after :
           after[i].key \in KeysIn(t) /\ after[i].resetAt <= limiterClock + WindowMs
    BY <1>2, <1>13, <1>14, <1>15, <2>1
  <2>5. QED BY <1>14, <2>2, <2>3, <2>4 DEF TableKept
<1>17. \E i \in DOMAIN after : after[i] = Opened(k) BY <1>10, <1>14
<1>18. \A i \in DOMAIN after :
         \/ after[i] = Opened(k)
         \/ after[i].key # k /\ \E j \in DOMAIN table : after[i] = table[j]
  <2> SUFFICES ASSUME NEW i \in 1..Len(rest)
               PROVE  after[i].key # k /\ \E j \in DOMAIN table : after[i] = table[j]
    BY <1>14, <1>15
  <2>1. after[i] = rest[i] /\ rest[i] = room[g[i]] /\ g[i] \in 1..Len(room)
    BY <1>8, <1>14 DEF Places
  <2>2. room[g[i]] = table[f[g[i]]] /\ f[g[i]] \in 1..Len(table) BY <1>4, <2>1 DEF Places
  <2>3. QED BY <1>2, <1>12, <2>1, <2>2
<1>19. ASSUME NEW j \in DOMAIN table, Limiter!Live(table[j]),
              Limiter!Entry(after, table[j].key) = {}
       PROVE  Stalest(table, j)
  <2> SUFFICES ASSUME NEW i \in 1..Len(room), f[i] = j PROVE FALSE
    BY <1>4, <1>19
  <2>1. room[i] = table[j] BY <1>4 DEF Places
  <2>2. table[j].key # k BY <1>13, <1>17, <1>19 DEF Limiter!Entry
  <2>3. i \in kept BY <1>10, <2>1, <2>2 DEF kept, Limiter!Entry
  <2>4. PICK n \in 1..Len(rest) : g[n] = i BY <1>8, <1>10, <2>3
  <2>5. after[n] = table[j] /\ n \in DOMAIN after BY <1>8, <1>10, <1>14, <2>1, <2>4 DEF Places
  <2>6. QED BY <1>19, <2>5 DEF Limiter!Entry
<1>20. QED BY <1>1, <1>16, <1>17, <1>18, <1>19

(* A request in a window that runs: it is counted, and nothing else changes. *)
LEMMA ChargeCounts ==
    ASSUME NEW t \in Limiter!Tables, NEW table, TableKept(table, t), NEW k \in KeysIn(t),
           ~Limiter!Opens(table, k)
    PROVE  LET after == Limiter!Charge(table, k)
           IN  /\ TableKept(after, t) /\ DOMAIN after = DOMAIN table
               /\ \A i \in DOMAIN table :
                    /\ after[i].key = table[i].key /\ after[i].resetAt = table[i].resetAt
                    /\ after[i].count = IF table[i].key = k THEN table[i].count + 1
                                        ELSE table[i].count
<1> DEFINE bumped(i) == [key |-> table[i].key, count |-> table[i].count + 1,
                       resetAt |-> table[i].resetAt]
           after == [i \in DOMAIN table |-> IF table[i].key = k THEN bumped(i) ELSE table[i]]
<1>1. table \in Seq(Limiter!Windows) /\ Len(table) \in Nat /\ DOMAIN table = 1..Len(table)
  BY DEF TableKept
<1>2. \A i \in DOMAIN table : table[i] \in Limiter!Windows BY <1>1
<1>3. \A i \in DOMAIN table : [table[i] EXCEPT !.count = table[i].count + 1] = bumped(i)
  BY <1>2 DEF Limiter!Windows
<1>4. Limiter!Charge(table, k) = after
  <2>1. Limiter!Charge(table, k) =
          [i \in DOMAIN table |-> IF table[i].key = k
             THEN [table[i] EXCEPT !.count = table[i].count + 1] ELSE table[i]]
    BY DEF Limiter!Charge
  <2> HIDE DEF bumped
  <2>2. QED BY <1>3, <2>1
<1>5. \A i \in DOMAIN table :
        /\ bumped(i) \in Limiter!Windows /\ bumped(i).key = table[i].key
        /\ bumped(i).resetAt = table[i].resetAt /\ bumped(i).count = table[i].count + 1
  BY <1>2 DEF Limiter!Windows
<1> HIDE DEF bumped
<1>6. after \in [1..Len(table) -> Limiter!Windows] BY <1>1, <1>2, <1>5
<1>7. DOMAIN after = DOMAIN table
      /\ \A i \in DOMAIN table :
           /\ after[i].key = table[i].key /\ after[i].resetAt = table[i].resetAt
           /\ after[i].count = IF table[i].key = k THEN table[i].count + 1
                               ELSE table[i].count
  BY <1>5
<1> HIDE DEF after
<1>8. after \in Seq(Limiter!Windows) /\ Len(after) = Len(table) BY <1>1, <1>6
<1>9. TableKept(after, t)
  <2>1. Ordered(after) BY <1>7 DEF TableKept, Ordered
  <2>2. QED BY <1>7, <1>8, <2>1 DEF TableKept
<1>10. QED BY <1>4, <1>7, <1>9

(* One window of a key at most.                                              *)
LEMMA OneWindow ==
    ASSUME NEW t, NEW T, TableKept(T, t), NEW i \in DOMAIN T, NEW j \in DOMAIN T,
           T[i].key = T[j].key
    PROVE  i = j
<1>1. T \in Seq(Limiter!Windows) BY DEF TableKept
<1>2. i \in Nat /\ j \in Nat BY <1>1
<1>3. QED BY <1>2 DEF TableKept, Ordered

(* A key's record fits a table that has the same running window of the key,  *)
(* if any, with no smaller a count.                                          *)
LEMMA TrackedAlong ==
    ASSUME NEW A, NEW O, NEW T, NEW k, Tracked(A, O, T, k, limiterClock),
           A \in Seq(Nat), O \subseteq DOMAIN A, T \in Seq(Limiter!Windows),
           NEW U, U \in Seq(Limiter!Windows), limiterClock \in Nat,
           \A i \in DOMAIN U : U[i].key = k /\ Limiter!Live(U[i]) =>
              \E j \in DOMAIN T : /\ T[j].key = k /\ U[i].resetAt = T[j].resetAt
                                  /\ T[j].count <= U[i].count,
           \A j \in DOMAIN T : T[j].key = k /\ Limiter!Live(T[j]) =>
              \E i \in DOMAIN U : U[i].key = k /\ Limiter!Live(U[i])
    PROVE  Tracked(A, O, U, k, limiterClock)
<1>1. ASSUME NEW i \in DOMAIN U, U[i].key = k, limiterClock < U[i].resetAt
      PROVE  \E o \in O : U[i].resetAt = A[o] + WindowMs /\ Len(A) - o < U[i].count
  <2>1. PICK j \in DOMAIN T : /\ T[j].key = k /\ U[i].resetAt = T[j].resetAt
                              /\ T[j].count <= U[i].count
    BY <1>1 DEF Limiter!Live
  <2>2. PICK o \in O : T[j].resetAt = A[o] + WindowMs /\ Len(A) - o < T[j].count
    BY <1>1, <2>1 DEF Tracked
  <2>3. U[i] \in Limiter!Windows /\ T[j] \in Limiter!Windows OBVIOUS
  <2>4. U[i].count \in Nat /\ T[j].count \in Nat BY <2>3 DEF Limiter!Windows
  <2>5. o \in Nat /\ Len(A) \in Nat OBVIOUS
  <2>6. Len(A) - o < U[i].count BY <2>1, <2>2, <2>4, <2>5
  <2>7. QED BY <2>1, <2>2, <2>6
<1>2. \A o \in O : \/ A[o] + WindowMs <= limiterClock
                   \/ \E i \in DOMAIN U : U[i].key = k /\ limiterClock < U[i].resetAt
  BY DEF Tracked, Limiter!Live
<1>3. QED BY <1>1, <1>2 DEF Tracked

(* What a request leaves of another key that it does not evict.              *)
LEMMA OthersKept ==
    ASSUME NEW t \in Limiter!Tables, NEW T, TableKept(T, t), NEW c \in KeysIn(t),
           limiterClock \in Nat, NEW k, k # c, k \notin Limiter!LostTo(T, Limiter!Charge(T, c)),
           NEW A, A \in Seq(Nat), NEW O, O \subseteq DOMAIN A, Tracked(A, O, T, k, limiterClock)
    PROVE  Tracked(A, O, Limiter!Charge(T, c), k, limiterClock)
<1> DEFINE U == Limiter!Charge(T, c)
<1>1. T \in Seq(Limiter!Windows) BY DEF TableKept
<1>2. CASE Limiter!Opens(T, c)
  <2>1. /\ TableKept(U, t)
        /\ \A i \in DOMAIN U : \/ U[i] = Opened(c)
                               \/ U[i].key # c /\ \E j \in DOMAIN T : U[i] = T[j]
    BY <1>2, ChargeOpens
  <2>2. U \in Seq(Limiter!Windows) BY <2>1 DEF TableKept
  <2>3. k \notin Limiter!LostTo(T, U) OBVIOUS
  <2> HIDE DEF U
  <2>4. \A i \in DOMAIN U : U[i].key = k => \E j \in DOMAIN T : U[i] = T[j]
    BY <2>1 DEF Opened
  <2>5. \A i \in DOMAIN U : U[i].key = k /\ Limiter!Live(U[i]) =>
           \E j \in DOMAIN T : /\ T[j].key = k /\ U[i].resetAt = T[j].resetAt
                               /\ T[j].count <= U[i].count
    <3> SUFFICES ASSUME NEW i \in DOMAIN U, U[i].key = k
                 PROVE  \E j \in DOMAIN T : /\ T[j].key = k /\ U[i].resetAt = T[j].resetAt
                                            /\ T[j].count <= U[i].count
      OBVIOUS
    <3>1. PICK j \in DOMAIN T : U[i] = T[j] BY <2>4
    <3>2. T[j] \in Limiter!Windows BY <1>1
    <3>3. T[j].count \in Nat BY <3>2 DEF Limiter!Windows
    <3>4. QED BY <3>1, <3>3
  <2>6. ASSUME NEW j \in DOMAIN T, T[j].key = k, Limiter!Live(T[j])
        PROVE  \E i \in DOMAIN U : U[i].key = k /\ Limiter!Live(U[i])
    <3>1. PICK i \in DOMAIN U : U[i].key = k
      BY <2>3, <2>6 DEF Limiter!LostTo, Limiter!Entry
    <3>2. PICK l \in DOMAIN T : U[i] = T[l] BY <2>4, <3>1
    <3>3. l = j BY <2>6, <3>1, <3>2, OneWindow
    <3>4. QED BY <2>6, <3>1, <3>2, <3>3
  <2>7. QED BY <1>1, <2>2, <2>5, <2>6, TrackedAlong DEF U
<1>3. CASE ~Limiter!Opens(T, c)
  <2>1. /\ TableKept(U, t) /\ DOMAIN U = DOMAIN T
        /\ \A i \in DOMAIN T :
             /\ U[i].key = T[i].key /\ U[i].resetAt = T[i].resetAt
             /\ U[i].count = IF T[i].key = c THEN T[i].count + 1 ELSE T[i].count
    BY <1>3, ChargeCounts
  <2>2. U \in Seq(Limiter!Windows) BY <2>1 DEF TableKept
  <2> HIDE DEF U
  <2>3. \A i \in DOMAIN U : U[i].key = k /\ Limiter!Live(U[i]) =>
           \E j \in DOMAIN T : /\ T[j].key = k /\ U[i].resetAt = T[j].resetAt
                               /\ T[j].count <= U[i].count
    <3> SUFFICES ASSUME NEW i \in DOMAIN U, U[i].key = k PROVE T[i].count <= U[i].count
      BY <2>1
    <3>1. T[i] \in Limiter!Windows BY <1>1, <2>1
    <3>2. T[i].count \in Nat BY <3>1 DEF Limiter!Windows
    <3>3. QED BY <2>1, <3>2
  <2>4. \A j \in DOMAIN T : T[j].key = k /\ Limiter!Live(T[j]) =>
           \E i \in DOMAIN U : U[i].key = k /\ Limiter!Live(U[i])
    BY <2>1 DEF Limiter!Live
  <2>5. QED BY <1>1, <2>2, <2>3, <2>4, TrackedAlong DEF U
<1>4. QED BY <1>2, <1>3

(* A request the window refuses is counted and changes nothing else.         *)
LEMMA RefusedKept ==
    ASSUME NEW t \in Limiter!Tables, NEW T, TableKept(T, t), NEW k \in KeysIn(t),
           limiterClock \in Nat, Limiter!Limited(t, T, k),
           NEW A, A \in Seq(Nat), NEW O, O \subseteq DOMAIN A, Tracked(A, O, T, k, limiterClock)
    PROVE  Tracked(A, O, Limiter!Charge(T, k), k, limiterClock)
<1> DEFINE U == Limiter!Charge(T, k)
<1>1. T \in Seq(Limiter!Windows) BY DEF TableKept
<1>2. ~Limiter!Opens(T, k) BY DEF Limiter!Limited, Limiter!Opens
<1>3. /\ TableKept(U, t) /\ DOMAIN U = DOMAIN T
      /\ \A i \in DOMAIN T :
           /\ U[i].key = T[i].key /\ U[i].resetAt = T[i].resetAt
           /\ U[i].count = IF T[i].key = k THEN T[i].count + 1 ELSE T[i].count
  BY <1>2, ChargeCounts
<1>4. U \in Seq(Limiter!Windows) BY <1>3 DEF TableKept
<1> HIDE DEF U
<1>5. \A i \in DOMAIN U : U[i].key = k /\ Limiter!Live(U[i]) =>
         \E j \in DOMAIN T : /\ T[j].key = k /\ U[i].resetAt = T[j].resetAt
                             /\ T[j].count <= U[i].count
  <2> SUFFICES ASSUME NEW i \in DOMAIN U, U[i].key = k PROVE T[i].count <= U[i].count
    BY <1>3
  <2>1. T[i] \in Limiter!Windows BY <1>1, <1>3
  <2>2. T[i].count \in Nat BY <2>1 DEF Limiter!Windows
  <2>3. QED BY <1>3, <2>2
<1>6. \A j \in DOMAIN T : T[j].key = k /\ Limiter!Live(T[j]) =>
         \E i \in DOMAIN U : U[i].key = k /\ Limiter!Live(U[i])
  BY <1>3 DEF Limiter!Live
<1>7. QED BY <1>1, <1>4, <1>5, <1>6, TrackedAlong DEF U

(* A request let through: it opens a window, all earlier ones being over, or *)
(* is one of the at most limit requests of the one that runs.                *)
LEMMA AdmittedKept ==
    ASSUME NEW t \in Limiter!Tables, NEW T, TableKept(T, t), NEW k \in KeysIn(t),
           limiterClock \in Nat, ~Limiter!Limited(t, T, k), MaxPerWindow[t] \in Nat \ {0},
           NEW A, A \in Seq(Nat), NEW O \in SUBSET DOMAIN A, Tracked(A, O, T, k, limiterClock),
           Paced(A, O, MaxPerWindow[t])
    PROVE  LET B == Append(A, limiterClock)
           IN  \E P \in SUBSET DOMAIN B :
                 Paced(B, P, MaxPerWindow[t]) /\ Tracked(B, P, Limiter!Charge(T, k), k, limiterClock)
<1> DEFINE B == Append(A, limiterClock)
           U == Limiter!Charge(T, k)
           M == MaxPerWindow[t]
<1>1. T \in Seq(Limiter!Windows) BY DEF TableKept
<1>2. /\ Len(A) \in Nat /\ DOMAIN A = 1..Len(A) /\ WindowMs \in Nat \ {0} /\ M \in Nat \ {0}
      /\ \A i \in DOMAIN A : A[i] \in Nat
  BY LimiterConstants
<1>3. /\ B \in Seq(Nat) /\ Len(B) = Len(A) + 1 /\ DOMAIN B = 1..Len(A) + 1
      /\ B[Len(A) + 1] = limiterClock /\ \A i \in 1..Len(A) : B[i] = A[i]
  OBVIOUS
<1>4. /\ \A i \in DOMAIN A : \E o \in O : o <= i /\ i < o + M
      /\ \A o, p \in O : o < p => A[o] + WindowMs <= A[p]
  BY DEF Paced
<1>5. \A o \in O : o \in 1..Len(A) /\ B[o] = A[o] BY <1>2, <1>3
<1>6. DOMAIN A \subseteq DOMAIN B /\ Len(A) + 1 \in DOMAIN B BY <1>2, <1>3
<1>7. \A i \in DOMAIN B : i \in DOMAIN A \/ i = Len(A) + 1 BY <1>2, <1>3
<1> HIDE DEF B, M
<1>8. CASE Limiter!Opens(T, k)
  <2> DEFINE P == O \cup {Len(A) + 1}
  <2>1. P \in SUBSET DOMAIN B BY <1>6
  <2>2. \A o \in O : A[o] + WindowMs <= limiterClock
    BY <1>8 DEF Tracked, Limiter!Opens, Limiter!Entry, Limiter!Live
  <2>3. Paced(B, P, M)
    <3>1. \A i \in DOMAIN B : \E o \in P : o <= i /\ i < o + M
      <4>1. \A i \in DOMAIN A : \E o \in P : o <= i /\ i < o + M BY <1>4
      <4>2. Len(A) + 1 \in P /\ Len(A) + 1 <= Len(A) + 1 /\ Len(A) + 1 < Len(A) + 1 + M
        BY <1>2
      <4>3. QED BY <1>7, <4>1, <4>2
    <3>2. ASSUME NEW o \in P, NEW p \in P, o < p PROVE B[o] + WindowMs <= B[p]
      <4>1. o \in O BY <1>2, <1>5, <3>2
      <4>2. CASE p \in O BY <1>4, <1>5, <3>2, <4>1, <4>2
      <4>3. CASE p = Len(A) + 1 BY <1>3, <1>5, <2>2, <4>1, <4>3
      <4>4. QED BY <4>2, <4>3
    <3>3. QED BY <3>1, <3>2 DEF Paced
  <2>4. Tracked(B, P, U, k, limiterClock)
    <3>1. /\ \E i \in DOMAIN U : U[i] = Opened(k)
          /\ \A i \in DOMAIN U : U[i] = Opened(k) \/ U[i].key # k
      BY <1>8, ChargeOpens
    <3> HIDE DEF U
    <3>2. /\ Opened(k).key = k /\ Opened(k).resetAt = limiterClock + WindowMs
          /\ Opened(k).count = 1
      BY DEF Opened
    <3>3. \A i \in DOMAIN U : U[i].key = k =>
             U[i].resetAt = B[Len(A) + 1] + WindowMs /\ Len(B) - (Len(A) + 1) < U[i].count
      BY <1>2, <1>3, <3>1, <3>2
    <3>4. \E i \in DOMAIN U : U[i].key = k /\ limiterClock < U[i].resetAt
      BY <1>2, <3>1, <3>2
    <3>5. QED BY <3>3, <3>4 DEF Tracked
  <2>5. QED BY <2>1, <2>3, <2>4 DEF B, M, U
<1>9. CASE ~Limiter!Opens(T, k)
  <2>1. PICK i \in DOMAIN T : T[i].key = k /\ Limiter!Live(T[i])
    BY <1>9 DEF Limiter!Opens, Limiter!Entry
  <2>2. T[i] \in Limiter!Windows BY <1>1
  <2>3. T[i].count \in Nat /\ T[i].count < M
    <3>1. ~(T[i].count >= M) BY <2>1 DEF Limiter!Limited, Limiter!Entry, M
    <3>2. T[i].count \in Nat BY <2>2 DEF Limiter!Windows
    <3>3. QED BY <1>2, <3>1, <3>2
  <2>4. PICK o \in O : T[i].resetAt = A[o] + WindowMs /\ Len(A) - o < T[i].count
    BY <2>1 DEF Tracked, Limiter!Live
  <2>5. O \in SUBSET DOMAIN B BY <1>6
  <2>6. Paced(B, O, M)
    <3>1. o <= Len(A) + 1 /\ Len(A) + 1 < o + M BY <1>2, <1>5, <2>3, <2>4
    <3>2. \A j \in DOMAIN B : \E p \in O : p <= j /\ j < p + M BY <1>4, <1>7, <3>1
    <3>3. \A q, p \in O : q < p => B[q] + WindowMs <= B[p] BY <1>4, <1>5
    <3>4. QED BY <3>2, <3>3 DEF Paced
  <2>7. Tracked(B, O, U, k, limiterClock)
    <3>1. /\ DOMAIN U = DOMAIN T
          /\ \A j \in DOMAIN T :
               /\ U[j].key = T[j].key /\ U[j].resetAt = T[j].resetAt
               /\ U[j].count = IF T[j].key = k THEN T[j].count + 1 ELSE T[j].count
      BY <1>9, ChargeCounts
    <3> HIDE DEF U
    <3>2. \A j \in DOMAIN U : U[j].key = k => j = i BY <2>1, <3>1, OneWindow
    <3>3. U[i].resetAt = B[o] + WindowMs BY <1>5, <2>4, <3>1
    <3>4. Len(B) - o < U[i].count
      <4>1. U[i].count = T[i].count + 1 BY <2>1, <3>1
      <4>2. o \in Int /\ Len(A) \in Int /\ Len(B) = Len(A) + 1 BY <1>2, <1>3, <1>5
      <4>3. QED BY <2>3, <2>4, <4>1, <4>2
    <3>5. U[i].key = k /\ limiterClock < U[i].resetAt BY <2>1, <3>1 DEF Limiter!Live
    <3>6. QED BY <3>1, <3>2, <3>3, <3>4, <3>5 DEF Tracked
  <2>8. QED BY <2>5, <2>6, <2>7 DEF B, M, U
<1>10. QED BY <1>8, <1>9

LEMMA LimiterTwin == \A S : Limiter!Cardinality(S) = Cardinality(S)
BY DEF Cardinality, Limiter!Cardinality

(* Paced windows make the rate: of 2 * limit admissions in a row, the last   *)
(* is in a window that opened after the first, so a window's length later.   *)
LEMMA PacedIsBounded ==
    ASSUME NEW A, A \in Seq(Nat), NEW O \in SUBSET DOMAIN A, NEW M \in Nat \ {0}, Paced(A, O, M),
           \A i, j \in DOMAIN A : i <= j => A[i] <= A[j], NEW from \in Nat
    PROVE  Cardinality({i \in DOMAIN A : A[i] \in from..(from + WindowMs - 1)}) < 2 * M
<1> DEFINE S == {i \in DOMAIN A : A[i] \in from..(from + WindowMs - 1)}
<1>1. /\ Len(A) \in Nat /\ DOMAIN A = 1..Len(A) /\ WindowMs \in Nat \ {0}
      /\ \A i \in DOMAIN A : A[i] \in Nat
  BY LimiterConstants
<1>2. /\ \A i \in DOMAIN A : \E o \in O : o <= i /\ i < o + M
      /\ \A o, p \in O : o < p => A[o] + WindowMs <= A[p]
      /\ \A o \in O : o \in 1..Len(A)
  BY <1>1 DEF Paced
<1>3. ASSUME NEW i \in DOMAIN A, NEW j \in DOMAIN A, i + 2 * M - 1 <= j
      PROVE  A[i] + WindowMs <= A[j]
  <2>1. i \in 1..Len(A) /\ j \in 1..Len(A) BY <1>1
  <2>2. PICK q \in O : q <= j /\ j < q + M BY <1>2
  <2>3. q \in 1..Len(A) /\ i + M <= q BY <1>1, <1>2, <1>3, <2>1, <2>2
  <2>4. q - 1 \in DOMAIN A BY <1>1, <2>1, <2>3
  <2>5. PICK p \in O : p <= q - 1 /\ q - 1 < p + M BY <1>2, <2>4
  <2>6. p \in 1..Len(A) /\ i <= p /\ p < q
    <3>1. p \in 1..Len(A) BY <1>2
    <3>2. p \in Int /\ q \in Int /\ i \in Int /\ M \in Int BY <1>1, <2>1, <2>3, <3>1
    <3>3. QED BY <2>3, <2>5, <3>1, <3>2
  <2>7. A[p] + WindowMs <= A[q] BY <1>2, <2>6
  <2>8. A[i] <= A[p] /\ A[q] <= A[j] BY <1>1, <2>1, <2>2, <2>3, <2>6
  <2>9. A[i] \in Nat /\ A[p] \in Nat /\ A[q] \in Nat /\ A[j] \in Nat
    BY <1>1, <2>1, <2>3, <2>6
  <2>10. QED BY <1>1, <2>7, <2>8, <2>9
<1>4. CASE S = {}
  <2>1. Cardinality(S) = 0 BY <1>4, FS_EmptySet
  <2>2. QED BY <2>1
<1>5. CASE S # {}
  <2>1. S \in SUBSET Nat BY <1>1
  <2>2. PICK lo \in S : \A i \in S : lo <= i BY <1>5, <2>1, LeastOne
  <2>3. S \subseteq lo..(lo + (2 * M - 2))
    <3> SUFFICES ASSUME NEW i \in S PROVE i \in lo..(lo + (2 * M - 2))
      OBVIOUS
    <3>1. i \in Nat /\ lo \in Nat /\ lo <= i BY <2>1, <2>2
    <3>2. ~(lo + 2 * M - 1 <= i)
      <4> SUFFICES ASSUME lo + 2 * M - 1 <= i PROVE FALSE
        OBVIOUS
      <4>1. A[lo] + WindowMs <= A[i] BY <1>3
      <4>2. A[lo] \in from..(from + WindowMs - 1) /\ A[i] \in from..(from + WindowMs - 1)
        OBVIOUS
      <4>3. QED BY <1>1, <4>1, <4>2
    <3>3. QED BY <3>1, <3>2
  <2>4. lo \in Int /\ lo + (2 * M - 2) \in Int BY <2>1
  <2>5. /\ IsFiniteSet(lo..(lo + (2 * M - 2)))
        /\ Cardinality(lo..(lo + (2 * M - 2))) = 2 * M - 1
    <3>1. lo <= lo + (2 * M - 2) BY <2>4
    <3>2. Cardinality(lo..(lo + (2 * M - 2))) = lo + (2 * M - 2) - lo + 1
      BY <2>4, <3>1, FS_Interval
    <3>3. QED BY <2>4, <3>2, FS_Interval
  <2>6. Cardinality(S) <= 2 * M - 1 /\ Cardinality(S) \in Nat
    BY <2>3, <2>5, FS_Subset, FS_CardinalityType
  <2>7. QED BY <2>6
<1>6. QED BY <1>4, <1>5

LEMMA AdmittedTimes ==
    ASSUME RateTyped, NEW k \in Limiter!Keys
    PROVE  admitted[k] \in Seq(0..MaxClock) /\ admitted[k] \in Seq(Nat)
<1>1. admitted[k] \in Seq(0..MaxClock) BY DEF RateTyped, Limiter!TypeOK
<1>2. 0..MaxClock \subseteq Nat BY LimiterConstants
<1>3. \A S, B : S \subseteq B => \A s \in Seq(S) : s \in Seq(B) OBVIOUS
<1>4. QED BY <1>1, <1>2, <1>3

LEMMA RateKept == RateInv => Limiter!RateBounded
<1> SUFFICES ASSUME RateInv, NEW k \in Limiter!Keys \ evicted, NEW from \in 0..MaxClock
             PROVE  Limiter!Cardinality({i \in DOMAIN admitted[k] :
                        admitted[k][i] \in from..(from + WindowMs - 1)})
                      < 2 * MaxPerWindow[Limiter!TableOf(k)]
  BY DEF Limiter!RateBounded
<1>1. admitted[k] \in Seq(Nat) BY AdmittedTimes DEF RateInv
<1>2. MaxPerWindow[Limiter!TableOf(k)] \in Nat \ {0}
  BY LimiterConstants DEF Limiter!TableOf
<1>3. PacedKey(k) BY DEF RateInv
<1>4. PICK O \in SUBSET DOMAIN admitted[k] :
          Paced(admitted[k], O, MaxPerWindow[Limiter!TableOf(k)])
  BY <1>3 DEF PacedKey
<1>5. \A i, j \in DOMAIN admitted[k] : i <= j => admitted[k][i] <= admitted[k][j]
  BY <1>3 DEF PacedKey
<1>6. from \in Nat OBVIOUS
<1>7. QED BY <1>1, <1>2, <1>4, <1>5, <1>6, PacedIsBounded, LimiterTwin

LEMMA RateStart == Limiter!Init => RateInv
<1> SUFFICES ASSUME Limiter!Init PROVE RateInv
  OBVIOUS
<1>1. /\ limiterClock = 0 /\ hits = [t \in Limiter!Tables |-> <<>>]
      /\ admitted = [k \in Limiter!Keys |-> <<>>] /\ evicted = {} /\ requests = 0
  BY DEF Limiter!Init
<1>2. Limiter!TypeOK
  <2>1. <<>> \in Seq(Limiter!Windows) /\ <<>> \in Seq(0..MaxClock) OBVIOUS
  <2>2. QED BY <1>1, <2>1, LimiterConstants DEF Limiter!TypeOK
<1>3. \A t \in Limiter!Tables : TableKept(hits[t], t)
  <2>1. \A t : TableKept(<<>>, t) BY LimiterConstants DEF TableKept, Ordered
  <2>2. QED BY <1>1, <2>1
<1>4. ASSUME NEW k \in Limiter!Keys PROVE PacedKey(k)
  <2>1. admitted[k] = <<>> /\ DOMAIN admitted[k] = {} /\ hits[Limiter!TableOf(k)] = <<>>
    BY <1>1, LimiterConstants DEF Limiter!TableOf
  <2>2. \A limit : Paced(<<>>, {}, limit) BY DEF Paced
  <2>3. Tracked(<<>>, {}, <<>>, k, limiterClock) BY DEF Tracked
  <2>4. {} \in SUBSET DOMAIN admitted[k] OBVIOUS
  <2>5. QED BY <2>1, <2>2, <2>3, <2>4 DEF PacedKey
<1>5. QED BY <1>2, <1>3, <1>4 DEF RateInv, RateTyped

(* What OnlyTheStalestEvicted says of a step, for one table.                 *)
StalestOnly(t) ==
    \A i \in DOMAIN hits[t] :
       Limiter!Live(hits[t][i]) /\ Limiter!Entry(hits'[t], hits[t][i].key) = {}
         => /\ Len(hits[t]) = MaxKeys
            /\ \A j \in DOMAIN hits[t] :
                 Limiter!Live(hits[t][j]) /\ hits[t][i].resetAt <= hits[t][j].resetAt

LEMMA TableCharged ==
    ASSUME RateTyped, NEW t \in Limiter!Tables, NEW c \in KeysIn(t),
           limiterClock' = limiterClock, hits'[t] = Limiter!Charge(hits[t], c)
    PROVE  TableKept(hits[t], t)' /\ StalestOnly(t)
<1> DEFINE U == Limiter!Charge(hits[t], c)
<1>1. TableKept(hits[t], t) /\ limiterClock \in Nat BY DEF RateTyped, Limiter!TypeOK
<1>2. CASE Limiter!Opens(hits[t], c)
  <2>1. /\ TableKept(U, t)
        /\ \A j \in DOMAIN hits[t] :
             Limiter!Live(hits[t][j]) /\ Limiter!Entry(U, hits[t][j].key) = {}
               => Stalest(hits[t], j)
    BY <1>1, <1>2, ChargeOpens
  <2> HIDE DEF U
  <2>2. QED BY <2>1 DEF TableKept, Ordered, StalestOnly, Stalest, U
<1>3. CASE ~Limiter!Opens(hits[t], c)
  <2>1. /\ TableKept(U, t) /\ DOMAIN U = DOMAIN hits[t]
        /\ \A i \in DOMAIN hits[t] : U[i].key = hits[t][i].key
    BY <1>1, <1>3, ChargeCounts
  <2> HIDE DEF U
  <2>2. \A i \in DOMAIN hits[t] : Limiter!Entry(U, hits[t][i].key) # {}
    BY <2>1 DEF Limiter!Entry
  <2>3. QED BY <2>1, <2>2 DEF TableKept, Ordered, StalestOnly, U
<1>4. QED BY <1>2, <1>3

LEMMA TableAlone ==
    ASSUME RateTyped, NEW t \in Limiter!Tables, limiterClock' \in Nat,
           limiterClock <= limiterClock', hits'[t] = hits[t]
    PROVE  TableKept(hits[t], t)' /\ StalestOnly(t)
<1>1. TableKept(hits[t], t) /\ limiterClock \in Nat BY DEF RateTyped, Limiter!TypeOK
<1>2. WindowMs \in Nat BY LimiterConstants
<1>3. hits[t] \in Seq(Limiter!Windows) BY <1>1 DEF TableKept
<1>4. \A i \in DOMAIN hits[t] : hits[t][i].resetAt <= limiterClock' + WindowMs
  <2> SUFFICES ASSUME NEW i \in DOMAIN hits[t]
               PROVE  hits[t][i].resetAt <= limiterClock' + WindowMs
    OBVIOUS
  <2>1. hits[t][i] \in Limiter!Windows BY <1>3
  <2>2. hits[t][i].resetAt \in Nat BY <2>1 DEF Limiter!Windows
  <2>3. hits[t][i].resetAt <= limiterClock + WindowMs BY <1>1 DEF TableKept
  <2>4. QED BY <1>1, <1>2, <2>2, <2>3
<1>5. TableKept(hits[t], t)' BY <1>1, <1>4 DEF TableKept, Ordered
<1>6. \A i \in DOMAIN hits[t] : Limiter!Entry(hits[t], hits[t][i].key) # {}
  BY DEF Limiter!Entry
<1>7. QED BY <1>5, <1>6 DEF StalestOnly

(* A key whose table a request of c charges; c itself is let through unless  *)
(* its window refuses it.                                                    *)
LEMMA KeyCharged ==
    ASSUME RateTyped, NEW t \in Limiter!Tables, NEW c \in KeysIn(t),
           limiterClock' = limiterClock, hits'[t] = Limiter!Charge(hits[t], c),
           NEW k \in Limiter!Keys, Limiter!TableOf(k) = t, PacedKey(k),
           admitted'[k] = IF k = c /\ ~Limiter!Limited(t, hits[t], c)
                          THEN Append(admitted[k], limiterClock) ELSE admitted[k],
           evicted \subseteq evicted',
           k # c => k \in evicted' \/ k \notin Limiter!LostTo(hits[t], Limiter!Charge(hits[t], c))
    PROVE  PacedKey(k)'
<1> DEFINE A == admitted[k]
           B == admitted'[k]
           M == MaxPerWindow[t]
<1>1. TableKept(hits[t], t) /\ limiterClock \in Nat BY DEF RateTyped, Limiter!TypeOK
<1>2. A \in Seq(Nat) BY AdmittedTimes
<1>3. M \in Nat \ {0} BY LimiterConstants
<1>4. /\ \A i, j \in DOMAIN A : i <= j => A[i] <= A[j]
      /\ \A i \in DOMAIN A : A[i] <= limiterClock
  BY DEF PacedKey
<1>5. B = A \/ B = Append(A, limiterClock) OBVIOUS
<1>6. /\ \A i, j \in DOMAIN B : i <= j => B[i] <= B[j]
      /\ \A i \in DOMAIN B : B[i] <= limiterClock
  <2>1. CASE B = A
    <3> HIDE DEF A, B
    <3>1. QED BY <1>4, <2>1
  <2>2. CASE B = Append(A, limiterClock)
    <3> HIDE DEF A, B
    <3>1. /\ Len(A) \in Nat /\ DOMAIN A = 1..Len(A) /\ DOMAIN B = 1..Len(A) + 1
          /\ B[Len(A) + 1] = limiterClock /\ \A i \in 1..Len(A) : B[i] = A[i]
      BY <1>1, <1>2, <2>2
    <3>2. \A i \in DOMAIN B : i \in 1..Len(A) \/ i = Len(A) + 1 BY <3>1
    <3>3. \A i \in DOMAIN B : B[i] <= limiterClock BY <1>1, <1>4, <3>1, <3>2
    <3>4. ASSUME NEW i \in DOMAIN B, NEW j \in DOMAIN B, i <= j PROVE B[i] <= B[j]
      <4>1. CASE j = Len(A) + 1 BY <3>1, <3>3, <4>1
      <4>2. CASE j \in 1..Len(A)
        <5>1. i \in 1..Len(A) BY <3>1, <3>4, <4>2
        <5>2. QED BY <1>4, <3>1, <3>4, <4>2, <5>1
      <4>3. QED BY <3>2, <4>1, <4>2
    <3>5. QED BY <3>3, <3>4
  <2>3. QED BY <1>5, <2>1, <2>2
<1>7. ASSUME k \notin evicted'
      PROVE  \E P \in SUBSET DOMAIN B : Paced(B, P, M) /\ Tracked(B, P, hits'[t], k, limiterClock)
  <2>1. k \notin evicted BY <1>7
  <2>2. PICK O \in SUBSET DOMAIN A : Paced(A, O, M) /\ Tracked(A, O, hits[t], k, limiterClock)
    BY <2>1 DEF PacedKey
  <2>3. CASE k # c
    <3>1. B = A /\ k \notin Limiter!LostTo(hits[t], Limiter!Charge(hits[t], c)) BY <1>7, <2>3
    <3> HIDE DEF A, B
    <3>2. Tracked(A, O, hits'[t], k, limiterClock) BY <1>1, <1>2, <2>2, <2>3, <3>1, OthersKept
    <3>3. QED BY <2>2, <3>1, <3>2
  <2>4. CASE k = c /\ Limiter!Limited(t, hits[t], c)
    <3>1. B = A BY <2>4
    <3> HIDE DEF A, B
    <3>2. Tracked(A, O, hits'[t], k, limiterClock) BY <1>1, <1>2, <2>2, <2>4, RefusedKept
    <3>3. QED BY <2>2, <3>1, <3>2
  <2>5. CASE k = c /\ ~Limiter!Limited(t, hits[t], c)
    <3>1. B = Append(A, limiterClock) BY <2>5
    <3> HIDE DEF A, B
    <3>2. \E P \in SUBSET DOMAIN B :
            Paced(B, P, MaxPerWindow[t]) /\ Tracked(B, P, Limiter!Charge(hits[t], k), k, limiterClock)
      BY <1>1, <1>2, <1>3, <2>2, <2>5, <3>1, AdmittedKept
    <3>3. QED BY <2>5, <3>2
  <2>6. QED BY <2>3, <2>4, <2>5
<1>8. QED
  <2> HIDE DEF A, B
  <2>1. M = MaxPerWindow[Limiter!TableOf(k)] /\ hits'[t] = hits'[Limiter!TableOf(k)] OBVIOUS
  <2> HIDE DEF M
  <2>2. k \notin evicted' => \E P \in SUBSET DOMAIN B :
           /\ Paced(B, P, MaxPerWindow[Limiter!TableOf(k)])
           /\ Tracked(B, P, hits'[Limiter!TableOf(k)], k, limiterClock')
    BY <1>7, <2>1
  <2>3. QED BY <1>6, <2>2 DEF PacedKey, B

(* A key no request is made of, whose table loses at most what is over.      *)
LEMMA KeyAlone ==
    ASSUME RateTyped, NEW t \in Limiter!Tables, NEW k \in Limiter!Keys, Limiter!TableOf(k) = t,
           PacedKey(k), limiterClock' \in Nat, limiterClock <= limiterClock',
           admitted'[k] = admitted[k], evicted \subseteq evicted',
           \A i \in DOMAIN hits'[t] : \E j \in DOMAIN hits[t] : hits'[t][i] = hits[t][j],
           \A j \in DOMAIN hits[t] : limiterClock' < hits[t][j].resetAt =>
              \E i \in DOMAIN hits'[t] : hits'[t][i] = hits[t][j]
    PROVE  PacedKey(k)'
<1> DEFINE A == admitted[k]
           T == hits[t]
           U == hits'[t]
           M == MaxPerWindow[t]
<1>1. TableKept(T, t) /\ limiterClock \in Nat BY DEF RateTyped, Limiter!TypeOK
<1>2. T \in Seq(Limiter!Windows) BY <1>1 DEF TableKept
<1>3. \A j \in DOMAIN T : T[j].resetAt \in Nat
  <2> SUFFICES ASSUME NEW j \in DOMAIN T PROVE T[j].resetAt \in Nat
    OBVIOUS
  <2>1. T[j] \in Limiter!Windows BY <1>2
  <2>2. QED BY <2>1 DEF Limiter!Windows
<1>4. A \in Seq(Nat) /\ \A i \in DOMAIN A : A[i] \in Nat
  <2>1. A \in Seq(Nat) BY AdmittedTimes
  <2>2. QED BY <2>1
<1>5. /\ \A i, j \in DOMAIN A : i <= j => A[i] <= A[j]
      /\ \A i \in DOMAIN A : A[i] <= limiterClock'
  BY <1>1, <1>4 DEF PacedKey
<1>6. ASSUME k \notin evicted
      PROVE  \E O \in SUBSET DOMAIN A :
               /\ Paced(A, O, M)
               /\ Tracked(A, O, U, k, limiterClock')
  <2>1. PICK O \in SUBSET DOMAIN A : Paced(A, O, M) /\ Tracked(A, O, T, k, limiterClock)
    BY <1>6 DEF PacedKey
  <2>2. ASSUME NEW i \in DOMAIN U, U[i].key = k, limiterClock' < U[i].resetAt
        PROVE  \E o \in O : U[i].resetAt = A[o] + WindowMs /\ Len(A) - o < U[i].count
    <3>1. PICK j \in DOMAIN T : U[i] = T[j] OBVIOUS
    <3>2. limiterClock < T[j].resetAt BY <1>1, <1>3, <2>2, <3>1
    <3>3. QED BY <2>1, <2>2, <3>1, <3>2 DEF Tracked
  <2>3. ASSUME NEW o \in O
        PROVE  \/ A[o] + WindowMs <= limiterClock'
               \/ \E i \in DOMAIN U : U[i].key = k /\ limiterClock' < U[i].resetAt
    <3>1. A[o] + WindowMs \in Nat BY <1>4, LimiterConstants
    <3>2. CASE A[o] + WindowMs <= limiterClock BY <1>1, <3>1, <3>2
    <3>3. CASE ~(A[o] + WindowMs <= limiterClock)
      <4>1. PICK j \in DOMAIN T : T[j].key = k /\ limiterClock < T[j].resetAt
        BY <2>1, <3>3 DEF Tracked
      <4>2. PICK p \in O : T[j].resetAt = A[p] + WindowMs BY <2>1, <4>1 DEF Tracked
      <4>3. CASE limiterClock' < T[j].resetAt
        <5>1. PICK i \in DOMAIN U : U[i] = T[j] BY <4>3
        <5>2. QED BY <4>1, <4>3, <5>1
      <4>4. CASE ~(limiterClock' < T[j].resetAt)
        <5>1. A[p] \in Nat /\ A[o] \in Nat /\ A[o] <= limiterClock /\ A[p] <= limiterClock
          BY <1>4 DEF PacedKey
        <5>2. p \in Nat /\ o \in Nat BY <1>4
        <5>3. ~(o < p)
          <6>1. o < p => A[o] + WindowMs <= A[p] BY <2>1 DEF Paced
          <6>2. QED BY <1>1, <3>1, <3>3, <5>1, <6>1
        <5>4. ~(p < o)
          <6>1. p < o => A[p] + WindowMs <= A[o] BY <2>1 DEF Paced
          <6>2. QED BY <1>1, <4>1, <4>2, <5>1, <6>1, LimiterConstants
        <5>5. p = o BY <5>2, <5>3, <5>4
        <5>6. A[o] + WindowMs <= limiterClock' BY <3>1, <4>2, <4>4, <5>5
        <5>7. QED BY <5>6
      <4>5. QED BY <4>3, <4>4
    <3>4. QED BY <3>2, <3>3
  <2>4. QED BY <2>1, <2>2, <2>3 DEF Tracked
<1>7. QED
  <2>1. admitted'[k] = A /\ U = hits'[Limiter!TableOf(k)]
        /\ M = MaxPerWindow[Limiter!TableOf(k)]
    OBVIOUS
  <2> HIDE DEF A, U, M
  <2>2. k \notin evicted' => \E O \in SUBSET DOMAIN A :
           /\ Paced(A, O, MaxPerWindow[Limiter!TableOf(k)])
           /\ Tracked(A, O, hits'[Limiter!TableOf(k)], k, limiterClock')
    BY <1>6, <2>1
  <2>3. QED BY <1>5, <2>1, <2>2 DEF PacedKey

LEMMA RateStep ==
    RateInv /\ [Limiter!Next]_(Limiter!vars) =>
        RateInv' /\ \A t \in Limiter!Tables : StalestOnly(t)
<1> SUFFICES ASSUME RateInv, [Limiter!Next]_(Limiter!vars)
             PROVE  RateInv' /\ \A t \in Limiter!Tables : StalestOnly(t)
  OBVIOUS
<1>1. RateTyped /\ \A k \in Limiter!Keys : PacedKey(k) BY DEF RateInv
<1>2. /\ limiterClock \in Nat /\ limiterClock \in 0..MaxClock
      /\ requests \in 0..MaxCalls /\ evicted \subseteq Limiter!Keys
      /\ hits \in [Limiter!Tables -> Seq(Limiter!Windows)]
      /\ admitted \in [Limiter!Keys -> Seq(0..MaxClock)]
      /\ \A t \in Limiter!Tables : TableKept(hits[t], t)
  BY <1>1 DEF RateTyped, Limiter!TypeOK
<1>3. /\ Limiter!Tables = {"ip", "address"} /\ Limiter!Keys = Ips \cup Addresses
      /\ Ips \cap Addresses = {} /\ MaxClock \in Nat /\ MaxCalls \in Nat
      /\ KeysIn("ip") = Ips /\ KeysIn("address") = Addresses
      /\ \A k \in Ips : Limiter!TableOf(k) = "ip"
      /\ \A k \in Addresses : Limiter!TableOf(k) = "address"
  BY LimiterConstants DEF KeysIn, Limiter!TableOf
<1>4. /\ "ip" \in Limiter!Tables /\ "address" \in Limiter!Tables
      /\ \A k \in Ips \cup Addresses : k \in Limiter!Keys
  BY <1>3
(* It is enough to look at each table and at each key. *)
<1>5. ASSUME limiterClock' \in 0..MaxClock, requests' \in 0..MaxCalls, evicted' \subseteq Limiter!Keys,
             hits' = [t \in Limiter!Tables |-> hits'[t]],
             admitted' = [k \in Limiter!Keys |-> admitted'[k]],
             \A k \in Limiter!Keys :
                admitted'[k] = admitted[k] \/ admitted'[k] = Append(admitted[k], limiterClock),
             \A t \in Limiter!Tables : TableKept(hits[t], t)' /\ StalestOnly(t),
             \A k \in Limiter!Keys : PacedKey(k)'
      PROVE  RateInv' /\ \A t \in Limiter!Tables : StalestOnly(t)
  <2>1. hits' \in [Limiter!Tables -> Seq(Limiter!Windows)]
    <3>1. \A t \in Limiter!Tables : hits'[t] \in Seq(Limiter!Windows) BY <1>5 DEF TableKept
    <3>2. QED BY <1>5, <3>1
  <2>2. admitted' \in [Limiter!Keys -> Seq(0..MaxClock)]
    <3>1. ASSUME NEW k \in Limiter!Keys PROVE admitted'[k] \in Seq(0..MaxClock)
      <4>1. \A S : \A s \in Seq(S), n \in S : Append(s, n) \in Seq(S) OBVIOUS
      <4>2. admitted[k] \in Seq(0..MaxClock) BY <1>2
      <4>3. Append(admitted[k], limiterClock) \in Seq(0..MaxClock) BY <1>2, <4>1, <4>2
      <4>4. QED BY <1>5, <4>2, <4>3
    <3>2. QED BY <1>5, <3>1
  <2>3. Limiter!TypeOK' BY <1>5, <2>1, <2>2 DEF Limiter!TypeOK
  <2>4. QED BY <1>5, <2>3 DEF RateInv, RateTyped
<1>6. CASE Limiter!Tick
  <2>1. /\ limiterClock' = limiterClock + 1 /\ limiterClock < MaxClock
        /\ hits' = hits /\ admitted' = admitted /\ evicted' = evicted /\ requests' = requests
    BY <1>6 DEF Limiter!Tick
  <2>2. limiterClock' \in 0..MaxClock /\ limiterClock' \in Nat /\ limiterClock <= limiterClock'
    BY <1>2, <1>3, <2>1
  <2>3. \A t \in Limiter!Tables : TableKept(hits[t], t)' /\ StalestOnly(t)
    BY <1>1, <2>1, <2>2, TableAlone
  <2>4. \A k \in Limiter!Keys : PacedKey(k)'
    <3> SUFFICES ASSUME NEW k \in Limiter!Keys PROVE PacedKey(k)'
      OBVIOUS
    <3>1. Limiter!TableOf(k) \in Limiter!Tables BY <1>3
    <3>2. QED BY <1>1, <2>1, <2>2, <3>1, KeyAlone
  <2>5. QED BY <1>2, <1>5, <2>1, <2>2, <2>3, <2>4
<1>7. CASE Limiter!Sweep
  <2>1. /\ hits' = [t \in Limiter!Tables |-> Limiter!Swept(hits[t])]
        /\ limiterClock' = limiterClock /\ admitted' = admitted /\ evicted' = evicted
        /\ requests' = requests
    BY <1>7 DEF Limiter!Sweep
  <2>2. \A t \in Limiter!Tables :
           /\ hits'[t] \in Seq(Limiter!Windows) /\ Len(hits'[t]) <= Len(hits[t])
           /\ \E place : /\ Places(hits'[t], hits[t], place)
                         /\ \A j \in DOMAIN hits[t] : Limiter!Live(hits[t][j]) =>
                              \E i \in 1..Len(hits'[t]) : place[i] = j
    BY <1>2, <2>1, SweptPart
  <2>3. ASSUME NEW t \in Limiter!Tables
        PROVE  /\ TableKept(hits[t], t)' /\ StalestOnly(t)
               /\ \A i \in DOMAIN hits'[t] : \E j \in DOMAIN hits[t] : hits'[t][i] = hits[t][j]
               /\ \A j \in DOMAIN hits[t] : limiterClock < hits[t][j].resetAt =>
                     \E i \in DOMAIN hits'[t] : hits'[t][i] = hits[t][j]
    <3> DEFINE U == hits'[t]
    <3>1. U \in Seq(Limiter!Windows) /\ Len(U) <= Len(hits[t]) /\ DOMAIN U = 1..Len(U)
      BY <2>2
    <3>2. hits[t] \in Seq(Limiter!Windows) /\ DOMAIN hits[t] = 1..Len(hits[t]) BY <1>2
    <3>3. PICK place : /\ Places(U, hits[t], place)
                       /\ \A j \in DOMAIN hits[t] : Limiter!Live(hits[t][j]) =>
                            \E i \in 1..Len(U) : place[i] = j
      BY <2>2
    <3>4. TableKept(U, t) BY <1>2, <3>1, <3>3, PartKept
    <3>5. TableKept(hits[t], t)' BY <2>1, <3>4 DEF TableKept, Ordered
    <3> HIDE DEF U
    <3>6. \A j \in DOMAIN hits[t] : limiterClock < hits[t][j].resetAt =>
             \E i \in DOMAIN U : U[i] = hits[t][j]
      BY <3>1, <3>3 DEF Places, Limiter!Live
    <3>7. \A i \in DOMAIN U : \E j \in DOMAIN hits[t] : U[i] = hits[t][j]
      BY <3>1, <3>2, <3>3 DEF Places
    <3>8. StalestOnly(t) BY <3>6 DEF StalestOnly, Limiter!Live, Limiter!Entry, U
    <3>9. QED BY <3>5, <3>6, <3>7, <3>8 DEF U
  <2>4. \A k \in Limiter!Keys : PacedKey(k)'
    <3> SUFFICES ASSUME NEW k \in Limiter!Keys PROVE PacedKey(k)'
      OBVIOUS
    <3>1. Limiter!TableOf(k) \in Limiter!Tables BY <1>3
    <3>2. limiterClock' \in Nat /\ limiterClock <= limiterClock' BY <1>2, <2>1
    <3>3. QED BY <1>1, <2>1, <2>3, <3>1, <3>2, KeyAlone
  <2>5. QED BY <1>2, <1>5, <2>1, <2>3, <2>4
(* A request: what it charges, and what that leaves of each table and key. *)
<1>8. ASSUME NEW t \in Limiter!Tables, NEW c \in KeysIn(t), limiterClock' = limiterClock,
             hits'[t] = Limiter!Charge(hits[t], c),
             evicted \cup Limiter!LostTo(hits[t], Limiter!Charge(hits[t], c)) \subseteq evicted',
             \A k \in KeysIn(t) :
                admitted'[k] = IF k = c /\ ~Limiter!Limited(t, hits[t], c)
                               THEN Append(admitted[k], limiterClock) ELSE admitted[k]
      PROVE  TableKept(hits[t], t)' /\ StalestOnly(t) /\ \A k \in KeysIn(t) : PacedKey(k)'
  <2>1. TableKept(hits[t], t)' /\ StalestOnly(t) BY <1>1, <1>8, TableCharged
  <2>2. ASSUME NEW k \in KeysIn(t) PROVE PacedKey(k)'
    <3>1. k \in Limiter!Keys /\ Limiter!TableOf(k) = t BY <1>3 DEF KeysIn
    <3>2. k \in evicted' \/ k \notin Limiter!LostTo(hits[t], Limiter!Charge(hits[t], c))
      BY <1>8
    <3>3. QED BY <1>1, <1>8, <3>1, <3>2, KeyCharged
  <2>3. QED BY <2>1, <2>2
<1>9. ASSUME NEW t \in Limiter!Tables, limiterClock' = limiterClock, hits'[t] = hits[t],
             evicted \subseteq evicted', \A k \in KeysIn(t) : admitted'[k] = admitted[k]
      PROVE  TableKept(hits[t], t)' /\ StalestOnly(t) /\ \A k \in KeysIn(t) : PacedKey(k)'
  <2>1. limiterClock' \in Nat /\ limiterClock <= limiterClock' BY <1>2, <1>9
  <2>2. TableKept(hits[t], t)' /\ StalestOnly(t) BY <1>1, <1>9, <2>1, TableAlone
  <2>3. ASSUME NEW k \in KeysIn(t) PROVE PacedKey(k)'
    <3>1. k \in Limiter!Keys /\ Limiter!TableOf(k) = t BY <1>3 DEF KeysIn
    <3>2. QED BY <1>1, <1>9, <2>1, <3>1, KeyAlone
  <2>4. QED BY <2>2, <2>3
<1>10. ASSUME \/ \E ip \in Ips : Limiter!Refused(ip) \/ Limiter!Anonymous(ip)
              \/ \E ip \in Ips, a \in Addresses : Limiter!ToolCall(ip, a)
       PROVE  requests' \in 0..MaxCalls /\ limiterClock' = limiterClock
  <2>1. requests' = requests + 1 /\ requests < MaxCalls /\ limiterClock' = limiterClock
    BY <1>10 DEF Limiter!Refused, Limiter!Anonymous, Limiter!ToolCall
  <2>2. QED BY <1>2, <1>3, <2>1
<1>11. ASSUME NEW t \in Limiter!Tables, NEW c \in KeysIn(t)
       PROVE  /\ Limiter!LostTo(hits[t], Limiter!Charge(hits[t], c)) \subseteq Limiter!Keys
              /\ Limiter!Limited(t, hits[t], c) =>
                   Limiter!LostTo(hits[t], Limiter!Charge(hits[t], c)) = {}
  <2>1. Limiter!LostTo(hits[t], Limiter!Charge(hits[t], c)) \subseteq Limiter!Keys
    <3>1. \A i \in DOMAIN hits[t] : hits[t][i].key \in Limiter!Keys
      BY <1>2, <1>3 DEF TableKept, KeysIn
    <3>2. QED BY <3>1 DEF Limiter!LostTo
  <2>2. ASSUME Limiter!Limited(t, hits[t], c)
        PROVE  Limiter!LostTo(hits[t], Limiter!Charge(hits[t], c)) = {}
    <3> DEFINE U == Limiter!Charge(hits[t], c)
    <3>1. ~Limiter!Opens(hits[t], c) BY <2>2 DEF Limiter!Limited, Limiter!Opens
    <3>2. DOMAIN U = DOMAIN hits[t] /\ \A i \in DOMAIN hits[t] : U[i].key = hits[t][i].key
      BY <1>2, <3>1, ChargeCounts
    <3> HIDE DEF U
    <3>3. \A i \in DOMAIN hits[t] : Limiter!Entry(U, hits[t][i].key) # {}
      BY <3>2 DEF Limiter!Entry
    <3>4. QED BY <3>3 DEF Limiter!LostTo, U
  <2>3. QED BY <2>1, <2>2
<1>12. CASE \E ip \in Ips : Limiter!Refused(ip) \/ Limiter!Anonymous(ip)
  <2>1. PICK ip \in Ips : Limiter!Refused(ip) \/ Limiter!Anonymous(ip) BY <1>12
  <2>2. requests' \in 0..MaxCalls /\ limiterClock' = limiterClock BY <1>10, <1>12
  <2>3. ip \in KeysIn("ip") /\ ip \in Limiter!Keys BY <1>3
  <2> DEFINE L == Limiter!LostTo(hits["ip"], Limiter!Charge(hits["ip"], ip))
  <2>4. /\ hits' = [hits EXCEPT !["ip"] = Limiter!Charge(hits["ip"], ip)]
        /\ evicted' = evicted \cup L
        /\ admitted' = [admitted EXCEPT ![ip] =
              IF ~Limiter!Limited("ip", hits["ip"], ip) THEN Append(admitted[ip], limiterClock)
              ELSE admitted[ip]]
    <3>1. CASE Limiter!Refused(ip)
      <4>1. Limiter!Limited("ip", hits["ip"], ip) BY <3>1 DEF Limiter!Refused
      <4>2. L = {} BY <1>4, <1>11, <2>3, <4>1
      <4>3. /\ hits' = [hits EXCEPT !["ip"] = Limiter!Charge(hits["ip"], ip)]
            /\ evicted' = evicted /\ admitted' = admitted
        BY <3>1 DEF Limiter!Refused
      <4>4. admitted = [admitted EXCEPT ![ip] = admitted[ip]] BY <1>2
      <4>5. QED BY <4>1, <4>2, <4>3, <4>4
    <3>2. CASE Limiter!Anonymous(ip)
      <4>1. /\ ~Limiter!Limited("ip", hits["ip"], ip)
            /\ hits' = [hits EXCEPT !["ip"] = Limiter!Charge(hits["ip"], ip)]
            /\ evicted' = evicted \cup L
            /\ admitted' = [admitted EXCEPT ![ip] = Append(admitted[ip], limiterClock)]
        BY <3>2 DEF Limiter!Anonymous
      <4>2. QED BY <4>1
    <3>3. QED BY <2>1, <3>1, <3>2
  <2>5. evicted' \subseteq Limiter!Keys BY <1>2, <1>4, <1>11, <2>3, <2>4
  <2>6. /\ hits' = [t \in Limiter!Tables |-> hits'[t]]
        /\ hits'["ip"] = Limiter!Charge(hits["ip"], ip) /\ hits'["address"] = hits["address"]
    BY <1>2, <1>3, <2>4
  <2>7. /\ admitted' = [k \in Limiter!Keys |-> admitted'[k]]
        /\ \A k \in Limiter!Keys :
              admitted'[k] = IF k = ip /\ ~Limiter!Limited("ip", hits["ip"], ip)
                             THEN Append(admitted[k], limiterClock) ELSE admitted[k]
    BY <1>2, <2>3, <2>4
  <2> HIDE DEF L
  <2>8. TableKept(hits["ip"], "ip")' /\ StalestOnly("ip") /\ \A k \in Ips : PacedKey(k)'
    <3>1. \A k \in Ips : admitted'[k] = IF k = ip /\ ~Limiter!Limited("ip", hits["ip"], ip)
                            THEN Append(admitted[k], limiterClock) ELSE admitted[k]
      BY <1>4, <2>7
    <3>2. evicted \cup Limiter!LostTo(hits["ip"], Limiter!Charge(hits["ip"], ip)) \subseteq evicted'
      BY <2>4 DEF L
    <3>3. QED BY <1>3, <1>4, <1>8, <2>2, <2>3, <2>6, <3>1, <3>2
  <2>9. TableKept(hits["address"], "address")' /\ StalestOnly("address")
        /\ \A k \in Addresses : PacedKey(k)'
    <3>1. \A k \in Addresses : admitted'[k] = admitted[k] BY <1>3, <2>7
    <3>2. evicted \subseteq evicted' BY <2>4
    <3>3. QED BY <1>3, <1>4, <1>9, <2>2, <2>6, <3>1, <3>2
  <2>10. \A k \in Limiter!Keys :
           admitted'[k] = admitted[k] \/ admitted'[k] = Append(admitted[k], limiterClock)
    BY <2>7
  <2>11. limiterClock' \in 0..MaxClock BY <1>2, <2>2
  <2>12. \A t \in Limiter!Tables : TableKept(hits[t], t)' /\ StalestOnly(t)
    BY <1>3, <2>8, <2>9
  <2>13. \A k \in Limiter!Keys : PacedKey(k)' BY <1>3, <2>8, <2>9
  <2>14. QED BY <1>5, <2>2, <2>5, <2>6, <2>7, <2>10, <2>11, <2>12, <2>13
<1>13. CASE \E ip \in Ips, a \in Addresses : Limiter!ToolCall(ip, a)
  <2>1. PICK ip \in Ips, a \in Addresses : Limiter!ToolCall(ip, a) BY <1>13
  <2>2. requests' \in 0..MaxCalls /\ limiterClock' = limiterClock BY <1>10, <1>13
  <2>3. ip \in KeysIn("ip") /\ a \in KeysIn("address") /\ ip \in Limiter!Keys
        /\ a \in Limiter!Keys /\ ip # a
    BY <1>3
  <2> DEFINE L == Limiter!LostTo(hits["ip"], Limiter!Charge(hits["ip"], ip))
             K == Limiter!LostTo(hits["address"], Limiter!Charge(hits["address"], a))
             later == IF Limiter!Limited("address", hits["address"], a) THEN admitted[a]
                      ELSE Append(admitted[a], limiterClock)
  <2>4. /\ ~Limiter!Limited("ip", hits["ip"], ip)
        /\ hits' = [ip |-> Limiter!Charge(hits["ip"], ip),
                    address |-> Limiter!Charge(hits["address"], a)]
        /\ evicted' = evicted \cup L \cup K
        /\ admitted' = [admitted EXCEPT ![ip] = Append(admitted[ip], limiterClock), ![a] = later]
    BY <2>1, <2>3 DEF Limiter!ToolCall
  <2>5. evicted' \subseteq Limiter!Keys BY <1>2, <1>4, <1>11, <2>3, <2>4
  <2>6. /\ hits' = [t \in Limiter!Tables |-> hits'[t]]
        /\ hits'["ip"] = Limiter!Charge(hits["ip"], ip)
        /\ hits'["address"] = Limiter!Charge(hits["address"], a)
    BY <1>3, <2>4
  <2>7. /\ admitted' = [k \in Limiter!Keys |-> admitted'[k]]
        /\ \A k \in Limiter!Keys :
              admitted'[k] = IF k = ip THEN Append(admitted[k], limiterClock)
                             ELSE IF k = a THEN later ELSE admitted[k]
    BY <1>2, <2>3, <2>4
  <2> HIDE DEF L, K
  <2>8. TableKept(hits["ip"], "ip")' /\ StalestOnly("ip") /\ \A k \in Ips : PacedKey(k)'
    <3>1. \A k \in Ips : admitted'[k] = IF k = ip /\ ~Limiter!Limited("ip", hits["ip"], ip)
                            THEN Append(admitted[k], limiterClock) ELSE admitted[k]
      BY <1>3, <1>4, <2>4, <2>7
    <3>2. evicted \cup Limiter!LostTo(hits["ip"], Limiter!Charge(hits["ip"], ip)) \subseteq evicted'
      BY <2>4 DEF L
    <3>3. QED BY <1>3, <1>4, <1>8, <2>2, <2>3, <2>6, <3>1, <3>2
  <2>9. TableKept(hits["address"], "address")' /\ StalestOnly("address")
        /\ \A k \in Addresses : PacedKey(k)'
    <3>1. \A k \in Addresses :
            admitted'[k] = IF k = a /\ ~Limiter!Limited("address", hits["address"], a)
                           THEN Append(admitted[k], limiterClock) ELSE admitted[k]
      BY <1>3, <1>4, <2>7
    <3>2. evicted \cup Limiter!LostTo(hits["address"], Limiter!Charge(hits["address"], a))
            \subseteq evicted'
      BY <2>4 DEF K
    <3>3. QED BY <1>3, <1>4, <1>8, <2>2, <2>3, <2>6, <3>1, <3>2
  <2>10. \A k \in Limiter!Keys :
           admitted'[k] = admitted[k] \/ admitted'[k] = Append(admitted[k], limiterClock)
    BY <2>7
  <2>11. limiterClock' \in 0..MaxClock BY <1>2, <2>2
  <2>12. \A t \in Limiter!Tables : TableKept(hits[t], t)' /\ StalestOnly(t)
    BY <1>3, <2>8, <2>9
  <2>13. \A k \in Limiter!Keys : PacedKey(k)' BY <1>3, <2>8, <2>9
  <2>14. QED BY <1>5, <2>2, <2>5, <2>6, <2>7, <2>10, <2>11, <2>12, <2>13
<1>14. CASE UNCHANGED Limiter!vars
  <2>1. /\ limiterClock' = limiterClock /\ hits' = hits /\ admitted' = admitted
        /\ evicted' = evicted /\ requests' = requests
    BY <1>14 DEF Limiter!vars
  <2>2. /\ limiterClock' \in Nat /\ limiterClock <= limiterClock'
        /\ limiterClock' \in 0..MaxClock
    BY <1>2, <2>1
  <2>3. \A t \in Limiter!Tables : TableKept(hits[t], t)' /\ StalestOnly(t)
    BY <1>1, <2>1, <2>2, TableAlone
  <2>4. \A k \in Limiter!Keys : PacedKey(k)'
    <3> SUFFICES ASSUME NEW k \in Limiter!Keys PROVE PacedKey(k)'
      OBVIOUS
    <3>1. Limiter!TableOf(k) \in Limiter!Tables BY <1>3
    <3>2. QED BY <1>1, <2>1, <2>2, <3>1, KeyAlone
  <2>5. QED BY <1>2, <1>5, <2>1, <2>2, <2>3, <2>4
<1>15. QED BY <1>6, <1>7, <1>12, <1>13, <1>14 DEF Limiter!Next

(* A key whose window is never evicted is let through less than twice the    *)
(* limit in any span of a window's length, and only the running window that  *)
(* ends first is ever evicted, from a table full of running ones: at the     *)
(* edges of windows and at the ceiling of the table too.                     *)
THEOREM RatesHold == ServicesSpec => RateHolds
<1>1. ServicesInit => RateInv
  BY RateStart DEF ServicesInit
<1>2. RateInv /\ [ServicesNext]_servicesVars =>
         RateInv' /\ [\A t \in Limiter!Tables : StalestOnly(t)]_(Limiter!vars)
  BY RateStep, ServiceSteps
<1>3. RateInv => Limiter!RateBounded
  BY RateKept
<1>4. (\A t \in Limiter!Tables : StalestOnly(t)) <=>
        \A t \in Limiter!Tables : \A i \in DOMAIN hits[t] :
          Limiter!Live(hits[t][i]) /\ Limiter!Entry(hits'[t], hits[t][i].key) = {}
            => /\ Len(hits[t]) = MaxKeys
               /\ \A j \in DOMAIN hits[t] :
                    Limiter!Live(hits[t][j]) /\ hits[t][i].resetAt <= hits[t][j].resetAt
  BY DEF StalestOnly
<1>5. QED
  BY <1>1, <1>2, <1>3, <1>4, PTL
  DEF ServicesSpec, RateHolds, Limiter!OnlyTheStalestEvicted

-----------------------------------------------------------------------------
(* The types of the services, besides what their invariants hold.          *)

(* The indexer.                                                            *)
IndexBounds ==
    /\ next \in 0..Len(log) /\ more \in BOOLEAN /\ polling \in BOOLEAN
    /\ skipped \subseteq Indexer!Pairs
    /\ throws \in 0..MaxThrows /\ blanks \in 0..MaxBlanks /\ indexerBoots \in 1..MaxBoots

LEMMA IndexBoundsStart == Indexer!Init => IndexBounds
<1> SUFFICES ASSUME Indexer!Init PROVE IndexBounds OBVIOUS
<1>1. /\ log = <<>> /\ next = 0 /\ more = FALSE /\ polling = FALSE /\ skipped = {}
      /\ throws = 0 /\ blanks = 0 /\ indexerBoots = 1
  BY DEF Indexer!Init
<1>2. MaxThrows \in Nat /\ MaxBlanks \in Nat /\ MaxBoots \in Nat \ {0}
  BY ServicesAssumption DEF Indexer!IndexerAssumption
<1>3. more \in BOOLEAN /\ polling \in BOOLEAN BY <1>1
<1>4. Len(log) = 0 BY <1>1
<1>5. QED BY <1>1, <1>2, <1>3, <1>4 DEF IndexBounds

LEMMA IndexBoundsStep ==
    ASSUME IndexTyped, IndexBounds, [Indexer!Next]_(Indexer!vars)
    PROVE  IndexBounds'
<1>0. /\ MaxThrows \in Nat /\ MaxBlanks \in Nat /\ MaxBoots \in Nat /\ PageLimit \in Nat
      /\ Len(log) \in Nat /\ cursor \in 0..Len(log)
  BY ServicesAssumption DEF Indexer!IndexerAssumption, IndexTyped
<1>1. CASE UNCHANGED Indexer!vars BY <1>1 DEF Indexer!vars, IndexBounds
<1>2. ASSUME NEW p \in Indexer!Pairs, Indexer!Register(p) PROVE IndexBounds'
  <2>1. Len(log') = Len(log) + 1 BY <1>2 DEF Indexer!Register, IndexTyped
  <2>2. next' \in 0..Len(log') BY <1>0, <1>2, <2>1 DEF Indexer!Register, IndexBounds
  <2>3. QED BY <1>2, <2>2 DEF Indexer!Register, IndexBounds
<1>3. CASE Indexer!Tick
  <2>1. polling' \in BOOLEAN BY <1>3 DEF Indexer!Tick
  <2>2. QED BY <1>3, <2>1 DEF Indexer!Tick, IndexBounds
<1>4. ASSUME NEW seen_ \in cursor..Len(log), Indexer!Fetch(seen_) PROVE IndexBounds'
  <2> DEFINE last == IF cursor + PageLimit < seen_ THEN cursor + PageLimit ELSE seen_
  <2>1. /\ next' = last /\ more' = (last < seen_) /\ polling' = (last > cursor)
        /\ UNCHANGED <<log, skipped, throws, blanks, indexerBoots>>
    BY <1>4 DEF Indexer!Fetch
  <2>2. last \in 0..Len(log) BY <1>0
  <2> HIDE DEF last
  <2>3. more' \in BOOLEAN /\ polling' \in BOOLEAN BY <2>1
  <2>4. QED BY <2>1, <2>2, <2>3 DEF IndexBounds
<1>5. CASE Indexer!NextEvent /\ skipped' \subseteq Indexer!Pairs /\ throws' \in 0..MaxThrows
           /\ blanks' \in 0..MaxBlanks
  <2>1. polling' \in BOOLEAN BY <1>5 DEF Indexer!NextEvent, IndexBounds
  <2>2. UNCHANGED <<log, next, more, indexerBoots>> BY <1>5 DEF Indexer!NextEvent
  <2>3. QED BY <1>5, <2>1, <2>2 DEF IndexBounds
<1>6. CASE Indexer!Ingest BY <1>5, <1>6 DEF Indexer!Ingest, IndexBounds
<1>7. CASE Indexer!IngestBlank
  <2>1. Head(page) \in Indexer!Pairs BY <1>7 DEF Indexer!IngestBlank, IndexTyped
  <2>2. skipped' \subseteq Indexer!Pairs BY <1>7, <2>1 DEF Indexer!IngestBlank, IndexBounds
  <2>3. throws' = throws /\ blanks' \in 0..MaxBlanks
    BY <1>0, <1>7 DEF Indexer!IngestBlank, IndexBounds
  <2>4. QED BY <1>5, <1>7, <2>2, <2>3 DEF Indexer!IngestBlank, IndexBounds
<1>8. CASE Indexer!PollThrows
  <2>1. throws' \in 0..MaxThrows BY <1>0, <1>8 DEF Indexer!PollThrows, IndexBounds
  <2>2. polling' \in BOOLEAN BY <1>8 DEF Indexer!PollThrows
  <2>3. QED BY <1>8, <2>1, <2>2 DEF Indexer!PollThrows, IndexBounds
<1>9. CASE Indexer!Restart
  <2>1. indexerBoots' \in 1..MaxBoots BY <1>0, <1>9 DEF Indexer!Restart, IndexBounds
  <2>2. more' \in BOOLEAN /\ polling' \in BOOLEAN BY <1>9 DEF Indexer!Restart
  <2>3. next' \in 0..Len(log) BY <1>0, <1>9 DEF Indexer!Restart
  <2>4. QED BY <1>9, <2>1, <2>2, <2>3 DEF Indexer!Restart, IndexBounds
<1>10. QED
  BY <1>1, <1>2, <1>3, <1>4, <1>6, <1>7, <1>8, <1>9 DEF Indexer!Next

LEMMA IndexIsTyped == IndexTyped /\ IndexBounds => Indexer!TypeOK
BY DEF IndexTyped, IndexBounds, Indexer!TypeOK

-----------------------------------------------------------------------------
(* The balance: a query is asked in a time that has been.                  *)
BalanceBounds ==
    /\ balanceClock <= MaxClock /\ poll.since <= balanceClock /\ live.since <= balanceClock
    /\ nextPoll \in 0..(MaxClock + PollMs)
    /\ asks \in [Callers -> Balance!Answers \cup {"none", "waits"}]
    /\ spends \in 0..MaxSpends /\ balanceBoots \in 1..MaxBoots

LEMMA BalanceLimits ==
    MaxClock \in Nat /\ PollMs \in Nat /\ MaxSpends \in Nat /\ MaxBoots \in Nat \ {0}
BY ServicesAssumption DEF Balance!BalanceAssumption

LEMMA BalanceBoundsStart == Balance!Init => BalanceBounds
<1> SUFFICES ASSUME Balance!Init PROVE BalanceBounds OBVIOUS
<1>1. /\ balanceClock = 0 /\ poll.since = 0 /\ live.since = 0 /\ nextPoll = 0
      /\ asks = [u \in Callers |-> "none"] /\ spends = 0 /\ balanceBoots = 1
  BY DEF Balance!Init, Balance!Idle
<1>2. asks \in [Callers -> Balance!Answers \cup {"none", "waits"}] BY <1>1
<1>3. QED BY <1>1, <1>2, BalanceLimits DEF BalanceBounds

LEMMA BalanceBoundsStep ==
    ASSUME BalanceInv, BalanceBounds, [Balance!Next]_(Balance!vars)
    PROVE  BalanceBounds'
<1>0. balanceClock \in Nat /\ balanceClock <= MaxClock BY DEF BalanceInv, BalanceBounds
<1>1. /\ Balance!Idle.since = 0 /\ Balance!Ask.since = balanceClock
      /\ \A q : ReadLately(q) => Balance!Reads(q).since = q.since
  BY DEF Balance!Idle, Balance!Ask, Balance!Reads, ReadLately
<1>2. ReadLately(poll) /\ ReadLately(live) BY DEF BalanceInv
<1>3. ASSUME UNCHANGED <<balanceClock, spends, balanceBoots>>,
             poll' \in {poll, Balance!Idle, Balance!Ask, Balance!Reads(poll)},
             live' \in {live, Balance!Idle, Balance!Ask, Balance!Reads(live)},
             nextPoll' \in {nextPoll, balanceClock + PollMs},
             asks' \in [Callers -> Balance!Answers \cup {"none", "waits"}]
      PROVE  BalanceBounds'
  <2>1. poll'.since <= balanceClock BY <1>0, <1>1, <1>2, <1>3 DEF BalanceBounds
  <2>2. live'.since <= balanceClock BY <1>0, <1>1, <1>2, <1>3 DEF BalanceBounds
  <2>3. nextPoll' \in 0..(MaxClock + PollMs) BY <1>0, <1>3, BalanceLimits DEF BalanceBounds
  <2>4. QED BY <1>3, <2>1, <2>2, <2>3 DEF BalanceBounds
<1>4. CASE UNCHANGED Balance!vars BY <1>4 DEF Balance!vars, BalanceBounds
<1>5. CASE Balance!Tick
  <2>1. balanceClock' = balanceClock + 1 /\ balanceClock < MaxClock
        /\ UNCHANGED <<poll, live, nextPoll, asks, spends, balanceBoots>>
    BY <1>5 DEF Balance!Tick
  <2>2. poll.since \in Nat /\ live.since \in Nat BY <1>2 DEF ReadLately
  <2>3. QED BY <1>0, <2>1, <2>2, BalanceLimits DEF BalanceBounds
<1>6. CASE Balance!CreditMoves
  BY <1>6, BalanceLimits DEF Balance!CreditMoves, BalanceBounds
<1>7. CASE Balance!PollStart \/ Balance!PollReads \/ Balance!PollDone \/ Balance!PollFails
  <2>1. asks' \in [Callers -> Balance!Answers \cup {"none", "waits"}]
        /\ UNCHANGED <<balanceClock, spends, balanceBoots, live>>
    BY <1>7 DEF Balance!PollStart, Balance!PollReads, Balance!PollDone, Balance!PollFails, BalanceBounds
  <2>2. /\ poll' \in {poll, Balance!Idle, Balance!Ask, Balance!Reads(poll)}
        /\ nextPoll' \in {nextPoll, balanceClock + PollMs}
    BY <1>7 DEF Balance!PollStart, Balance!PollReads, Balance!PollDone, Balance!PollFails
  <2>3. QED BY <1>3, <2>1, <2>2
<1>8. ASSUME NEW u \in Callers, Balance!AskWarm(u) \/ Balance!AskLive(u) PROVE BalanceBounds'
  <2>1. asks' \in [Callers -> Balance!Answers \cup {"none", "waits"}]
    <3>1. \A e : Balance!Verdict(e) \in Balance!Answers BY DEF Balance!Verdict, Balance!Answers
    <3>2. QED BY <1>8, <3>1 DEF Balance!AskWarm, Balance!AskLive, BalanceBounds
  <2>2. /\ UNCHANGED <<balanceClock, spends, balanceBoots, poll, nextPoll>>
        /\ live' \in {live, Balance!Ask}
    BY <1>8 DEF Balance!AskWarm, Balance!AskLive
  <2>3. QED BY <1>3, <2>1, <2>2
<1>9. CASE Balance!LiveReads \/ Balance!LiveDone \/ Balance!LiveFails
  <2>1. asks' \in [Callers -> Balance!Answers \cup {"none", "waits"}]
    <3>1. \A e : Balance!Verdict(e) \in Balance!Answers BY DEF Balance!Verdict, Balance!Answers
    <3>2. \A a \in Balance!Answers :
            Balance!Told(a) \in [Callers -> Balance!Answers \cup {"none", "waits"}]
      BY DEF Balance!Told, BalanceBounds
    <3>3. "unknown" \in Balance!Answers BY DEF Balance!Answers
    <3>4. QED BY <1>9, <3>1, <3>2, <3>3
            DEF Balance!LiveReads, Balance!LiveDone, Balance!LiveFails, BalanceBounds
  <2>2. /\ UNCHANGED <<balanceClock, spends, balanceBoots, poll, nextPoll>>
        /\ live' \in {live, Balance!Idle, Balance!Reads(live)}
    BY <1>9 DEF Balance!LiveReads, Balance!LiveDone, Balance!LiveFails
  <2>3. QED BY <1>3, <2>1, <2>2
<1>10. CASE Balance!Restart
  <2>1. asks' \in [Callers -> Balance!Answers \cup {"none", "waits"}]
    BY <1>10 DEF Balance!Restart, BalanceBounds
  <2>2. /\ UNCHANGED <<balanceClock, spends>> /\ poll' = Balance!Idle /\ live' = Balance!Idle
        /\ nextPoll' = balanceClock /\ balanceBoots < MaxBoots /\ balanceBoots' = balanceBoots + 1
    BY <1>10 DEF Balance!Restart
  <2>3. nextPoll' \in 0..(MaxClock + PollMs) /\ balanceBoots' \in 1..MaxBoots
    BY <1>0, <2>2, BalanceLimits DEF BalanceBounds
  <2>4. QED BY <1>0, <1>1, <2>1, <2>2, <2>3 DEF BalanceBounds
<1>11. QED
  BY <1>4, <1>5, <1>6, <1>7, <1>8, <1>9, <1>10 DEF Balance!Next

LEMMA BalanceIsTyped == BalanceInv /\ BalanceBounds => Balance!TypeOK
<1> SUFFICES ASSUME BalanceInv, BalanceBounds PROVE Balance!TypeOK OBVIOUS
<1>1. balanceClock \in 0..MaxClock BY BalanceLimits DEF BalanceInv, BalanceBounds
<1>2. seen \in [BOOLEAN -> 0..MaxClock]
  <2>1. \A b \in BOOLEAN : seen[b] \in 0..MaxClock
    BY <1>1, BalanceTyped, BalanceLimits DEF BalanceBounds
  <2>2. QED BY <2>1 DEF BalanceInv
<1>3. ASSUME NEW q, ReadLately(q), q.since <= balanceClock PROVE q \in Balance!Queries
  <2>1. q \in [phase : Balance!Phases, since : Nat, enough : BOOLEAN] BY <1>3 DEF ReadLately
  <2>2. q.since \in 0..MaxClock BY <1>1, <1>3, <2>1, BalanceLimits
  <2>3. QED BY <2>1, <2>2 DEF Balance!Queries
<1>4. row \in [enough : BOOLEAN, at : 0..MaxClock] \cup {Balance!NoRow}
  <2>1. CASE row # Balance!NoRow
    <3>1. row \in [enough : BOOLEAN, at : Nat] /\ row.at <= balanceClock BY <2>1 DEF BalanceInv, RowKept
    <3>2. row.at \in 0..MaxClock BY <1>1, <3>1, BalanceLimits
    <3>3. QED BY <3>1, <3>2
  <2>2. QED BY <2>1
<1>5. poll \in Balance!Queries /\ live \in Balance!Queries BY <1>3 DEF BalanceInv, BalanceBounds
<1>6. credit \in BOOLEAN BY DEF BalanceInv
<1>7. QED BY <1>1, <1>2, <1>4, <1>5, <1>6 DEF Balance!TypeOK, BalanceBounds

-----------------------------------------------------------------------------
(* A generation.                                                           *)
ChainTypes ==
    /\ elapsed \in Nat /\ attempt \in Nat
    /\ remote \in [Chain!Tasks -> {"none", "running", "done", "failed"}]
    /\ created \in [Chain!Tasks -> Nat]
    /\ outcome \in Chain!Errors \cup {"none", "done"}

LEMMA ChainTypesStart == Chain!Init => ChainTypes
<1> SUFFICES ASSUME Chain!Init PROVE ChainTypes OBVIOUS
<1>1. remote = [t \in Chain!Tasks |-> "none"] /\ created = [t \in Chain!Tasks |-> 0]
  BY DEF Chain!Init
<1>2. remote \in [Chain!Tasks -> {"none", "running", "done", "failed"}] BY <1>1
<1>3. created \in [Chain!Tasks -> Nat] BY <1>1
<1>4. elapsed = 0 /\ attempt = 0 /\ outcome = "none" BY DEF Chain!Init
<1>5. QED BY <1>2, <1>3, <1>4 DEF ChainTypes

LEMMA ChainTypesStep ==
    ASSUME ChainTypes, [Chain!Next]_(Chain!vars)
    PROVE  ChainTypes'
<1> USE DEF ChainTypes, Chain!Errors
<1>1. CASE UNCHANGED Chain!vars BY <1>1 DEF Chain!vars
<1>2. ASSUME NEW t \in Chain!Tasks, Chain!Submit(t) PROVE ChainTypes'
  <2>1. elapsed' = 0 /\ attempt' = 0 BY <1>2 DEF Chain!Submit
  <2>2. \/ /\ remote' = [remote EXCEPT ![t] = "running"]
           /\ created' = [created EXCEPT ![t] = @ + 1]
        \/ UNCHANGED <<remote, created>>
    BY <1>2 DEF Chain!Submit
  <2>3. outcome' \in {outcome, "format", "timeout", "failed", "auth"}
    BY <1>2 DEF Chain!Submit, Chain!Fail
  <2>4. created' \in [Chain!Tasks -> Nat] BY <2>2
  <2>5. remote' \in [Chain!Tasks -> {"none", "running", "done", "failed"}] BY <2>2
  <2>6. QED BY <2>1, <2>3, <2>4, <2>5
<1>3. ASSUME NEW t \in Chain!Tasks, Chain!TaskEnds(t) PROVE ChainTypes'
  BY <1>3 DEF Chain!TaskEnds
<1>4. ASSUME NEW t \in Chain!Tasks, Chain!PollAnswered(t) PROVE ChainTypes'
  <2>1. UNCHANGED <<remote, created>> BY <1>4 DEF Chain!PollAnswered
  <2>2. outcome' \in {outcome, "format", "timeout"} BY <1>4 DEF Chain!PollAnswered, Chain!Fail
  <2>3. \/ UNCHANGED <<elapsed, attempt>>
        \/ elapsed' = elapsed + Chain!DelayOf(attempt) /\ attempt' = attempt + 1
    BY <1>4 DEF Chain!PollAnswered
  <2>4. elapsed' \in Nat /\ attempt' \in Nat BY <2>3, ChainConstants
  <2>5. QED BY <2>1, <2>2, <2>4
<1>5. ASSUME NEW t \in Chain!Tasks, Chain!PollFails(t) PROVE ChainTypes'
  <2>1. outcome' \in {"failed", "auth", "timeout"} BY <1>5 DEF Chain!PollFails, Chain!Fail
  <2>2. QED BY <1>5, <2>1 DEF Chain!PollFails
<1>6. CASE Chain!Download
  <2>1. outcome' \in {"failed", "done", "timeout"} BY <1>6 DEF Chain!Download, Chain!Fail
  <2>2. QED BY <1>6, <2>1 DEF Chain!Download
<1>7. QED BY <1>1, <1>2, <1>3, <1>4, <1>5, <1>6 DEF Chain!Next

LEMMA ChainIsTyped == ChainInv /\ ChainTypes => Chain!TypeOK
BY DEF ChainInv, ChainTypes, Chain!TypeOK

-----------------------------------------------------------------------------
(* An agent's arc: sales are numbered and fit into their bound.            *)
ArcTypes ==
    /\ ents \subseteq Agent!Entitlement /\ IsFiniteSet(ents)
    /\ offers \subseteq [model : Models, sender : Agents] /\ material \subseteq Agent!Material
    /\ temp \subseteq Agent!Part /\ crashes \in 0..MaxCrashes
    /\ \A m \in Models : file[m] \in Agent!Part \cup {Agent!NoFile}

LEMMA ArcTypesStart == Agent!Init => ArcTypes
<1> SUFFICES ASSUME Agent!Init PROVE ArcTypes OBVIOUS
<1>1. MaxCrashes \in Nat BY ServicesAssumption DEF Agent!ArcAssumption
<1>2. QED BY <1>1, FS_EmptySet DEF Agent!Init, ArcTypes

LEMMA ArcTypesStep ==
    ASSUME ArcInv, ArcTypes, [Agent!Next]_(Agent!vars)
    PROVE  ArcTypes'
<1>1. CASE UNCHANGED Agent!vars BY <1>1 DEF Agent!vars, ArcTypes
<1>2. CASE Agent!ReplicaCatchesUp BY <1>2 DEF Agent!ReplicaCatchesUp, ArcTypes
<1>3. CASE Agent!KeyAnswers \/ Agent!Plaintext
  BY <1>3 DEF Agent!KeyAnswers, Agent!Plaintext, ArcTypes
<1>4. ASSUME run # Agent!NoRun PROVE \A w \in BOOLEAN : Agent!Mine(w) \in Agent!Part
  <2>1. run.signer \in Agents /\ run.of \in material BY <1>4 DEF ArcInv, HelperEntitled
  <2>2. run.of.model \in Models BY <2>1 DEF ArcTypes, Agent!Material
  <2>3. QED BY <2>1, <2>2 DEF Agent!Mine, Agent!Part
<1>5. ASSUME temp' \subseteq temp \cup {Agent!Mine(TRUE), Agent!Mine(FALSE)}, run # Agent!NoRun
      PROVE  temp' \subseteq Agent!Part
  BY <1>4, <1>5 DEF ArcTypes
<1>6. CASE Agent!WriteStarts \/ Agent!WriteEnds
  <2>1. run # Agent!NoRun
    <3>1. Agent!NoRun.stage = "none" BY DEF Agent!NoRun
    <3>2. run.stage \in {"write", "writing"} BY <1>6 DEF Agent!WriteStarts, Agent!WriteEnds
    <3>3. QED BY <3>1, <3>2
  <2>2. temp' \subseteq temp \cup {Agent!Mine(TRUE), Agent!Mine(FALSE)}
        /\ UNCHANGED <<ents, offers, material, file, crashes>>
    BY <1>6 DEF Agent!WriteStarts, Agent!WriteEnds
  <2>3. QED BY <1>5, <2>1, <2>2 DEF ArcTypes
<1>7. CASE Agent!Rename
  <2>1. PICK part \in temp :
          /\ temp' = temp \ {part} /\ file' \in {file, [file EXCEPT ![run.of.model] = part]}
    BY <1>7 DEF Agent!Rename
  <2>2. UNCHANGED <<ents, offers, material, crashes>> BY <1>7 DEF Agent!Rename
  <2>3. part \in Agent!Part BY DEF ArcTypes
  <2>4. DOMAIN file = Models BY DEF ArcInv
  <2>5. \A m \in Models : file'[m] \in {file[m], part} BY <2>1, <2>4
  <2>6. QED BY <2>1, <2>2, <2>3, <2>5 DEF ArcTypes
<1>8. CASE Agent!Crash
  <2>1. MaxCrashes \in Nat BY ServicesAssumption DEF Agent!ArcAssumption
  <2>2. crashes' \in 0..MaxCrashes BY <1>8, <2>1 DEF Agent!Crash, ArcTypes
  <2>3. QED BY <1>8, <2>2 DEF Agent!Crash, ArcTypes
<1>9. ASSUME NEW m \in Models, NEW a \in Agents, Agent!build_purchase_tx(m, a) PROVE ArcTypes'
  BY <1>9 DEF Agent!build_purchase_tx, ArcTypes
<1>10. ASSUME NEW m \in Models, NEW a \in Agents, NEW e \in replica, Agent!download_content(m, e, a)
       PROVE  ArcTypes'
  <2>1. e \in Agent!Entitlement BY DEF ArcInv, OffersChecked, ArcTypes
  <2>2. [model |-> m, ent |-> e] \in Agent!Material BY <2>1 DEF Agent!Material
  <2>3. QED BY <1>10, <2>2 DEF Agent!download_content, ArcTypes
<1>11. ASSUME NEW o \in offers, Agent!Execute(o) PROVE ArcTypes'
  <2> DEFINE e == [id |-> Agent!Cardinality(ents) + 1, model |-> o.model, owner |-> o.sender]
  <2>1. /\ Agent!Cardinality(ents) < MaxEntitlements /\ ents' = ents \cup {e}
        /\ UNCHANGED <<offers, material, temp, file, crashes>>
    BY <1>11 DEF Agent!Execute
  <2>2. Agent!Cardinality(ents) = Cardinality(ents) /\ Cardinality(ents) \in Nat
    BY FS_CardinalityType DEF ArcTypes, Agent!Cardinality, Cardinality
  <2>3. MaxEntitlements \in Nat BY ServicesAssumption DEF Agent!ArcAssumption
  <2>4. Agent!Cardinality(ents) + 1 \in 1..MaxEntitlements BY <2>1, <2>2, <2>3
  <2>5. o.model \in Models /\ o.sender \in Agents BY DEF ArcTypes
  <2>6. e \in Agent!Entitlement BY <2>4, <2>5 DEF Agent!Entitlement
  <2> HIDE DEF e
  <2>7. IsFiniteSet(ents') BY <2>1, FS_AddElement DEF ArcTypes
  <2>8. QED BY <2>1, <2>6, <2>7 DEF ArcTypes
<1>12. ASSUME NEW m \in material, NEW a \in Agents, Agent!runAgentDecrypt(m, a) PROVE ArcTypes'
  BY <1>12 DEF Agent!runAgentDecrypt, ArcTypes
<1>13. QED
  BY <1>1, <1>2, <1>3, <1>6, <1>7, <1>8, <1>9, <1>10, <1>11, <1>12 DEF Agent!Next

LEMMA ArcIsTyped == ArcInv /\ ArcTypes => Agent!TypeOK
<1> SUFFICES ASSUME ArcInv, ArcTypes PROVE Agent!TypeOK OBVIOUS
<1>1. run = Agent!NoRun \/ (run.of \in Agent!Material /\ run.signer \in Agents)
  BY DEF ArcInv, HelperEntitled, ArcTypes
<1>2. QED BY <1>1 DEF ArcInv, OffersChecked, ArcTypes, Agent!TypeOK

-----------------------------------------------------------------------------
(* Discovery.                                                              *)
CallTypes ==
    /\ counts \in [Forks -> 0..MaxCount]
    /\ call.step \in {"idle", "object", "query", "name"} /\ call.id \in Bases \cup Strange \cup {0}

LEMMA CallTypesStart == Discovery!Init => CallTypes
<1>1. MaxCount \in Nat BY ServicesAssumption DEF Discovery!DiscoveryAssumption
<1>2. QED BY <1>1 DEF Discovery!Init, Discovery!NoCall, CallTypes

LEMMA CallTypesStep ==
    ASSUME CallAsksIndex, CallTypes, [Discovery!Next]_(Discovery!vars)
    PROVE  CallTypes'
<1>0. MaxCount \in Nat BY ServicesAssumption DEF Discovery!DiscoveryAssumption
<1>1. CASE UNCHANGED <<counts, call>> BY <1>1 DEF CallTypes
<1>2. CASE call' = Discovery!NoCall /\ counts' = counts BY <1>2 DEF Discovery!NoCall, CallTypes
<1>3. ASSUME NEW outcome_, NEW list, Discovery!Reply(outcome_, list) PROVE CallTypes'
  BY <1>2, <1>3 DEF Discovery!Reply
<1>4. CASE UNCHANGED Discovery!vars BY <1>1, <1>4 DEF Discovery!vars
<1>5. ASSUME NEW f \in Forks, Discovery!Launch(f) \/ Discovery!IndexCatchesUp(f) PROVE CallTypes'
  BY <1>1, <1>5 DEF Discovery!Launch, Discovery!IndexCatchesUp
<1>6. ASSUME NEW f \in Forks, Discovery!Integrated(f) PROVE CallTypes'
  BY <1>0, <1>6 DEF Discovery!Integrated, CallTypes
<1>7. CASE Discovery!Restart BY <1>0, <1>7 DEF Discovery!Restart, Discovery!NoCall, CallTypes
<1>8. ASSUME NEW tool, NEW id \in Bases \cup Strange, Discovery!Call(tool, id) PROVE CallTypes'
  <2>1. call'.id = id /\ call'.step \in {"object", "query"} /\ counts' = counts
    BY <1>8 DEF Discovery!Call
  <2>2. QED BY <2>1 DEF CallTypes
<1>9. CASE Discovery!BadToken BY <1>3, <1>9 DEF Discovery!BadToken
<1>10. CASE Discovery!ObjectRead BY <1>3, <1>10 DEF Discovery!ObjectRead
<1>11. CASE Discovery!QueryAnswers
  <2>1. PICK s : call' = [call EXCEPT !.step = "name", !.nodes = s]
    BY <1>11 DEF Discovery!QueryAnswers
  <2>2. call'.step = "name" /\ call'.id = call.id BY <2>1 DEF CallAsksIndex
  <2>3. QED BY <1>11, <2>2 DEF Discovery!QueryAnswers, CallTypes
<1>12. CASE Discovery!QueryFails BY <1>3, <1>12 DEF Discovery!QueryFails
<1>13. CASE Discovery!NameReads BY <1>3, <1>13 DEF Discovery!NameReads
<1>14. QED
  BY <1>4, <1>5, <1>6, <1>7, <1>8, <1>9, <1>10, <1>11, <1>12, <1>13 DEF Discovery!Next

LEMMA CallIsTyped == IndexLags /\ CallTypes => Discovery!TypeOK
BY DEF IndexLags, CallTypes, Discovery!TypeOK

LEMMA RateIsTyped == RateInv => Limiter!TypeOK
BY DEF RateInv, RateTyped, Limiter!TypeOK

-----------------------------------------------------------------------------
(* All of them together.                                                   *)
ServicesInv ==
    /\ QuotaInv /\ IndexInv /\ IndexBounds /\ BalanceInv /\ BalanceBounds /\ RateInv
    /\ ChainInv /\ ChainTypes /\ ArcInv /\ ArcTypes /\ DiscoveryInv /\ CallTypes

LEMMA ServicesStart == ServicesInit => ServicesInv
BY QuotaStart, IndexStart, IndexBoundsStart, BalanceStart, BalanceBoundsStart, RateStart,
   ChainStart, ChainTypesStart, ArcStart, ArcTypesStart, DiscoveryStart, CallTypesStart
DEF ServicesInit, ServicesInv

LEMMA ServicesStep == ServicesInv /\ [ServicesNext]_servicesVars => ServicesInv'
<1> SUFFICES ASSUME ServicesInv, [ServicesNext]_servicesVars PROVE ServicesInv' OBVIOUS
<1>1. QuotaInv' BY QuotaStep, ServiceSteps DEF ServicesInv
<1>2. IndexInv' /\ IndexBounds'
  BY IndexStep, IndexBoundsStep, ServiceSteps DEF ServicesInv, IndexInv
<1>3. BalanceInv' /\ BalanceBounds'
  BY BalanceStep, BalanceBoundsStep, ServiceSteps DEF ServicesInv
<1>4. RateInv' BY RateStep, ServiceSteps DEF ServicesInv
<1>5. ChainInv' /\ ChainTypes' BY ChainStep, ChainTypesStep, ServiceSteps DEF ServicesInv
<1>6. ArcInv' /\ ArcTypes' BY ArcStep, ArcTypesStep, ServiceSteps DEF ServicesInv
<1>7. DiscoveryInv' /\ CallTypes'
  BY DiscoveryStep, CallTypesStep, ServiceSteps DEF ServicesInv, DiscoveryInv
<1>8. QED BY <1>1, <1>2, <1>3, <1>4, <1>5, <1>6, <1>7 DEF ServicesInv

(* Every service keeps its state within its types: a page of events ends     *)
(* within the log, a query of the balance was asked in the time that has     *)
(* been, sales are numbered within their bound, and what the helper writes   *)
(* is a named agent's material or a part of it.                              *)
THEOREM ServicesStayTyped == ServicesSpec => []ServicesTypeOK
<1>1. ServicesInit => ServicesInv BY ServicesStart
<1>2. ServicesInv /\ [ServicesNext]_servicesVars => ServicesInv' BY ServicesStep
<1>3. ServicesInv => ServicesTypeOK
  <2> SUFFICES ASSUME ServicesInv PROVE ServicesTypeOK OBVIOUS
  <2>1. TypeOK BY DEF ServicesInv, QuotaInv
  <2>2. Indexer!TypeOK BY IndexIsTyped DEF ServicesInv, IndexInv
  <2>3. Balance!TypeOK BY BalanceIsTyped DEF ServicesInv
  <2>4. Limiter!TypeOK BY RateIsTyped DEF ServicesInv
  <2>5. Chain!TypeOK BY ChainIsTyped DEF ServicesInv
  <2>6. Agent!TypeOK BY ArcIsTyped DEF ServicesInv
  <2>7. Discovery!TypeOK BY CallIsTyped DEF ServicesInv, DiscoveryInv
  <2>8. QED BY <2>1, <2>2, <2>3, <2>4, <2>5, <2>6, <2>7 DEF ServicesTypeOK
<1>4. QED BY <1>1, <1>2, <1>3, PTL DEF ServicesSpec

=============================================================================
