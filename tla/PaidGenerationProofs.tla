------------------------ MODULE PaidGenerationProofs ------------------------
(***************************************************************************)
(* Proofs that one payment funds one generation, and that the sweep of the *)
(* job store spares what a page polls for, for any number of users,        *)
(* dispatches, restarts and resubmissions and any capacity and lifetimes.  *)
(***************************************************************************)
EXTENDS PaidGeneration, Integers, TLAPS, WellFoundedInduction

(* What a digest stands for, and what the server handles. *)
PaymentTypes ==
    /\ tx \in [Digests -> Transaction \cup {NoTx}]
    /\ indexed \subseteq Executed
    /\ requests \subseteq Request
    /\ spent \subseteq Digests
    /\ funded \in [Jobs -> Funding \cup {NoFunding}]

(* The digest of every job is marked spent: the durable mark, and not the    *)
(* job, which may long be gone, is what a second dispatch runs into.         *)
FundedAreSpent == \A j \in Used : funded[j].digest \in spent \cap Executed

PaymentInv ==
    /\ PaymentTypes
    /\ FundedAreSpent
    /\ OneDigestOneJob

LEMMA NoTxIsNoTransaction == NoTx \notin Transaction
  <1> SUFFICES ASSUME NoTx \in Transaction PROVE FALSE
    OBVIOUS
  <1>1. NoTx.sender \in Users
    BY DEF Transaction
  <1> QED
    BY <1>1, NameAssumption DEF NoTx

LEMMA NoFundingIsNoFunding == NoFunding \notin Funding
  <1> SUFFICES ASSUME NoFunding \in Funding PROVE FALSE
    OBVIOUS
  <1>1. NoFunding.owner \in Users
    BY DEF Funding
  <1> QED
    BY <1>1, NameAssumption DEF NoFunding

LEMMA PaymentInitInv == Init => PaymentInv
  BY DEF Init, PaymentInv, PaymentTypes, FundedAreSpent, OneDigestOneJob, Used, Executed

(* A step that neither touches what is on chain nor funds a job, and spends  *)
(* nothing.                                                                  *)
LEMMA PaymentFrame ==
    ASSUME PaymentInv, UNCHANGED <<tx, funded, spent>>,
           indexed' \subseteq Executed, requests' \subseteq Request
    PROVE  PaymentInv'
  <1>1. Executed' = Executed /\ Used' = Used
    BY DEF Executed, Used
  <1> QED
    BY <1>1 DEF PaymentInv, PaymentTypes, FundedAreSpent, OneDigestOneJob

(* The chain moves on: executed transactions keep their sender and effect.   *)
LEMMA ChainGrows ==
    ASSUME PaymentInv, UNCHANGED <<indexed, requests, funded, spent>>,
           tx' \in [Digests -> Transaction \cup {NoTx}],
           \A d \in Executed : /\ tx'[d] # NoTx
                               /\ tx'[d].sender = tx[d].sender
                               /\ tx'[d].effect = tx[d].effect
    PROVE  PaymentInv'
  <1>1. Used' = Used /\ Executed \subseteq Executed'
    BY DEF Used, Executed
  <1>2. \A j \in Used : funded[j].digest \in spent \cap Executed
    BY DEF PaymentInv, FundedAreSpent
  <1>3. OneDigestOneJob'
    BY <1>1, <1>2 DEF PaymentInv, OneDigestOneJob
  <1> QED
    BY <1>1, <1>2, <1>3 DEF PaymentInv, PaymentTypes, FundedAreSpent

LEMMA ExecuteInv ==
    ASSUME PaymentInv, NEW d \in Digests \ Executed, NEW u \in Users,
           NEW effect \in Effects,
           tx' = [tx EXCEPT ![d] = [sender |-> u, effect |-> effect, age |-> 0]],
           UNCHANGED <<indexed, requests, funded, spent>>
    PROVE  PaymentInv'
  <1>1. [sender |-> u, effect |-> effect, age |-> 0] \in Transaction
    BY BudgetAssumption DEF Transaction
  <1>2. tx' \in [Digests -> Transaction \cup {NoTx}]
    BY <1>1 DEF PaymentInv, PaymentTypes
  <1>3. \A x \in Executed : tx'[x] = tx[x] /\ tx[x] # NoTx
    BY DEF Executed, PaymentInv, PaymentTypes
  <1> QED
    BY <1>2, <1>3, ChainGrows

LEMMA TickInv ==
    ASSUME PaymentInv, Tick
    PROVE  PaymentInv'
  <1>1. \A d \in Executed : tx[d] \in Transaction
    BY DEF Executed, PaymentInv, PaymentTypes
  <1>2. \A age \in 0..(MaxAge + 1) : Older(age, MaxAge) \in 0..(MaxAge + 1)
    BY BudgetAssumption DEF Older
  <1>3. \A d \in Executed : /\ tx'[d] \in Transaction
                            /\ tx'[d].sender = tx[d].sender
                            /\ tx'[d].effect = tx[d].effect
    BY <1>1, <1>2 DEF Tick, Transaction, Executed
  <1>4. tx' \in [Digests -> Transaction \cup {NoTx}]
    BY <1>3 DEF Tick
  <1> QED
    BY <1>3, <1>4, NoTxIsNoTransaction, ChainGrows DEF Tick

(* The one step that funds a job: it marks the digest, which nobody had      *)
(* marked before.                                                            *)
LEMMA AcceptInv ==
    ASSUME PaymentInv, NEW r \in requests, NEW j \in Jobs, Accept(r, j)
    PROVE  PaymentInv'
  <1> DEFINE funding == [owner |-> r.user, digest |-> r.digest]
  <1>1. r.user \in Users /\ r.digest \in Digests
    BY DEF PaymentInv, PaymentTypes, Request
  <1>2. /\ r.digest \notin spent
        /\ spent' = spent \cup {r.digest}
        /\ j \notin Used
        /\ funded' = [funded EXCEPT ![j] = funding]
        /\ requests' \subseteq requests
        /\ UNCHANGED <<tx, indexed>>
    BY DEF Accept, MarkSpent, chainVars
  <1>3. /\ r.digest \in Executed
        /\ tx[r.digest].effect # "failed"
        /\ tx[r.digest].sender = r.user
        /\ r.user # Operator => tx[r.digest].effect = "fee"
    BY DEF Accept, Genuine, PaymentInv, PaymentTypes
  <1>4. tx[r.digest] \in Transaction
    BY <1>3 DEF Executed, PaymentInv, PaymentTypes
  <1>5. funding \in Funding /\ funding.digest = r.digest /\ funding.owner = r.user
    BY <1>1 DEF Funding
  <1> HIDE DEF funding
  <1>6. funded'[j] = funding /\ \A k \in Jobs \ {j} : funded'[k] = funded[k]
    BY <1>2 DEF PaymentInv, PaymentTypes
  <1>7. Used' = Used \cup {j} /\ Executed' = Executed
    BY <1>2, <1>5, <1>6, NoFundingIsNoFunding DEF Used, Executed
  <1>8. \A k \in Used : k # j /\ funded'[k] = funded[k] /\ funded[k].digest \in spent \cap Executed
    BY <1>2, <1>6 DEF Used, PaymentInv, FundedAreSpent
  <1>9. PaymentTypes'
    BY <1>1, <1>2, <1>5, <1>7 DEF PaymentInv, PaymentTypes
  <1>10. FundedAreSpent'
    BY <1>2, <1>3, <1>5, <1>6, <1>7, <1>8 DEF FundedAreSpent
  <1>11. OneDigestOneJob'
    <2>1. tx[r.digest].effect = "fee" \/ (tx[r.digest].effect = "other" /\ r.user = Operator)
      BY <1>3, <1>4 DEF Transaction, Effects
    <2>2. ASSUME NEW k \in Used'
          PROVE  /\ \A l \in Used' : funded'[l].digest = funded'[k].digest => l = k
                 /\ tx'[funded'[k].digest].sender = funded'[k].owner
                 /\ \/ tx'[funded'[k].digest].effect = "fee"
                    \/ /\ tx'[funded'[k].digest].effect = "other"
                       /\ tx'[funded'[k].digest].sender = Operator
      <3>1. CASE k = j
        BY <3>1, <2>1, <1>2, <1>3, <1>5, <1>6, <1>7, <1>8
      <3>2. CASE k \in Used
        BY <3>2, <1>2, <1>5, <1>6, <1>7, <1>8 DEF PaymentInv, OneDigestOneJob
      <3> QED
        BY <3>1, <3>2, <1>7
    <2> QED
      BY <2>2 DEF OneDigestOneJob
  <1> QED
    BY <1>9, <1>10, <1>11 DEF PaymentInv

LEMMA RequestInv ==
    ASSUME PaymentInv, NEW r \in requests, BeginVerify(r) \/ FinishVerify(r)
    PROVE  PaymentInv'
  <1>1. r \in Request
    BY DEF PaymentInv, PaymentTypes
  <1>2. CASE Refuse(r)
    BY <1>2, PaymentFrame DEF Refuse, chainVars, PaymentInv, PaymentTypes
  <1>3. CASE BeginVerify(r)
    <2>1. [r EXCEPT !.looking_up = TRUE] \in Request
      BY <1>1 DEF Request
    <2>2. \/ Refuse(r)
          \/ /\ requests' \subseteq requests \cup {[r EXCEPT !.looking_up = TRUE]}
             /\ UNCHANGED <<tx, indexed, spent, funded>>
      BY <1>3 DEF BeginVerify, chainVars
    <2> QED
      BY <1>2, <2>1, <2>2, PaymentFrame DEF PaymentInv, PaymentTypes
  <1>4. CASE FinishVerify(r)
    BY <1>2, <1>4, AcceptInv DEF FinishVerify, Reject
  <1> QED
    BY <1>3, <1>4

LEMMA ServerInv ==
    ASSUME PaymentInv, ServerStep
    PROVE  PaymentInv'
  <1>1. CASE \E r \in requests : BeginVerify(r) \/ FinishVerify(r)
    BY <1>1, RequestInv
  <1>2. CASE \E j \in Jobs, outcome \in Outcomes : EndJob(j, outcome)
    BY <1>2, PaymentFrame DEF EndJob, chainVars, PaymentInv, PaymentTypes
  <1>3. CASE Sweep
    BY <1>3, PaymentFrame DEF Sweep, chainVars, PaymentInv, PaymentTypes
  <1> QED
    BY <1>1, <1>2, <1>3 DEF ServerStep

LEMMA PageInv ==
    ASSUME PaymentInv, NEW u \in Creators, PageStep(u)
    PROVE  PaymentInv'
  <1>1. u \in Users
    BY NameAssumption
  <1>2. CASE StartGenerate(u) \/ Preflight(u) \/ RejectPayment(u) \/ WaitTimeout(u) \/ PollTimeout(u)
    BY <1>2, PaymentFrame DEF StartGenerate, Preflight, RejectPayment, WaitTimeout, PollTimeout,
                              chainVars, serverVars, PaymentInv, PaymentTypes
  <1>3. CASE \E d \in Digests : Pay(u, d)
    BY <1>1, <1>3, ExecuteInv DEF Pay, serverVars, Effects
  <1>4. CASE Dispatch(u)
    <2>1. page[u].digest \in Digests
      BY <1>4 DEF Dispatch, PaymentInv, PaymentTypes, Executed
    <2>2. [user |-> u, digest |-> page[u].digest, awaited |-> TRUE, looking_up |-> FALSE] \in Request
      BY <1>1, <2>1 DEF Request
    <2> QED
      BY <1>4, <2>2, PaymentFrame DEF Dispatch, chainVars, PaymentInv, PaymentTypes
  <1>5. CASE Poll(u)
    BY <1>5, PaymentFrame DEF Poll, chainVars, PaymentInv, PaymentTypes
  <1> QED
    BY <1>2, <1>3, <1>4, <1>5 DEF PageStep

LEMMA EnvironmentInv ==
    ASSUME PaymentInv, Environment
    PROVE  PaymentInv'
  <1>1. CASE \E d \in Digests : Index(d)
    BY <1>1, PaymentFrame DEF Index, serverVars, PaymentInv, PaymentTypes
  <1>2. CASE \E u \in Users, d \in Digests, effect \in {"other", "fee"} : OtherTransaction(u, d, effect)
    BY <1>2, ExecuteInv DEF OtherTransaction, serverVars, Effects
  <1>3. ASSUME NEW u \in Users, NEW d \in Digests, Resubmit(u, d)
        PROVE  PaymentInv'
    <2>1. [user |-> u, digest |-> d, awaited |-> FALSE, looking_up |-> FALSE] \in Request
      BY DEF Request
    <2> QED
      BY <1>3, <2>1, PaymentFrame DEF Resubmit, chainVars, PaymentInv, PaymentTypes
  <1>4. ASSUME NEW u \in Users, requests' = Orphaned(u), UNCHANGED <<chainVars, spent, funded>>
        PROVE  PaymentInv'
    <2>1. \A r \in Request : [r EXCEPT !.awaited = FALSE] \in Request
      BY DEF Request
    <2>2. Orphaned(u) \subseteq Request
      BY <2>1 DEF Orphaned, PaymentInv, PaymentTypes
    <2> QED
      BY <1>4, <2>2, PaymentFrame DEF chainVars, PaymentInv, PaymentTypes
  <1>5. CASE \E u \in Creators : ProxyTimeout(u) \/ Reload(u)
    BY <1>4, <1>5, NameAssumption DEF ProxyTimeout, Reload
  <1>6. CASE \E u \in Users : Expire(u) \/ SignIn(u)
    BY <1>6, PaymentFrame DEF Expire, SignIn, chainVars, serverVars, PaymentInv, PaymentTypes
  <1>7. CASE Restart
    BY <1>7, PaymentFrame DEF Restart, chainVars, PaymentInv, PaymentTypes
  <1>8. CASE Tick
    BY <1>8, TickInv
  <1> QED
    BY <1>1, <1>2, <1>3, <1>5, <1>6, <1>7, <1>8 DEF Environment

LEMMA PaymentNextInv == PaymentInv /\ [Next]_vars => PaymentInv'
  <1> SUFFICES ASSUME PaymentInv, [Next]_vars PROVE PaymentInv'
    OBVIOUS
  <1>1. CASE UNCHANGED vars
    BY <1>1, PaymentFrame DEF vars, PaymentInv, PaymentTypes
  <1> QED
    BY <1>1, ServerInv, PageInv, EnvironmentInv DEF Next

(* One digest funds one generation, its payer's (D-088).  The argument is    *)
(* FundedAreSpent: a job exists only for a digest that is marked, the mark   *)
(* outlives the job and the process, and marking succeeds once.              *)
THEOREM OneDigestFundsOneJob == Spec => []OneDigestOneJob
  <1>1. PaymentInv => OneDigestOneJob
    BY DEF PaymentInv
  <1> QED
    BY <1>1, PaymentInitInv, PaymentNextInv, PTL DEF Spec

-----------------------------------------------------------------------------
(* The job store.  A set of numbers has a least one, so what holds of 0 and  *)
(* of every next number holds of all: this is how the recursive function in  *)
(* Keeping is seen to exist and to be what its equation says.                *)
LEMMA LeastOne ==
    ASSUME NEW T \in SUBSET Nat, T # {}
    PROVE  \E x \in T : \A y \in T : x <= y
  <1>1. PICK x \in T : \A y \in T : <<y, x>> \notin OpToRel(<, Nat)
    BY NatLessThanWellFounded, WFMin
  <1>2. ASSUME NEW y \in T PROVE x <= y
    <2>1. x \in Nat /\ y \in Nat /\ ~(y < x)
      BY <1>1 DEF OpToRel
    <2> QED
      BY <2>1
  <1> QED
    BY <1>2

LEMMA CountUp ==
    ASSUME NEW N \in Nat, NEW S, 0 \in S, \A n \in 0..N - 1 : n \in S => n + 1 \in S
    PROVE  0..N \subseteq S
  <1> SUFFICES ASSUME (0..N) \ S # {} PROVE FALSE
    OBVIOUS
  <1>0. (0..N) \ S \in SUBSET Nat
    OBVIOUS
  <1>1. PICK x \in (0..N) \ S : \A y \in (0..N) \ S : x <= y
    BY <1>0, LeastOne
  <1>2. x \in 1..N
    BY <1>1
  <1>3. x - 1 \in 0..N - 1 /\ x - 1 \in S
    BY <1>1, <1>2
  <1> QED
    BY <1>1, <1>2, <1>3

(* What the first n positions of a store leave. *)
Step(store, kept, before, n) ==
    IF n \in kept THEN Append(before, store[n]) ELSE before

Prefixes(T, store, kept, m) ==
    {f \in [0..m -> Seq(T)] :
        f[0] = <<>> /\ \A n \in 1..m : f[n] = Step(store, kept, f[n - 1], n)}

LEMMA PrefixesExist ==
    ASSUME NEW T, NEW store \in Seq(T), NEW kept
    PROVE  Prefixes(T, store, kept, Len(store)) # {}
  <1> DEFINE S == {k \in Nat : k <= Len(store) => Prefixes(T, store, kept, k) # {}}
  <1>1. 0 \in S
    <2>1. [n \in 0..0 |-> <<>>] \in Prefixes(T, store, kept, 0)
      BY DEF Prefixes
    <2> QED
      BY <2>1
  <1>2. ASSUME NEW k \in 0..Len(store) - 1, k \in S PROVE k + 1 \in S
    <2>1. k \in Nat /\ k + 1 \in 1..Len(store) /\ store[k + 1] \in T
      OBVIOUS
    <2>2. PICK f : f \in Prefixes(T, store, kept, k)
      BY <1>2, <2>1
    <2>3. f \in [0..k -> Seq(T)] /\ f[0] = <<>>
          /\ \A n \in 1..k : f[n] = Step(store, kept, f[n - 1], n)
      BY <2>2 DEF Prefixes
    <2> DEFINE last == Step(store, kept, f[k], k + 1)
               g == [n \in 0..k + 1 |-> IF n <= k THEN f[n] ELSE last]
    <2>4. last \in Seq(T)
      BY <2>1, <2>3 DEF Step
    <2> HIDE DEF last
    <2>5. g \in [0..k + 1 -> Seq(T)]
      BY <2>3, <2>4
    <2>6. g[0] = <<>> /\ g[k + 1] = last /\ \A n \in 0..k : g[n] = f[n]
      BY <2>1, <2>3
    <2>7. \A n \in 1..k + 1 : g[n] = Step(store, kept, g[n - 1], n)
      <3> HIDE DEF g
      <3>1. ASSUME NEW n \in 1..k PROVE g[n] = Step(store, kept, g[n - 1], n)
        <4>1. n \in 0..k /\ n - 1 \in 0..k
          OBVIOUS
        <4> QED
          BY <4>1, <2>3, <2>6
      <3>2. g[k + 1] = Step(store, kept, g[(k + 1) - 1], k + 1)
        <4>1. (k + 1) - 1 = k /\ g[k] = f[k]
          BY <2>1, <2>6
        <4> QED
          BY <4>1, <2>6 DEF last
      <3>3. \A n \in 1..k + 1 : n \in 1..k \/ n = k + 1
        BY <2>1
      <3> QED
        BY <3>1, <3>2, <3>3
    <2>8. g \in Prefixes(T, store, kept, k + 1)
      BY <2>5, <2>6, <2>7 DEF Prefixes
    <2> QED
      BY <2>1, <2>8
  <1>3. Len(store) \in Nat
    OBVIOUS
  <1> HIDE DEF S
  <1>4. 0..Len(store) \subseteq S
    BY <1>1, <1>2, <1>3, CountUp
  <1>5. Len(store) \in S
    BY <1>3, <1>4
  <1> QED
    BY <1>5 DEF S

LEMMA KeepingIsAPrefix ==
    ASSUME NEW T, NEW store \in Seq(T), NEW kept
    PROVE  \E f \in Prefixes(T, store, kept, Len(store)) : Keeping(store, kept) = f[Len(store)]
  <1> DEFINE N == Len(store)
             A(f) == f = [n \in 0..N |->
                            IF n = 0 THEN <<>>
                            ELSE IF n \in kept THEN Append(f[n - 1], store[n]) ELSE f[n - 1]]
             h == CHOOSE g : A(g)
             S == {n \in Nat : n <= N => h[n] \in Seq(T)}
  <1>0. N \in Nat /\ \A n \in 1..N : store[n] \in T
    OBVIOUS
  <1>1. PICK f : f \in Prefixes(T, store, kept, N)
    BY PrefixesExist
  <1>2. A(f)
    <2>1. f \in [0..N -> Seq(T)] /\ f[0] = <<>>
          /\ \A n \in 1..N : f[n] = IF n \in kept THEN Append(f[n - 1], store[n]) ELSE f[n - 1]
      BY <1>1 DEF Prefixes, Step
    <2> HIDE DEF N
    <2>2. \A n \in 0..N : n = 0 \/ n \in 1..N
      BY <1>0
    <2>3. \A n \in 0..N : f[n] = IF n = 0 THEN <<>>
                                 ELSE IF n \in kept THEN Append(f[n - 1], store[n]) ELSE f[n - 1]
      BY <1>0, <2>1, <2>2
    <2> QED
      BY <2>1, <2>3
  <1>3. Keeping(store, kept) = h[N]
    BY DEF Keeping
  <1>4. A(h)
    BY <1>2
  <1> HIDE DEF h, N
  <1>5. h[0] = <<>> /\ \A n \in 1..N :
            h[n] = IF n \in kept THEN Append(h[n - 1], store[n]) ELSE h[n - 1]
    <2>1. 0 \in 0..N /\ \A n \in 1..N : n \in 0..N /\ n # 0
      BY <1>0
    <2> QED
      BY <1>4, <2>1
  <1>6. \A n \in 1..N : h[n] = Step(store, kept, h[n - 1], n)
    BY <1>5 DEF Step
  <1>7. 0 \in S
    <2>1. <<>> \in Seq(T)
      OBVIOUS
    <2> QED
      BY <1>5, <2>1
  <1>8. ASSUME NEW n \in 0..N - 1, n \in S PROVE n + 1 \in S
    <2>1. n \in Nat /\ n <= N /\ n + 1 \in 1..N /\ (n + 1) - 1 = n
      BY <1>0
    <2>2. h[n] \in Seq(T) /\ store[n + 1] \in T
      BY <1>0, <1>8, <2>1
    <2>3. h[n + 1] = IF n + 1 \in kept THEN Append(h[n], store[n + 1]) ELSE h[n]
      BY <1>5, <2>1
    <2>4. h[n + 1] \in Seq(T)
      BY <2>2, <2>3
    <2> QED
      BY <2>1, <2>4
  <1>9. 0..N \subseteq S
    <2> HIDE DEF S
    <2> QED
      BY <1>0, <1>7, <1>8, CountUp
  <1>10. h \in [0..N -> Seq(T)]
    <2>1. \A n \in 0..N : h[n] \in Seq(T)
      BY <1>0, <1>9
    <2> QED
      BY <1>4, <2>1
  <1>11. h \in Prefixes(T, store, kept, N)
    BY <1>5, <1>6, <1>10 DEF Prefixes
  <1> QED
    BY <1>3, <1>11 DEF N

(* What is kept is a record of a position kept, and every such record is     *)
(* there.                                                                    *)
LEMMA KeepingKeeps ==
    ASSUME NEW T, NEW store \in Seq(T), NEW kept
    PROVE  /\ Keeping(store, kept) \in Seq(T)
           /\ \A i \in DOMAIN Keeping(store, kept) :
                 \E k \in DOMAIN store \cap kept : Keeping(store, kept)[i] = store[k]
           /\ \A k \in DOMAIN store \cap kept :
                 \E i \in DOMAIN Keeping(store, kept) : Keeping(store, kept)[i] = store[k]
  <1> DEFINE Holds(s, n) ==
                /\ \A i \in DOMAIN s : \E k \in (1..n) \cap kept : s[i] = store[k]
                /\ \A k \in (1..n) \cap kept : \E i \in DOMAIN s : s[i] = store[k]
  <1>0. Len(store) \in Nat /\ DOMAIN store = 1..Len(store)
    OBVIOUS
  <1>1. PICK f \in Prefixes(T, store, kept, Len(store)) : Keeping(store, kept) = f[Len(store)]
    BY KeepingIsAPrefix
  <1>2. /\ f \in [0..Len(store) -> Seq(T)] /\ f[0] = <<>>
        /\ \A n \in 1..Len(store) : f[n] = Step(store, kept, f[n - 1], n)
    BY <1>1 DEF Prefixes
  <1> DEFINE S == {n \in Nat : n <= Len(store) => Holds(f[n], n)}
  <1>3. 0 \in S
    BY <1>2
  <1>4. ASSUME NEW n \in 0..Len(store) - 1, n \in S PROVE n + 1 \in S
    <2>1. n \in Nat /\ n + 1 \in 1..Len(store) /\ (n + 1) - 1 = n /\ store[n + 1] \in T
      BY <1>0
    <2>2. f[n + 1] = Step(store, kept, f[n], n + 1) /\ f[n] \in Seq(T)
      BY <1>2, <2>1
    <2>3. Holds(f[n], n)
      BY <1>4, <2>1
    <2>4. \A k \in 1..n + 1 : k \in 1..n \/ k = n + 1
      BY <2>1
    <2>5. 1..n \subseteq 1..n + 1 /\ n + 1 \in 1..n + 1
      BY <2>1
    <2>6. CASE n + 1 \notin kept
      <3>1. f[n + 1] = f[n]
        BY <2>2, <2>6 DEF Step
      <3>2. (1..n + 1) \cap kept = (1..n) \cap kept
        BY <2>4, <2>5, <2>6
      <3>3. Holds(f[n + 1], n + 1)
        BY <3>1, <3>2, <2>3
      <3> QED
        BY <2>1, <3>3
    <2>7. CASE n + 1 \in kept
      <3> DEFINE s == f[n]
      <3>1. f[n + 1] = Append(s, store[n + 1])
        BY <2>2, <2>7 DEF Step
      <3>2. s \in Seq(T) /\ Len(s) \in Nat /\ DOMAIN s = 1..Len(s)
        BY <2>2
      <3> HIDE DEF s
      <3>3. /\ DOMAIN Append(s, store[n + 1]) = 1..Len(s) + 1
            /\ \A i \in 1..Len(s) : Append(s, store[n + 1])[i] = s[i]
            /\ Append(s, store[n + 1])[Len(s) + 1] = store[n + 1]
        BY <2>1, <3>2
      <3>4. (1..n + 1) \cap kept = ((1..n) \cap kept) \cup {n + 1}
        BY <2>4, <2>5, <2>7
      <3>5. \A i \in 1..Len(s) + 1 : i \in 1..Len(s) \/ i = Len(s) + 1
        BY <3>2
      <3>6. 1..Len(s) \subseteq 1..Len(s) + 1 /\ Len(s) + 1 \in 1..Len(s) + 1
        BY <3>2
      <3>7. Holds(s, n)
        BY <2>3 DEF s
      <3>8. \A i \in DOMAIN f[n + 1] :
               \E k \in ((1..n) \cap kept) \cup {n + 1} : f[n + 1][i] = store[k]
        BY <3>1, <3>2, <3>3, <3>5, <3>7
      <3>9. \A k \in ((1..n) \cap kept) \cup {n + 1} :
               \E i \in DOMAIN f[n + 1] : f[n + 1][i] = store[k]
        BY <3>1, <3>2, <3>3, <3>6, <3>7
      <3>10. Holds(f[n + 1], n + 1)
        BY <3>4, <3>8, <3>9
      <3> HIDE DEF Holds
      <3> QED
        BY <2>1, <3>10
    <2> QED
      BY <2>6, <2>7
  <1>5. Len(store) \in S
    <2> HIDE DEF S
    <2>1. 0..Len(store) \subseteq S
      BY <1>0, <1>3, <1>4, CountUp
    <2> QED
      BY <1>0, <2>1
  <1>6. Holds(f[Len(store)], Len(store))
    BY <1>0, <1>5
  <1>7. f[Len(store)] \in Seq(T)
    BY <1>0, <1>2
  <1> QED
    BY <1>0, <1>1, <1>6, <1>7

(* Room is made by dropping records, never by changing one. *)
LEMMA RoomFromTheStore ==
    ASSUME NEW T, NEW store \in Seq(T)
    PROVE  /\ WithRoom(store) \in Seq(T)
           /\ \A i \in DOMAIN WithRoom(store) : \E k \in DOMAIN store : WithRoom(store)[i] = store[k]
  <1> DEFINE kept == Swept(store)
             first == Len(kept) - MaxJobs + 2
  <1>1. kept \in Seq(T) /\ \A i \in DOMAIN kept : \E k \in DOMAIN store : kept[i] = store[k]
    <2> DEFINE fresh == {i \in DOMAIN store : Fresh(store[i])}
    <2>1. kept = Keeping(store, fresh)
      BY DEF Swept
    <2> HIDE DEF kept, fresh
    <2> QED
      BY <2>1, KeepingKeeps
  <1>2. WithRoom(store) = IF Len(kept) < MaxJobs THEN kept ELSE SubSeq(kept, first, Len(kept))
    BY DEF WithRoom
  <1> HIDE DEF kept
  <1>3. Len(kept) \in Nat /\ DOMAIN kept = 1..Len(kept) /\ \A i \in 1..Len(kept) : kept[i] \in T
    BY <1>1
  <1>4. CASE Len(kept) >= MaxJobs
    <2> DEFINE rest == SubSeq(kept, first, Len(kept))
    <2>1. first \in 2..Len(kept) + 1
      BY <1>3, <1>4, BudgetAssumption
    <2> HIDE DEF first
    <2>2. \A i \in first..Len(kept) : i \in 1..Len(kept)
      BY <1>3, <2>1
    <2>3. rest \in Seq(T) /\ Len(rest) = Len(kept) - first + 1 /\ DOMAIN rest = 1..Len(rest)
      BY <1>1, <1>3, <2>1, <2>2
    <2>4. \A i \in 1..Len(rest) : first + i - 1 \in 1..Len(kept) /\ rest[i] = kept[first + i - 1]
      BY <1>1, <1>3, <2>1, <2>3
    <2>5. WithRoom(store) = rest
      <3>1. ~(Len(kept) < MaxJobs)
        BY <1>3, <1>4, BudgetAssumption
      <3> QED
        BY <1>2, <3>1, Zenon
    <2> HIDE DEF rest
    <2> QED
      BY <1>1, <1>3, <2>3, <2>4, <2>5
  <1>5. CASE Len(kept) < MaxJobs
    BY <1>1, <1>2, <1>5
  <1> QED
    BY <1>3, <1>4, <1>5, BudgetAssumption

-----------------------------------------------------------------------------
(* Pages that poll, and the age of what they poll for.                       *)

PageRecord == [phase : Phases, digest : Digests \cup {Nobody},
               job : Jobs \cup {Nobody}, left : 0..PollBudget, notice : Notices]

PollTypes ==
    /\ page \in [Creators -> PageRecord]
    /\ jobs \in Seq(JobRecord)

(* A record is of a job that was funded, and so is what a page polls for:    *)
(* the next job is a new one for both.                                       *)
StoredWereFunded == \A i \in DOMAIN jobs : jobs[i].id \in Used
PolledWereFunded == \A u \in Creators : page[u].phase = "polling" => page[u].job \in Used

(* A page polls from the moment its record is made: the record is no older   *)
(* than the part of the budget that is used up.                              *)
PolledSinceCreated ==
    \A u \in Creators : \A i \in DOMAIN jobs :
        page[u].phase = "polling" /\ page[u].left > 0 /\ jobs[i].id = page[u].job
            => jobs[i].age + page[u].left <= PollBudget

PollInv == PollTypes /\ StoredWereFunded /\ PolledWereFunded /\ PolledSinceCreated

LEMMA PollInitInv == Init => PollInv
  BY BudgetAssumption DEF Init, PollInv, PollTypes, PageRecord, FreshPage, Phases, Notices,
     StoredWereFunded, PolledWereFunded, PolledSinceCreated

(* A step after which every record is one that was there, and every page is  *)
(* as before or does not poll.                                               *)
LEMMA PollFrame ==
    ASSUME PollInv, UNCHANGED funded,
           page' \in [Creators -> PageRecord],
           \A u \in Creators : page'[u] = page[u] \/ page'[u].phase # "polling",
           jobs' \in Seq(JobRecord),
           \A i \in DOMAIN jobs' : \E k \in DOMAIN jobs :
               jobs'[i].id = jobs[k].id /\ jobs'[i].age = jobs[k].age
    PROVE  PollInv'
  <1>1. Used' = Used
    BY DEF Used
  <1>2. PollTypes'
    BY DEF PollInv, PollTypes
  <1>3. StoredWereFunded'
    BY <1>1 DEF PollInv, StoredWereFunded
  <1>4. PolledWereFunded'
    BY <1>1 DEF PollInv, PolledWereFunded
  <1>5. PolledSinceCreated'
    <2> SUFFICES ASSUME NEW u \in Creators, NEW i \in DOMAIN jobs',
                        page'[u].phase = "polling", page'[u].left > 0,
                        jobs'[i].id = page'[u].job
                 PROVE  jobs'[i].age + page'[u].left <= PollBudget
      BY DEF PolledSinceCreated
    <2>1. page'[u] = page[u]
      OBVIOUS
    <2>2. PICK k \in DOMAIN jobs : jobs'[i].id = jobs[k].id /\ jobs'[i].age = jobs[k].age
      OBVIOUS
    <2> QED
      BY <2>1, <2>2 DEF PollInv, PolledSinceCreated
  <1> QED
    BY <1>2, <1>3, <1>4, <1>5 DEF PollInv

LEMMA SamePage ==
    ASSUME PollInv, UNCHANGED <<page, funded>>,
           jobs' \in Seq(JobRecord),
           \A i \in DOMAIN jobs' : \E k \in DOMAIN jobs :
               jobs'[i].id = jobs[k].id /\ jobs'[i].age = jobs[k].age
    PROVE  PollInv'
  BY PollFrame DEF PollInv, PollTypes

(* One page moves on to x, which does not poll. *)
LEMMA OnePage ==
    ASSUME PollInv, NEW u, NEW x \in PageRecord, page' = [page EXCEPT ![u] = x],
           x.phase # "polling", UNCHANGED <<jobs, funded>>
    PROVE  PollInv'
  <1>1. /\ page' \in [Creators -> PageRecord]
        /\ \A v \in Creators : page'[v] = page[v] \/ page'[v].phase # "polling"
    BY DEF PollInv, PollTypes
  <1>2. jobs' \in Seq(JobRecord)
    BY DEF PollInv, PollTypes
  <1> QED
    BY <1>1, <1>2, PollFrame

(* A run that failed leaves the page not polling. *)
LEMMA FailedPage ==
    ASSUME NEW notice \in Notices
    PROVE  Failed(notice) \in PageRecord /\ Failed(notice).phase # "polling"
  <1> DEFINE x == [phase |-> "error", digest |-> Nobody, job |-> Nobody, left |-> 0,
                   notice |-> notice]
  <1>1. x \in PageRecord /\ x.phase # "polling"
    BY BudgetAssumption DEF PageRecord, Phases
  <1>2. Failed(notice) = x
    <2> DEFINE y == FreshPage
    <2>1. /\ y = [field \in {"phase", "digest", "job", "left", "notice"} |-> y[field]]
          /\ y.digest = Nobody /\ y.job = Nobody /\ y.left = 0
      BY DEF FreshPage
    <2>2. Failed(notice) = [y EXCEPT !.phase = "error", !.notice = notice]
      BY DEF Failed
    <2> HIDE DEF y
    <2> QED
      BY <2>1, <2>2
  <1> QED
    BY <1>1, <1>2

LEMMA PollingPage ==
    ASSUME PaymentInv, PollInv, NEW u \in Creators, PageStep(u)
    PROVE  PollInv'
  <1>1. page[u] \in PageRecord
    BY DEF PollInv, PollTypes
  <1>2. \A notice \in Notices : Failed(notice) \in PageRecord /\ Failed(notice).phase # "polling"
    BY FailedPage
  <1>3. FreshPage \in PageRecord /\ FreshPage.phase # "polling"
    BY BudgetAssumption DEF FreshPage, PageRecord, Phases, Notices
  <1>4. ASSUME NEW notice \in Notices, Fail(u, notice), UNCHANGED <<jobs, funded>>
        PROVE  PollInv'
    BY <1>2, <1>4, OnePage DEF Fail
  <1>5. CASE StartGenerate(u)
    <2>1. [FreshPage EXCEPT !.phase = "preflight"] \in PageRecord
      BY BudgetAssumption DEF FreshPage, PageRecord, Phases, Notices
    <2>2. [FreshPage EXCEPT !.phase = "preflight"].phase # "polling"
      BY DEF FreshPage
    <2> QED
      BY <1>1, <1>4, <1>5, <2>1, <2>2, OnePage DEF StartGenerate, FailSession, serverVars, Notices
  <1>6. ASSUME NEW phase \in Phases \ {"polling"}, NEW d \in Digests \cup {Nobody},
               page' = [page EXCEPT ![u].phase = phase, ![u].digest = d],
               UNCHANGED <<jobs, funded>>
        PROVE  PollInv'
    <2> DEFINE x == [page[u] EXCEPT !.phase = phase, !.digest = d]
    <2>1. x \in PageRecord /\ x.phase # "polling"
      BY <1>1 DEF PageRecord
    <2>2. page' = [page EXCEPT ![u] = x]
      BY <1>1, <1>6 DEF PollInv, PollTypes
    <2> HIDE DEF x
    <2> QED
      BY <1>6, <2>1, <2>2, OnePage
  <1>7. ASSUME NEW phase \in Phases \ {"polling"}, page' = [page EXCEPT ![u].phase = phase],
               UNCHANGED <<jobs, funded>>
        PROVE  PollInv'
    <2> DEFINE x == [page[u] EXCEPT !.phase = phase]
    <2>1. x \in PageRecord /\ x.phase # "polling"
      BY <1>1 DEF PageRecord
    <2>2. page' = [page EXCEPT ![u] = x]
      BY <1>1, <1>7 DEF PollInv, PollTypes
    <2> HIDE DEF x
    <2> QED
      BY <1>7, <2>1, <2>2, OnePage
  <1>8. CASE Preflight(u)
    BY <1>1, <1>4, <1>7, <1>8 DEF Preflight, FailSession, serverVars, Notices, Phases
  <1>9. CASE \E d \in Digests : Pay(u, d)
    BY <1>1, <1>6, <1>9 DEF Pay, serverVars, Phases
  <1>10. CASE RejectPayment(u) \/ WaitTimeout(u) \/ PollTimeout(u)
    BY <1>1, <1>4, <1>10 DEF RejectPayment, WaitTimeout, PollTimeout, serverVars, Notices
  <1>11. CASE Dispatch(u)
    BY <1>7, <1>11 DEF Dispatch, Phases
  <1>12. CASE Poll(u)
    <2>1. /\ page' \in [Creators -> PageRecord]
          /\ \A v \in Creators : page'[v] = page[v] \/ page'[v].phase # "polling"
      <3>1. CASE UNCHANGED page
        BY <3>1 DEF PollInv, PollTypes
      <3>2. CASE \E notice \in Notices : Fail(u, notice)
        BY <1>2, <3>2 DEF Fail, PollInv, PollTypes
      <3>3. CASE page' = [page EXCEPT ![u] = FreshPage]
        BY <1>3, <3>3 DEF PollInv, PollTypes
      <3>4. ASSUME NEW i \in DOMAIN jobs, OnState(u, jobs[i].state)
            PROVE  \/ UNCHANGED page
                   \/ \E notice \in Notices : Fail(u, notice)
                   \/ page' = [page EXCEPT ![u] = FreshPage]
        <4>1. jobs[i] \in JobRecord
          BY DEF PollInv, PollTypes
        <4>2. jobs[i].state \in {"pending"} \cup Outcomes
          BY <4>1 DEF JobRecord
        <4> QED
          BY <3>4, <4>2 DEF OnState, Outcomes, Notices
      <3> QED
        BY <1>12, <3>1, <3>2, <3>3, <3>4 DEF Poll, FailSession, Notices
    <2>2. UNCHANGED jobs \/ \E kept : jobs' = Keeping(jobs, kept)
      BY <1>12 DEF Poll, take
    <2>3. /\ jobs' \in Seq(JobRecord)
          /\ \A i \in DOMAIN jobs' : \E k \in DOMAIN jobs : jobs'[i] = jobs[k]
      BY <2>2, KeepingKeeps DEF PollInv, PollTypes
    <2> QED
      BY <1>12, <2>1, <2>3, PollFrame DEF Poll
  <1> QED
    BY <1>5, <1>8, <1>9, <1>10, <1>11, <1>12 DEF PageStep

(* The step that starts a job, and the page's polling if it still waits.     *)
LEMMA PollAccept ==
    ASSUME PaymentInv, PollInv, NEW r \in requests, NEW j \in Jobs, Accept(r, j)
    PROVE  PollInv'
  <1> DEFINE record == [id |-> j, owner |-> r.user, age |-> 0, state |-> "pending"]
             room == WithRoom(jobs)
  <1>1. /\ j \notin Used
        /\ jobs' = Append(room, record)
        /\ funded' = [funded EXCEPT ![j] = [owner |-> r.user, digest |-> r.digest]]
    BY DEF Accept, create
  <1>2. r.user \in Users /\ r.digest \in Digests
    BY DEF PaymentInv, PaymentTypes, Request
  <1>3. Used' = Used \cup {j}
    <2>1. [owner |-> r.user, digest |-> r.digest] \in Funding
      BY <1>2 DEF Funding
    <2>2. [owner |-> r.user, digest |-> r.digest] # NoFunding
      BY <2>1, NoFundingIsNoFunding
    <2> QED
      BY <1>1, <2>2 DEF Used, PaymentInv, PaymentTypes
  <1>4. record \in JobRecord /\ record.id = j /\ record.age = 0
    BY <1>2, BudgetAssumption DEF JobRecord
  <1>5. /\ room \in Seq(JobRecord)
        /\ \A i \in DOMAIN room : \E k \in DOMAIN jobs : room[i] = jobs[k]
    BY RoomFromTheStore DEF PollInv, PollTypes
  <1> HIDE DEF record, room
  <1>6. /\ jobs' \in Seq(JobRecord)
        /\ \A i \in DOMAIN jobs' : jobs'[i] = record \/ \E k \in DOMAIN jobs : jobs'[i] = jobs[k]
    <2>1. /\ jobs' \in Seq(JobRecord)
          /\ DOMAIN room = 1..Len(room) /\ Len(room) \in Nat
          /\ DOMAIN jobs' = 1..Len(room) + 1
          /\ \A i \in 1..Len(room) : jobs'[i] = room[i]
          /\ jobs'[Len(room) + 1] = record
      BY <1>1, <1>4, <1>5
    <2>2. \A i \in 1..Len(room) + 1 : i \in 1..Len(room) \/ i = Len(room) + 1
      BY <2>1
    <2> QED
      BY <1>5, <2>1, <2>2
  <1>7. StoredWereFunded'
    BY <1>3, <1>4, <1>6 DEF PollInv, StoredWereFunded
  (* Where a page ends up: it polls for the new job, or it does not poll, or *)
  (* it is another page or nobody's request.                                 *)
  <1>8. /\ page' \in [Creators -> PageRecord]
        /\ \A u \in Creators :
              \/ page'[u] = page[u]
              \/ page'[u].phase # "polling"
              \/ page'[u].job = j /\ page'[u].left = PollBudget
    <2>1. page \in [Creators -> PageRecord]
      BY DEF PollInv, PollTypes
    <2>2. CASE UNCHANGED page
      BY <2>1, <2>2
    <2>3. CASE Fail(r.user, "raw")
      <3>1. Failed("raw") \in PageRecord /\ Failed("raw").phase # "polling"
        BY FailedPage DEF Notices
      <3> QED
        BY <2>1, <2>3, <3>1 DEF Fail
    <2>4. CASE page' = [page EXCEPT ![r.user].phase = "polling", ![r.user].job = j,
                                    ![r.user].left = PollBudget]
      <3>1. CASE r.user \in Creators
        <4> DEFINE x == [page[r.user] EXCEPT !.phase = "polling", !.job = j, !.left = PollBudget]
        <4>1. page[r.user] \in PageRecord
          BY <2>1, <3>1
        <4>2. x \in PageRecord /\ x.job = j /\ x.left = PollBudget
          <5>1. PollBudget \in 0..PollBudget
            BY BudgetAssumption
          <5>2. x.job = j /\ x.left = PollBudget
            BY <4>1 DEF PageRecord
          <5>3. x \in PageRecord
            BY <4>1, <5>1 DEF PageRecord, Phases
          <5> QED
            BY <5>2, <5>3
        <4>3. page' = [page EXCEPT ![r.user] = x]
          BY <2>1, <2>4, <3>1, <4>1 DEF PageRecord
        <4> HIDE DEF x
        <4> QED
          BY <2>1, <4>2, <4>3
      <3>2. CASE r.user \notin Creators
        <4>1. page' = page
          BY <2>1, <2>4, <3>2
        <4> QED
          BY <2>1, <4>1
      <3> QED
        BY <3>1, <3>2
    <2> QED
      BY <2>2, <2>3, <2>4 DEF Accept, Answer
  <1>9. PolledWereFunded'
    BY <1>3, <1>8 DEF PollInv, PolledWereFunded
  <1>10. PolledSinceCreated'
    <2> SUFFICES ASSUME NEW u \in Creators, NEW i \in DOMAIN jobs',
                        page'[u].phase = "polling", page'[u].left > 0,
                        jobs'[i].id = page'[u].job
                 PROVE  jobs'[i].age + page'[u].left <= PollBudget
      BY DEF PolledSinceCreated
    <2>1. CASE page'[u] = page[u]
      <3>1. page'[u].job \in Used
        BY <2>1 DEF PollInv, PolledWereFunded
      <3>2. jobs'[i].id # j
        BY <1>1, <3>1
      <3>3. PICK k \in DOMAIN jobs : jobs'[i] = jobs[k]
        BY <1>4, <1>6, <3>2
      <3> QED
        BY <2>1, <3>3 DEF PollInv, PolledSinceCreated
    <2>2. CASE page'[u].job = j /\ page'[u].left = PollBudget
      <3>1. ASSUME NEW k \in DOMAIN jobs, jobs'[i] = jobs[k] PROVE FALSE
        BY <1>1, <2>2, <3>1 DEF PollInv, StoredWereFunded
      <3>2. jobs'[i].age = 0
        BY <1>4, <1>6, <3>1
      <3> QED
        BY <2>2, <3>2, BudgetAssumption
    <2> QED
      BY <1>8, <2>1, <2>2
  <1> QED
    BY <1>6, <1>7, <1>8, <1>9, <1>10 DEF PollInv, PollTypes

LEMMA PollServer ==
    ASSUME PaymentInv, PollInv, ServerStep
    PROVE  PollInv'
  <1>1. page \in [Creators -> PageRecord] /\ jobs \in Seq(JobRecord)
    BY DEF PollInv, PollTypes
  <1>2. ASSUME UNCHANGED <<jobs, funded>>,
               \/ UNCHANGED page
               \/ \E u : \E notice \in Notices : Fail(u, notice)
        PROVE  PollInv'
    <2>1. CASE UNCHANGED page
      BY <1>1, <1>2, <2>1, SamePage
    <2>2. ASSUME NEW u, NEW notice \in Notices, Fail(u, notice)
          PROVE  PollInv'
      BY <1>2, <2>2, FailedPage, OnePage DEF Fail
    <2> QED
      BY <1>2, <2>1, <2>2
  <1>3. ASSUME NEW r \in requests, Refuse(r)
        PROVE  PollInv'
    <2>1. UNCHANGED page \/ Fail(r.user, "generic") \/ Fail(r.user, "raw")
      BY <1>3 DEF Refuse, Answer
    <2>2. UNCHANGED <<jobs, funded>>
      BY <1>3 DEF Refuse
    <2>3. "generic" \in Notices /\ "raw" \in Notices
      BY DEF Notices
    <2> QED
      BY <1>2, <2>1, <2>2, <2>3
  <1>4. ASSUME NEW r \in requests, BeginVerify(r)
        PROVE  PollInv'
    <2>1. CASE Refuse(r)
      BY <1>3, <2>1
    <2>2. CASE ~Refuse(r)
      <3>1. /\ UNCHANGED page \/ Fail(r.user, "session") \/ Fail(r.user, "raw")
            /\ UNCHANGED <<jobs, funded>>
        BY <1>4, <2>2 DEF BeginVerify, Answer, FailSession
      <3>2. "session" \in Notices /\ "raw" \in Notices
        BY DEF Notices
      <3> QED
        BY <1>2, <3>1, <3>2
    <2> QED
      BY <2>1, <2>2
  <1>5. ASSUME NEW r \in requests, FinishVerify(r)
        PROVE  PollInv'
    BY <1>3, <1>5, PollAccept DEF FinishVerify, Reject
  <1>6. ASSUME NEW j \in Jobs, NEW outcome \in Outcomes, EndJob(j, outcome)
        PROVE  PollInv'
    <2>1. DOMAIN jobs = 1..Len(jobs) /\ Len(jobs) \in Nat
      BY <1>1
    <2>2. \A i \in 1..Len(jobs) : [jobs[i] EXCEPT !.state = outcome] \in JobRecord
                                  /\ [jobs[i] EXCEPT !.state = outcome].id = jobs[i].id
                                  /\ [jobs[i] EXCEPT !.state = outcome].age = jobs[i].age
      <3>1. \A i \in 1..Len(jobs) : jobs[i] \in JobRecord
        BY <1>1
      <3> QED
        BY <3>1 DEF JobRecord
    <2>3. jobs' = [i \in 1..Len(jobs) |->
                     IF jobs[i].id = j THEN [jobs[i] EXCEPT !.state = outcome] ELSE jobs[i]]
      BY <1>6, <2>1 DEF EndJob, settle
    <2>4. jobs' \in Seq(JobRecord) /\ DOMAIN jobs' = 1..Len(jobs)
      BY <1>1, <2>1, <2>2, <2>3
    <2>5. \A i \in DOMAIN jobs' : jobs'[i].id = jobs[i].id /\ jobs'[i].age = jobs[i].age
      BY <2>2, <2>3, <2>4
    <2> QED
      BY <1>6, <2>1, <2>4, <2>5, SamePage DEF EndJob
  <1>7. CASE Sweep
    <2>1. \E kept : jobs' = Keeping(jobs, kept)
      BY <1>7 DEF Sweep, Swept
    <2>2. /\ jobs' \in Seq(JobRecord)
          /\ \A i \in DOMAIN jobs' : \E k \in DOMAIN jobs : jobs'[i] = jobs[k]
      BY <1>1, <2>1, KeepingKeeps
    <2> QED
      BY <1>7, <2>2, SamePage DEF Sweep
  <1> QED
    BY <1>4, <1>5, <1>6, <1>7 DEF ServerStep

(* Time passes: a record ages by no more than a polling page's budget falls. *)
LEMMA PollTick ==
    ASSUME PollInv, Tick
    PROVE  PollInv'
  <1>1. /\ page \in [Creators -> PageRecord] /\ jobs \in Seq(JobRecord)
        /\ DOMAIN jobs = 1..Len(jobs) /\ Len(jobs) \in Nat
    BY DEF PollInv, PollTypes
  <1>2. \A i \in 1..Len(jobs) : jobs[i] \in JobRecord
    BY <1>1
  <1>3. \A age \in 0..(Ttl + 1) : Older(age, Ttl) \in 0..(Ttl + 1) /\ Older(age, Ttl) <= age + 1
    BY BudgetAssumption DEF Older
  <1>4. \A i \in 1..Len(jobs) :
            LET older == [jobs[i] EXCEPT !.age = Older(@, Ttl)] IN
            older \in JobRecord /\ older.id = jobs[i].id /\ older.age <= jobs[i].age + 1
    BY <1>2, <1>3 DEF JobRecord
  <1>5. jobs' = [i \in 1..Len(jobs) |-> [jobs[i] EXCEPT !.age = Older(@, Ttl)]]
    BY <1>1 DEF Tick
  <1>6. /\ jobs' \in Seq(JobRecord) /\ DOMAIN jobs' = 1..Len(jobs)
        /\ \A i \in 1..Len(jobs) : jobs'[i].id = jobs[i].id /\ jobs'[i].age <= jobs[i].age + 1
    <2> DEFINE older(i) == [jobs[i] EXCEPT !.age = Older(@, Ttl)]
    <2>1. \A i \in 1..Len(jobs) : older(i) \in JobRecord /\ older(i).id = jobs[i].id
                                  /\ older(i).age <= jobs[i].age + 1
      BY <1>4
    <2>2. jobs' = [i \in 1..Len(jobs) |-> older(i)]
      BY <1>5
    <2> HIDE DEF older
    <2> QED
      BY <1>1, <2>1, <2>2
  <1>7. \A x \in PageRecord :
            LET y == [x EXCEPT !.left = @ - 1] IN
            x.left > 0 => /\ y \in PageRecord /\ y.left = x.left - 1
                          /\ y.phase = x.phase /\ y.job = x.job
    BY BudgetAssumption DEF PageRecord
  <1>8. \A u \in Creators : page'[u] = IF page[u].left > 0 THEN [page[u] EXCEPT !.left = @ - 1]
                                       ELSE page[u]
    BY DEF Tick
  <1>9. \A u \in Creators : /\ page'[u] \in PageRecord
                            /\ page'[u].phase = page[u].phase /\ page'[u].job = page[u].job
                            /\ page[u].left > 0 => page'[u].left = page[u].left - 1
                            /\ ~(page[u].left > 0) => page'[u].left = page[u].left
    BY <1>1, <1>7, <1>8
  <1>10. page' \in [Creators -> PageRecord]
    BY <1>9 DEF Tick
  <1>11. Used' = Used
    BY DEF Tick, Used
  <1>12. StoredWereFunded' /\ PolledWereFunded'
    BY <1>1, <1>6, <1>9, <1>11 DEF PollInv, StoredWereFunded, PolledWereFunded
  <1>13. PolledSinceCreated'
    <2> SUFFICES ASSUME NEW u \in Creators, NEW i \in DOMAIN jobs',
                        page'[u].phase = "polling", page'[u].left > 0,
                        jobs'[i].id = page'[u].job
                 PROVE  jobs'[i].age + page'[u].left <= PollBudget
      BY DEF PolledSinceCreated
    <2>1. i \in 1..Len(jobs) /\ page[u].left \in Nat /\ jobs[i].age \in Nat /\ jobs'[i].age \in Nat
      BY <1>1, <1>2, <1>4, <1>5, <1>6, BudgetAssumption DEF PageRecord, JobRecord
    <2>2. page[u].left > 0 /\ page'[u].left = page[u].left - 1
      BY <1>9
    <2>3. jobs[i].age + page[u].left <= PollBudget
      BY <1>1, <1>6, <1>9, <2>1, <2>2 DEF PollInv, PolledSinceCreated
    <2>4. jobs'[i].age <= jobs[i].age + 1
      BY <1>6, <2>1
    <2> QED
      BY <2>1, <2>2, <2>3, <2>4, BudgetAssumption
  <1> QED
    BY <1>6, <1>10, <1>12, <1>13 DEF PollInv, PollTypes

LEMMA PollEnvironment ==
    ASSUME PollInv, Environment
    PROVE  PollInv'
  <1>1. page \in [Creators -> PageRecord] /\ jobs \in Seq(JobRecord)
    BY DEF PollInv, PollTypes
  <1>2. ASSUME UNCHANGED <<page, jobs, funded>>
        PROVE  PollInv'
    BY <1>1, <1>2, SamePage
  <1>3. CASE \/ \E d \in Digests : Index(d)
             \/ \E u \in Users, d \in Digests, effect \in {"other", "fee"} : OtherTransaction(u, d, effect)
             \/ \E u \in Users, d \in Digests : Resubmit(u, d)
             \/ \E u \in Users : Expire(u) \/ SignIn(u)
    BY <1>2, <1>3 DEF Index, OtherTransaction, Resubmit, Expire, SignIn, serverVars
  <1>4. ASSUME NEW u \in Creators, ProxyTimeout(u)
        PROVE  PollInv'
    BY <1>4, FailedPage, OnePage DEF ProxyTimeout, Fail, Notices
  <1>5. ASSUME NEW u \in Creators, Reload(u)
        PROVE  PollInv'
    <2>1. FreshPage \in PageRecord /\ FreshPage.phase # "polling"
      BY BudgetAssumption DEF FreshPage, PageRecord, Phases, Notices
    <2> QED
      BY <1>5, <2>1, OnePage DEF Reload
  <1>6. CASE Restart
    <2>1. Failed("raw") \in PageRecord /\ Failed("raw").phase # "polling"
      BY FailedPage DEF Notices
    <2>2. /\ page' \in [Creators -> PageRecord]
          /\ \A u \in Creators : page'[u] = page[u] \/ page'[u].phase # "polling"
      BY <1>1, <1>6, <2>1 DEF Restart
    <2>3. jobs' \in Seq(JobRecord) /\ DOMAIN jobs' = {}
      BY <1>6 DEF Restart
    <2> QED
      BY <1>6, <2>2, <2>3, PollFrame DEF Restart
  <1> QED
    BY <1>3, <1>4, <1>5, <1>6, PollTick DEF Environment

LEMMA PollNextInv == PaymentInv /\ PollInv /\ [Next]_vars => PollInv'
  <1> SUFFICES ASSUME PaymentInv, PollInv, [Next]_vars PROVE PollInv'
    OBVIOUS
  <1>1. CASE UNCHANGED vars
    BY <1>1, SamePage DEF vars, PollInv, PollTypes
  <1> QED
    BY <1>1, PollServer, PollingPage, PollEnvironment DEF Next

LEMMA PollSafe == Spec => [](PaymentInv /\ PollInv)
  <1>1. Init => PaymentInv /\ PollInv
    BY PaymentInitInv, PollInitInv
  <1>2. PaymentInv /\ PollInv /\ [Next]_vars => (PaymentInv /\ PollInv)'
    BY PaymentNextInv, PollNextInv
  <1> QED
    BY <1>1, <1>2, PTL DEF Spec

(* The sweep never takes a job away from a page that still polls for it      *)
(* (generate-jobs.ts, api.ts), whenever the TTL is no shorter than the       *)
(* polling budget.  The argument is PolledSinceCreated: a page polls only    *)
(* for a record made when it began, so the record is at most as old as the   *)
(* budget used up, and a page with budget left finds it within its TTL.      *)
THEOREM SweepsSparePolling == Spec => SweepSparesPolling
  <1>1. ASSUME PollInv, Sweep, NEW u \in Creators,
               page[u].phase = "polling", page[u].left > 0, page[u].job \in Stored
        PROVE  page[u].job \in Stored'
    <2>1. PICK k \in DOMAIN jobs : jobs[k].id = page[u].job
      BY <1>1 DEF Stored
    <2>2. jobs \in Seq(JobRecord) /\ page[u] \in PageRecord
      BY <1>1 DEF PollInv, PollTypes
    <2>3. jobs[k] \in JobRecord
      BY <2>2
    <2>4. jobs[k].age + page[u].left <= PollBudget
      BY <1>1, <2>1 DEF PollInv, PolledSinceCreated
    <2>5. Fresh(jobs[k])
      BY <1>1, <2>2, <2>3, <2>4, BudgetAssumption DEF Fresh, JobRecord, PageRecord
    <2> DEFINE fresh == {i \in DOMAIN jobs : Fresh(jobs[i])}
    <2>6. k \in DOMAIN jobs \cap fresh
      BY <2>5
    <2>7. jobs' = Keeping(jobs, fresh)
      BY <1>1 DEF Sweep, Swept
    <2> HIDE DEF fresh
    <2>8. \E i \in DOMAIN jobs' : jobs'[i] = jobs[k]
      BY <2>2, <2>6, <2>7, KeepingKeeps
    <2> QED
      BY <2>1, <2>8 DEF Stored
  <1>2. PollInv => (Sweep => \A u \in Creators :
            page[u].phase = "polling" /\ page[u].left > 0 /\ page[u].job \in Stored
                => page[u].job \in Stored')
    BY <1>1
  <1> QED
    BY <1>2, PollSafe, PTL DEF SweepSparesPolling

=============================================================================
