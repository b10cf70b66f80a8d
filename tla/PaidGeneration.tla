--------------------------- MODULE PaidGeneration ---------------------------
(***************************************************************************)
(* Paid text-to-3D generation, end to end: the create page pays the fee    *)
(* on chain and dispatches POST /api/generate; the route verifies the      *)
(* payment, marks its digest spent, runs the Tripo work in the background  *)
(* and keeps the outcome in memory; the page polls for it.                 *)
(*                                                                         *)
(* Digests are spent in SQLite and survive a restart, jobs do not.  Time   *)
(* is kept as ages and remaining budgets, in units longer than the proxy's *)
(* request timeout; a request and its response fit in one step, and either *)
(* may be lost.  Payloads, prompts and error texts are left out.           *)
(***************************************************************************)
EXTENDS Naturals, Sequences, FiniteSets

CONSTANTS
    Users,        \* authenticated wallets
    Creators,     \* the users whose create page is open
    Digests,      \* transaction digests
    Jobs,         \* job ids (randomUUID)
    Nobody,       \* stands for no digest, no job and no wallet
    Operator,     \* TRIPO_FEE_OPERATOR: may skip the balance-change check
    MaxJobs,      \* DEFAULT_MAX_JOBS
    Ttl,          \* DEFAULT_TTL_MS, in units of time
    PollBudget,   \* how long the page polls, in units of time
    MaxAge,       \* DEFAULT_MAX_AGE_MS of a payment, in units of time
    MaxRequests,  \* bound: dispatches the server handles at a time
    Faults        \* which of the faults below the instance allows

FaultKinds == {"restart", "lost", "reload", "expiry", "resubmit"}

ASSUME BudgetAssumption ==
    /\ MaxJobs \in Nat \ {0}
    /\ Ttl \in Nat /\ PollBudget \in Nat /\ MaxAge \in Nat
    /\ PollBudget <= Ttl
    /\ Faults \subseteq FaultKinds

ASSUME NameAssumption ==
    /\ Creators \subseteq Users
    /\ Nobody \notin Users \cup Digests \cup Jobs

(* What a transaction did: aborted, moved no fee to the treasury, or paid it *)
Effects == {"failed", "other", "fee"}

Outcomes == {"done", "refundable", "outage", "generic"}
JobRecord == [id : Jobs, owner : Users, age : 0..(Ttl + 1), state : {"pending"} \cup Outcomes]

Phases == {"idle", "preflight", "paying", "indexing", "dispatching", "polling", "error"}
Notices == {"none", "unavailable", "session", "refundable", "outage", "generic", "raw"}

VARIABLES
    tx,        \* the transactions executed on chain
    indexed,   \* digests the RPC read replica can return
    session,   \* each user's JWT: "live", "expired" or "none"
    page,      \* each user's create page
    requests,  \* dispatches the server is handling
    spent,     \* spent_payments table (durable)
    jobs,      \* the job store's Map, in insertion order
    running,   \* jobs whose background work has not ended
    funded     \* history: the digest and owner each job was created for

vars == <<tx, indexed, session, page, requests, spent, jobs, running, funded>>
chainVars == <<tx, indexed>>
serverVars == <<requests, spent, jobs, running, funded>>

Transaction == [sender : Users, effect : Effects, age : 0..(MaxAge + 1)]
Request == [user : Users, digest : Digests, awaited : BOOLEAN, looking_up : BOOLEAN]
Funding == [owner : Users, digest : Digests]
NoTx == [sender |-> Nobody]
NoFunding == [owner |-> Nobody]

FreshPage == [phase |-> "idle", digest |-> Nobody, job |-> Nobody, left |-> 0, notice |-> "none"]

TypeOK ==
    /\ tx \in [Digests -> Transaction \cup {NoTx}]
    /\ indexed \subseteq Digests
    /\ session \in [Users -> {"live", "expired", "none"}]
    /\ page \in [Creators -> [phase : Phases, digest : Digests \cup {Nobody},
                           job : Jobs \cup {Nobody}, left : 0..PollBudget, notice : Notices]]
    /\ requests \subseteq Request
    /\ spent \subseteq Digests
    /\ jobs \in Seq(JobRecord)
    /\ \A i, k \in DOMAIN jobs : jobs[i].id = jobs[k].id => i = k
    /\ running \subseteq Jobs
    /\ funded \in [Jobs -> Funding \cup {NoFunding}]

Init ==
    /\ tx = [d \in Digests |-> NoTx]
    /\ indexed = {}
    /\ session = [u \in Users |-> "live"]
    /\ page = [u \in Creators |-> FreshPage]
    /\ requests = {}
    /\ spent = {}
    /\ jobs = <<>>
    /\ running = {}
    /\ funded = [j \in Jobs |-> NoFunding]

Executed == {d \in Digests : tx[d] # NoTx}
Stored == {jobs[i].id : i \in DOMAIN jobs}
Used == {j \in Jobs : funded[j] # NoFunding}
Generating == {"dispatching", "polling"}

-----------------------------------------------------------------------------
(* The page up to the dispatch (onGenerate).                                 *)

(* A run that ended forgets its digest and its job. *)
Failed(notice) == [FreshPage EXCEPT !.phase = "error", !.notice = notice]
Fail(u, notice) == page' = [page EXCEPT ![u] = Failed(notice)]

(* A 401, or a token seen expired, also clears the session. *)
FailSession(u) ==
    /\ Fail(u, "session")
    /\ session' = [session EXCEPT ![u] = "none"]

StartGenerate(u) ==
    /\ page[u].phase \in {"idle", "error"}
    /\ session[u] # "none"
    /\ \/ /\ session[u] = "expired"
          /\ FailSession(u)
       \/ /\ session[u] = "live"
          /\ page' = [page EXCEPT ![u] = [FreshPage EXCEPT !.phase = "preflight"]]
          /\ UNCHANGED session
    /\ UNCHANGED <<chainVars, serverVars>>

(* The balance behind the answer is somebody else's: either may come back. *)
Preflight(u) ==
    /\ page[u].phase = "preflight"
    /\ \/ /\ session[u] = "expired"
          /\ FailSession(u)
       \/ /\ session[u] = "live"
          /\ \/ page' = [page EXCEPT ![u].phase = "paying"]
             \/ Fail(u, "unavailable")
          /\ UNCHANGED session
    /\ UNCHANGED <<chainVars, serverVars>>

(* The wallet executes the fee transfer, which may fail on chain, or its     *)
(* owner rejects it.                                                         *)
Pay(u, d) ==
    /\ page[u].phase = "paying"
    /\ d \notin Executed
    /\ \E effect \in {"fee", "failed"} :
           tx' = [tx EXCEPT ![d] = [sender |-> u, effect |-> effect, age |-> 0]]
    /\ page' = [page EXCEPT ![u].phase = "indexing", ![u].digest = d]
    /\ UNCHANGED <<indexed, session, serverVars>>

RejectPayment(u) ==
    /\ page[u].phase = "paying"
    /\ Fail(u, "raw")
    /\ UNCHANGED <<chainVars, session, serverVars>>

(* waitForTransaction returns once the digest is indexed, or times out. *)
Dispatch(u) ==
    /\ page[u].phase = "indexing"
    /\ page[u].digest \in indexed
    /\ Cardinality(requests) < MaxRequests
    /\ page' = [page EXCEPT ![u].phase = "dispatching"]
    /\ requests' = requests \cup {[user |-> u, digest |-> page[u].digest,
                                   awaited |-> TRUE, looking_up |-> FALSE]}
    /\ UNCHANGED <<chainVars, session, spent, jobs, running, funded>>

WaitTimeout(u) ==
    /\ page[u].phase = "indexing"
    /\ page[u].digest \notin indexed
    /\ Fail(u, "raw")
    /\ UNCHANGED <<chainVars, session, serverVars>>

-----------------------------------------------------------------------------
(* The job store.                                                            *)

(* Faulty variant of Fresh: the sweep interval is taken for the TTL. *)
FreshForAnInterval(record) == record.age < 1

Fresh(record) == record.age <= Ttl

(* The records at the positions kept, in their order. *)
Keeping(store, kept) ==
    LET upTo[n \in 0..Len(store)] ==
            IF n = 0 THEN <<>>
            ELSE IF n \in kept THEN Append(upTo[n - 1], store[n]) ELSE upTo[n - 1]
    IN  upTo[Len(store)]

(* A sweep drops what expired. *)
Swept(store) == Keeping(store, {i \in DOMAIN store : Fresh(store[i])})

(* Expired records go first, then the oldest ones while the store is full. *)
WithRoom(store) ==
    LET kept == Swept(store) IN
    IF Len(kept) < MaxJobs THEN kept
    ELSE SubSeq(kept, Len(kept) - MaxJobs + 2, Len(kept))

create(j, owner) ==
    jobs' = Append(WithRoom(jobs), [id |-> j, owner |-> owner, age |-> 0, state |-> "pending"])

(* Faulty variant of settle: the outcome is a record of its own, written     *)
(* whether or not the pending one is still there.                            *)
settle_anyway(j, outcome) ==
    jobs' = Append(jobs, [id |-> j, owner |-> funded[j].owner, age |-> 0, state |-> outcome])

(* setDone and setError: nothing happens to a record that is gone. *)
settle(j, outcome) ==
    jobs' = [i \in DOMAIN jobs |->
                IF jobs[i].id = j THEN [jobs[i] EXCEPT !.state = outcome] ELSE jobs[i]]

(* A terminal record is deleted when it is read. *)
take(j) ==
    jobs' = Keeping(jobs, {i \in DOMAIN jobs : jobs[i].id # j \/ jobs[i].state = "pending"})

-----------------------------------------------------------------------------
(* The route and the payment verifier.                                       *)

(* The answer to a dispatch reaches its page, or is lost on the way (the     *)
(* fetch throws); a request nobody awaits answers nobody.                    *)
Answer(r, answered) ==
    IF ~r.awaited THEN UNCHANGED <<page, session>>
    ELSE \/ answered
         \/ /\ "lost" \in Faults
            /\ Fail(r.user, "raw")
            /\ UNCHANGED session

Refuse(r) ==
    /\ requests' = requests \ {r}
    /\ Answer(r, Fail(r.user, "generic") /\ UNCHANGED session)
    /\ UNCHANGED <<chainVars, spent, jobs, running, funded>>

(* Up to the RPC lookup: the bearer token, then the first replay check. *)
BeginVerify(r) ==
    /\ r \in requests
    /\ ~r.looking_up
    /\ \/ /\ session[r.user] # "live"
          /\ requests' = requests \ {r}
          /\ Answer(r, FailSession(r.user))
          /\ UNCHANGED <<chainVars, spent, jobs, running, funded>>
       \/ /\ session[r.user] = "live"
          /\ r.digest \in spent
          /\ Refuse(r)
       \/ /\ session[r.user] = "live"
          /\ r.digest \notin spent
          /\ requests' = (requests \ {r}) \cup {[r EXCEPT !.looking_up = TRUE]}
          /\ UNCHANGED <<chainVars, session, page, spent, jobs, running, funded>>

(* The checks on the transaction.  The RPC may leave its timestamp out; then *)
(* it passes for recent whatever its age.                                    *)
Genuine(r, timestamped) ==
    /\ r.digest \in indexed
    /\ tx[r.digest].effect # "failed"
    /\ tx[r.digest].sender = r.user
    /\ timestamped => tx[r.digest].age <= MaxAge
    /\ r.user # Operator => tx[r.digest].effect = "fee"

(* Faulty variant of MarkSpent: insert without looking at what was there. *)
MarkSpentAgain(d) == spent' = spent \cup {d}

(* markPaymentSpent, INSERT OR IGNORE: it succeeds for one caller only. *)
MarkSpent(d) ==
    /\ d \notin spent
    /\ spent' = spent \cup {d}

(* The rest of the handler runs without a suspension that matters: the       *)
(* digest is marked, the job created and started, and the 202 sent.          *)
Accept(r, j) ==
    /\ \E timestamped \in BOOLEAN : Genuine(r, timestamped)
    /\ MarkSpent(r.digest)
    /\ j \in Jobs \ Used
    /\ create(j, r.user)
    /\ running' = running \cup {j}
    /\ funded' = [funded EXCEPT ![j] = [owner |-> r.user, digest |-> r.digest]]
    /\ requests' = requests \ {r}
    /\ Answer(r, /\ page' = [page EXCEPT ![r.user].phase = "polling", ![r.user].job = j,
                                         ![r.user].left = PollBudget]
                 /\ UNCHANGED session)
    /\ UNCHANGED chainVars

(* The lookup fails, a check fails, or the digest was spent in the meantime. *)
Reject(r) == Refuse(r)

FinishVerify(r) ==
    /\ r \in requests
    /\ r.looking_up
    /\ (\E j \in Jobs : Accept(r, j)) \/ Reject(r)

(* runJob ends: a result, or one of the classified failures. *)
EndJob(j, outcome) ==
    /\ j \in running
    /\ running' = running \ {j}
    /\ settle(j, outcome)
    /\ UNCHANGED <<chainVars, session, page, requests, spent, funded>>

Sweep ==
    /\ \E i \in DOMAIN jobs : ~Fresh(jobs[i])
    /\ jobs' = Swept(jobs)
    /\ UNCHANGED <<chainVars, session, page, requests, spent, running, funded>>

-----------------------------------------------------------------------------
(* The page after the dispatch (generate).                                   *)

(* What the page does with the state a poll returned. *)
OnState(u, state) ==
    CASE state = "pending" -> UNCHANGED page
      [] state = "done" -> page' = [page EXCEPT ![u] = FreshPage]
      [] OTHER -> Fail(u, state)

(* Faulty variant of Poll: every answer restarts the budget. *)
PollRestartingBudget(u) ==
    /\ page[u].phase = "polling"
    /\ page[u].left > 0
    /\ session[u] = "live"
    /\ \E i \in DOMAIN jobs : jobs[i].id = page[u].job /\ jobs[i].state = "pending"
    /\ page' = [page EXCEPT ![u].left = PollBudget]
    /\ UNCHANGED <<chainVars, serverVars, session>>

(* One poll.  A response that is lost leaves the page polling, but the       *)
(* server has handled the request all the same.                              *)
Poll(u) ==
    /\ page[u].phase = "polling"
    /\ page[u].left > 0
    /\ UNCHANGED <<chainVars, requests, spent, running, funded>>
    /\ \/ /\ session[u] # "live"
          /\ FailSession(u)
          /\ UNCHANGED jobs
       \/ /\ session[u] = "live"
          /\ page[u].job \notin Stored
          /\ Fail(u, "generic")
          /\ UNCHANGED <<session, jobs>>
       \/ /\ session[u] = "live"
          /\ \E i \in DOMAIN jobs :
                /\ jobs[i].id = page[u].job
                /\ jobs[i].owner = u
                /\ take(page[u].job)
                /\ \/ OnState(u, jobs[i].state)
                   \/ "lost" \in Faults /\ UNCHANGED page
          /\ UNCHANGED session

(* The page stops polling and calls it a timeout, refundable since it paid. *)
PollTimeout(u) ==
    /\ page[u].phase = "polling"
    /\ page[u].left = 0
    /\ Fail(u, "refundable")
    /\ UNCHANGED <<chainVars, serverVars, session>>

-----------------------------------------------------------------------------
(* The environment.                                                          *)

Index(d) ==
    /\ d \in Executed \ indexed
    /\ indexed' = indexed \cup {d}
    /\ UNCHANGED <<tx, session, page, serverVars>>

(* A successful transaction of the user's that no page asked for. *)
OtherTransaction(u, d, effect) ==
    /\ "resubmit" \in Faults
    /\ d \notin Executed
    /\ tx' = [tx EXCEPT ![d] = [sender |-> u, effect |-> effect, age |-> 0]]
    /\ UNCHANGED <<indexed, session, page, serverVars>>

(* A digest is submitted once more, by its payer or by somebody else. *)
Resubmit(u, d) ==
    /\ "resubmit" \in Faults
    /\ d \in Executed
    /\ Cardinality(requests) < MaxRequests
    /\ requests' = requests \cup {[user |-> u, digest |-> d,
                                   awaited |-> FALSE, looking_up |-> FALSE]}
    /\ UNCHANGED <<chainVars, session, page, spent, jobs, running, funded>>

Orphaned(u) == {IF r.user = u THEN [r EXCEPT !.awaited = FALSE] ELSE r : r \in requests}

(* The proxy gives up on a slow dispatch; the server does not notice. *)
ProxyTimeout(u) ==
    /\ page[u].phase = "dispatching"
    /\ Fail(u, "generic")
    /\ requests' = Orphaned(u)
    /\ UNCHANGED <<chainVars, session, spent, jobs, running, funded>>

Reload(u) ==
    /\ "reload" \in Faults
    /\ page[u] # FreshPage
    /\ page' = [page EXCEPT ![u] = FreshPage]
    /\ requests' = Orphaned(u)
    /\ UNCHANGED <<chainVars, session, spent, jobs, running, funded>>

Expire(u) ==
    /\ "expiry" \in Faults
    /\ session[u] = "live"
    /\ session' = [session EXCEPT ![u] = "expired"]
    /\ UNCHANGED <<chainVars, page, serverVars>>

SignIn(u) ==
    /\ session[u] = "none"
    /\ session' = [session EXCEPT ![u] = "live"]
    /\ UNCHANGED <<chainVars, page, serverVars>>

(* The backend restarts: what was in memory is gone, the spent table is not, *)
(* and the pages that awaited an answer see their fetch fail.                *)
Restart ==
    /\ "restart" \in Faults
    /\ requests' = {}
    /\ jobs' = <<>>
    /\ running' = {}
    /\ page' = [u \in Creators |-> IF page[u].phase = "dispatching"
                                THEN Failed("raw") ELSE page[u]]
    /\ UNCHANGED <<chainVars, session, spent, funded>>

Older(age, limit) == IF age > limit THEN age ELSE age + 1

Tick ==
    /\ tx' = [d \in Digests |-> IF d \in Executed
                                THEN [tx[d] EXCEPT !.age = Older(@, MaxAge)] ELSE NoTx]
    /\ jobs' = [i \in DOMAIN jobs |-> [jobs[i] EXCEPT !.age = Older(@, Ttl)]]
    /\ page' = [u \in Creators |-> IF page[u].left > 0 THEN [page[u] EXCEPT !.left = @ - 1]
                                ELSE page[u]]
    /\ UNCHANGED <<indexed, session, requests, spent, running, funded>>

PageStep(u) ==
    \/ StartGenerate(u)
    \/ Preflight(u)
    \/ \E d \in Digests : Pay(u, d)
    \/ RejectPayment(u)
    \/ Dispatch(u)
    \/ WaitTimeout(u)
    \/ Poll(u)
    \/ PollTimeout(u)

ServerStep ==
    \/ \E r \in requests : BeginVerify(r) \/ FinishVerify(r)
    \/ \E j \in Jobs, outcome \in Outcomes : EndJob(j, outcome)
    \/ Sweep

Environment ==
    \/ \E d \in Digests : Index(d)
    \/ \E u \in Users, d \in Digests, effect \in {"other", "fee"} : OtherTransaction(u, d, effect)
    \/ \E u \in Users, d \in Digests : Resubmit(u, d)
    \/ \E u \in Creators : ProxyTimeout(u) \/ Reload(u)
    \/ \E u \in Users : Expire(u) \/ SignIn(u)
    \/ Restart
    \/ Tick

Next == (\E u \in Creators : PageStep(u)) \/ ServerStep \/ Environment

Spec == Init /\ [][Next]_vars

(* Time passes, the proxy times slow requests out and the page's own loop    *)
(* runs.  Nothing is assumed of users, of Tripo or of the RPC.               *)
Fairness ==
    /\ WF_vars(Tick)
    /\ \A u \in Creators : WF_vars(PollTimeout(u)) /\ WF_vars(ProxyTimeout(u))

FairSpec == Spec /\ Fairness

-----------------------------------------------------------------------------
(* Properties.                                                               *)

(* One digest funds exactly one generation (D-088), the payer's own, across  *)
(* restarts, concurrent dispatches and resubmissions: the jobs created so    *)
(* far have different digests, each a transaction of the job's owner that    *)
(* paid the fee or is the operator's.                                        *)
OneDigestOneJob ==
    \A j \in Used :
        /\ \A k \in Used : funded[k].digest = funded[j].digest => k = j
        /\ LET payment == tx[funded[j].digest] IN
           /\ payment.sender = funded[j].owner
           /\ payment.effect = "fee" \/ (payment.effect = "other" /\ payment.sender = Operator)

(* The TTL outlives the polling budget (generate-jobs.ts, api.ts): the sweep *)
(* never takes a job away from a page that still polls for it.               *)
SweepSparesPolling ==
    [][Sweep => \A u \in Creators :
           page[u].phase = "polling" /\ page[u].left > 0 /\ page[u].job \in Stored
               => page[u].job \in Stored']_vars

(* Once dispatched, a generation ends on the page: every page stops waiting, *)
(* whatever the server, Tripo and the network do.                            *)
PageSettles ==
    \A u \in Creators : page[u].phase \in Generating ~> page[u].phase \notin Generating

=============================================================================
