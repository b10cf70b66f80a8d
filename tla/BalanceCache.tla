---------------------------- MODULE BalanceCache ----------------------------
(***************************************************************************)
(* The pre-flight of a paid generation: before the page charges the fee,   *)
(* GET /api/generate/preflight says whether the operator's Tripo credit    *)
(* covers one more chain.  It answers from a row of the quota store that   *)
(* two writers keep: the balance poller (backend/src/events/               *)
(* tripoBalancePoller.ts) and the route itself (routes/preflight.ts), which*)
(* asks Tripo when the row is missing or stale, one query for all callers. *)
(* A balance is abstracted to whether it reaches the threshold; a query    *)
(* reads it at Tripo some time before its answer is written here, and is   *)
(* aborted after RequestTimeout (lib/tripo-client.ts).  The row is durable.*)
(***************************************************************************)
EXTENDS Naturals, FiniteSets

CONSTANTS
  Callers,         \* wallets asking for a pre-flight
  PollMs,          \* the poller's interval
  StaleMs,         \* age at which the row must be read anew
  RequestTimeout,  \* a query is aborted at this age
  MaxClock,        \* bound: how far time runs
  MaxSpends,       \* bound: changes of the credit at Tripo
  MaxBoots         \* bound: starts of the process

BalanceAssumption ==
  /\ {PollMs, StaleMs, MaxClock, MaxBoots} \subseteq Nat \ {0}
  /\ {RequestTimeout, MaxSpends} \subseteq Nat

VARIABLES
  clock,
  credit,    \* at Tripo: is the spendable balance at least the threshold?
  seen,      \* for each of TRUE and FALSE, the last time credit had it (0: never before)
  row,       \* the cached balance: [enough, at], or NoRow
  poll,      \* the poller's query
  live,      \* the route's shared query
  nextPoll,  \* when the interval fires next
  asks,      \* caller -> what the pre-flight told it, or that it waits
  spends, boots

vars == <<clock, credit, seen, row, poll, live, nextPoll, asks, spends, boots>>

NoRow == [enough |-> FALSE, at |-> MaxClock + 1]
Idle == [phase |-> "idle", since |-> 0, enough |-> FALSE]
Phases == {"idle", "asked", "read"}
Answers == {"available", "insufficient", "unknown"}

Init ==
  /\ clock = 0 /\ credit \in BOOLEAN /\ seen = [b \in BOOLEAN |-> 0]
  /\ row = NoRow /\ poll = Idle /\ live = Idle /\ nextPoll = 0
  /\ asks = [u \in Callers |-> "none"] /\ spends = 0 /\ boots = 1

-----------------------------------------------------------------------------
(* Time passes; a query that has reached its timeout is aborted first, and *)
(* credit keeps the value it has for one more instant.                     *)
Expired(q) == q.phase # "idle" /\ clock >= q.since + RequestTimeout

Tick ==
  /\ clock < MaxClock /\ ~Expired(poll) /\ ~Expired(live)
  /\ clock' = clock + 1
  /\ seen' = [seen EXCEPT ![credit] = clock + 1]
  /\ UNCHANGED <<credit, row, poll, live, nextPoll, asks, spends, boots>>

(* Generations spend the credit, a top-up restores it.                     *)
CreditMoves ==
  /\ spends < MaxSpends
  /\ credit' = ~credit /\ seen' = [seen EXCEPT ![~credit] = clock]
  /\ spends' = spends + 1
  /\ UNCHANGED <<clock, row, poll, live, nextPoll, asks, boots>>

Ask == [phase |-> "asked", since |-> clock, enough |-> FALSE]
Reads(q) == [q EXCEPT !.phase = "read", !.enough = credit]

(* setTripoBalance: the row says what the query read, at the time its      *)
(* answer arrived.                                                         *)
Write(q) == [enough |-> q.enough, at |-> clock]

(* pollOnce: one query at a time; the row is left alone when it fails.     *)
PollStart ==
  /\ poll.phase = "idle" /\ clock >= nextPoll
  /\ poll' = Ask /\ nextPoll' = clock + PollMs
  /\ UNCHANGED <<clock, credit, seen, row, live, asks, spends, boots>>

PollReads ==
  /\ poll.phase = "asked" /\ poll' = Reads(poll)
  /\ UNCHANGED <<clock, credit, seen, row, live, nextPoll, asks, spends, boots>>

PollDone ==
  /\ poll.phase = "read" /\ poll' = Idle /\ row' = Write(poll)
  /\ UNCHANGED <<clock, credit, seen, live, nextPoll, asks, spends, boots>>

PollFails ==
  /\ poll.phase # "idle" /\ poll' = Idle
  /\ UNCHANGED <<clock, credit, seen, row, live, nextPoll, asks, spends, boots>>

(* Does the route answer from the row?                                     *)
Warm_faulty(r) == r # NoRow
Warm(r) == r # NoRow /\ clock - r.at < StaleMs

Verdict(enough) == IF enough THEN "available" ELSE "insufficient"

(* GET /preflight on a warm row: the answer is at hand.                    *)
AskWarm(u) ==
  /\ asks[u] # "waits" /\ Warm(row)
  /\ asks' = [asks EXCEPT ![u] = Verdict(row.enough)]
  /\ UNCHANGED <<clock, credit, seen, row, poll, live, nextPoll, spends, boots>>

(* On a cold or stale row the caller joins the query in flight or starts   *)
(* one.                                                                    *)
AskLive(u) ==
  /\ asks[u] # "waits" /\ ~Warm(row)
  /\ asks' = [asks EXCEPT ![u] = "waits"]
  /\ live' = IF live.phase = "idle" THEN Ask ELSE live
  /\ UNCHANGED <<clock, credit, seen, row, poll, nextPoll, spends, boots>>

LiveReads ==
  /\ live.phase = "asked" /\ live' = Reads(live)
  /\ UNCHANGED <<clock, credit, seen, row, poll, nextPoll, asks, spends, boots>>

(* Whom the end of a live query answers, and with what.                    *)
Told(answer) ==
  [u \in Callers |-> IF asks[u] = "waits" THEN answer ELSE asks[u]]

LiveDone ==
  /\ live.phase = "read" /\ live' = Idle /\ row' = Write(live)
  /\ asks' = Told(Verdict(live.enough))
  /\ UNCHANGED <<clock, credit, seen, poll, nextPoll, spends, boots>>

(* The query throws or times out: every caller is told "unknown", which    *)
(* the page takes for not available (fail closed).                         *)
LiveFails ==
  /\ live.phase # "idle" /\ live' = Idle
  /\ asks' = Told("unknown")
  /\ UNCHANGED <<clock, credit, seen, row, poll, nextPoll, spends, boots>>

(* The process starts again: queries and waiting callers are lost, the row *)
(* is not, and the poller polls at once.                                   *)
Restart ==
  /\ boots < MaxBoots
  /\ poll' = Idle /\ live' = Idle /\ nextPoll' = clock /\ boots' = boots + 1
  /\ asks' = [u \in Callers |-> IF asks[u] = "waits" THEN "none" ELSE asks[u]]
  /\ UNCHANGED <<clock, credit, seen, row, spends>>

Next ==
  \/ Tick \/ CreditMoves
  \/ PollStart \/ PollReads \/ PollDone \/ PollFails
  \/ \E u \in Callers : AskWarm(u) \/ AskLive(u)
  \/ LiveReads \/ LiveDone \/ LiveFails \/ Restart

(* A query is answered or aborted: AbortSignal.timeout fires.              *)
Fairness == WF_vars(LiveReads) /\ WF_vars(LiveDone) /\ WF_vars(LiveFails)

Spec == Init /\ [][Next]_vars /\ Fairness

-----------------------------------------------------------------------------
Queries == [phase : Phases, since : 0..MaxClock, enough : BOOLEAN]

TypeOK ==
  /\ clock \in 0..MaxClock /\ credit \in BOOLEAN
  /\ seen \in [BOOLEAN -> 0..MaxClock]
  /\ row \in [enough : BOOLEAN, at : 0..MaxClock] \cup {NoRow}
  /\ poll \in Queries /\ live \in Queries /\ nextPoll \in 0..(MaxClock + PollMs)
  /\ asks \in [Callers -> Answers \cup {"none", "waits"}]
  /\ spends \in 0..MaxSpends /\ boots \in 1..MaxBoots

(* A verdict the pre-flight gives held at Tripo no longer than StaleMs +   *)
(* RequestTimeout ago, although a slow answer of one writer may replace a  *)
(* newer one of the other and is stamped with the time it arrived, and     *)
(* although the row survives a restart.  Before the first reading credit   *)
(* counts as seen both ways at 0.                                          *)
VerdictIsRecent ==
  [][\A u \in Callers :
       asks'[u] # asks[u] /\ asks'[u] \in {"available", "insufficient"}
         => clock < seen[asks'[u] = "available"] + StaleMs + RequestTimeout
            \/ credit = (asks'[u] = "available")]_vars

(* The answer of a live query reaches every caller that joined it: a       *)
(* caller never waits while nothing is asked, so each is answered in the   *)
(* end unless the process goes down with it.                               *)
WaitersAreServed ==
  /\ [](\A u \in Callers : asks[u] = "waits" => live.phase # "idle")
  /\ \A u \in Callers : asks[u] = "waits" ~> asks[u] # "waits"
=============================================================================
