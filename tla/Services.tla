------------------------------- MODULE Services -------------------------------
(***************************************************************************)
(* The long-running parts around the pages, as one model: the Gemini       *)
(* budget (GeminiQuota), the integration indexer, the cached Tripo balance,*)
(* the limiter of the MCP route, one Tripo generation, and what an agent   *)
(* finds and the arc from its offer to a file.  None of them touches the   *)
(* state of another, so a behaviour is about one.                          *)
(***************************************************************************)
EXTENDS GeminiQuota, Sequences

CONSTANTS
  Collections, Integrators, BadMetadata, PageLimit, MaxThrows, MaxBlanks,    \* the indexer
  Callers, PollMs, StaleMs, BalanceTimeout, MaxSpends,                       \* the balance
  Ips, Addresses, MaxKeys, MaxPerWindow, WindowMs, MaxCalls,                 \* the limiter
  Delays, MaxWait, RequestTimeout, Latencies,                                \* a generation
  Models, Agents, Creator, Policy, MaxEntitlements, MaxCrashes,              \* an agent's arc
  Bases, Strange, Forks, BaseOf, Page, MaxCount,                             \* its discovery
  MaxClock, MaxBoots                                                         \* bounds

VARIABLES
  service,
  log, store, cursor, page, next, more, polling, skipped, throws, blanks, indexerBoots,
  balanceClock, credit, seen, row, poll, live, nextPoll, asks, spends, balanceBoots,
  limiterClock, hits, admitted, evicted, requests,
  at, elapsed, attempt, total, remote, created, outcome,
  ents, replica, offers, material, run, temp, file, crashes,
  launched, indexed, counts, call, answer

indexerVars == <<log, store, cursor, page, next, more, polling, skipped, throws, blanks,
                 indexerBoots>>
balanceVars == <<balanceClock, credit, seen, row, poll, live, nextPoll, asks, spends,
                 balanceBoots>>
limiterVars == <<limiterClock, hits, admitted, evicted, requests>>
chainVars == <<at, elapsed, attempt, total, remote, created, outcome>>
agentVars == <<ents, replica, offers, material, run, temp, file, crashes>>
discoveryVars == <<launched, indexed, counts, call, answer>>

Indexer == INSTANCE IntegrationIndexer WITH boots <- indexerBoots

Balance == INSTANCE BalanceCache WITH
  RequestTimeout <- BalanceTimeout, clock <- balanceClock, boots <- balanceBoots

Limiter == INSTANCE RateLimiter WITH clock <- limiterClock, calls <- requests

Chain == INSTANCE TripoChain

Agent == INSTANCE AgentArc

Discovery == INSTANCE AgentDiscovery WITH Models <- Bases

ASSUME ServicesAssumption ==
  /\ Indexer!IndexerAssumption /\ Balance!BalanceAssumption
  /\ Limiter!LimiterAssumption /\ Chain!ChainAssumption /\ Agent!ArcAssumption
  /\ Discovery!DiscoveryAssumption /\ IsFiniteSet(Forks)

ServicesInit ==
  /\ service \in {"quota", "indexer", "balance", "limiter", "chain", "agent", "discovery"}
  /\ Init /\ Indexer!Init /\ Balance!Init /\ Limiter!Init /\ Chain!Init /\ Agent!Init
  /\ Discovery!Init
  /\ service # "balance" => credit

ServicesNext ==
  /\ UNCHANGED service
  /\ \/ service = "quota" /\ Next
        /\ UNCHANGED <<indexerVars, balanceVars, limiterVars, chainVars, agentVars,
                       discoveryVars>>
     \/ service = "indexer" /\ Indexer!Next
        /\ UNCHANGED <<vars, balanceVars, limiterVars, chainVars, agentVars, discoveryVars>>
     \/ service = "balance" /\ Balance!Next
        /\ UNCHANGED <<vars, indexerVars, limiterVars, chainVars, agentVars, discoveryVars>>
     \/ service = "limiter" /\ Limiter!Next
        /\ UNCHANGED <<vars, indexerVars, balanceVars, chainVars, agentVars, discoveryVars>>
     \/ service = "chain" /\ Chain!Next
        /\ UNCHANGED <<vars, indexerVars, balanceVars, limiterVars, agentVars, discoveryVars>>
     \/ service = "agent" /\ Agent!Next
        /\ UNCHANGED <<vars, indexerVars, balanceVars, limiterVars, chainVars, discoveryVars>>
     \/ service = "discovery" /\ Discovery!Next
        /\ UNCHANGED <<vars, indexerVars, balanceVars, limiterVars, chainVars, agentVars>>

servicesVars == <<service, vars, indexerVars, balanceVars, limiterVars, chainVars, agentVars,
                  discoveryVars>>

(* Each component's own fairness, for the one the behaviour is about.      *)
ServicesFairness ==
  /\ WF_vars(CooldownEnds) /\ WF_vars(Midnight)
  /\ WF_indexerVars(service = "indexer" /\ Indexer!Tick)
  /\ SF_indexerVars(service = "indexer" /\ Indexer!Fetch(Len(log)))
  /\ WF_indexerVars(service = "indexer" /\ Indexer!Ingest)
  /\ WF_balanceVars(Balance!LiveReads)
  /\ WF_balanceVars(Balance!LiveDone)
  /\ WF_balanceVars(Balance!LiveFails)
  /\ \A t \in Chain!Tasks :
       /\ WF_chainVars(service = "chain" /\ Chain!Submit(t))
       /\ WF_chainVars(Chain!PollAnswered(t) \/ Chain!PollFails(t))
  /\ WF_chainVars(Chain!Download)

ServicesSpec ==
  /\ ServicesInit
  /\ [][ServicesNext]_servicesVars
  /\ ServicesFairness

-----------------------------------------------------------------------------
(* Every component's type invariant.                                       *)
ServicesTypeOK ==
  /\ TypeOK /\ Indexer!TypeOK /\ Balance!TypeOK /\ Limiter!TypeOK /\ Chain!TypeOK
  /\ Agent!TypeOK /\ Discovery!TypeOK

(* The components' properties, stated in their own modules; those that say *)
(* that something comes to an end are about the component that runs.       *)
ServesTheChain == Indexer!ServesTheChain /\ Discovery!ForksAreListed
ArcDelivers == Agent!ArcDelivers

(* What a caller is told is told in time and was true a short while ago:   *)
(* a generation settles within its bound, a verdict on the balance is      *)
(* recent.                                                                 *)
AnswersInTime == []Chain!SettlesInTime /\ Balance!VerdictIsRecent

(* The limiter keeps its rate, at the ceiling of its table too.            *)
RateHolds == []Limiter!RateBounded /\ Limiter!OnlyTheStalestEvicted

(* Every service comes to an answer: the budget reopens to each user, each *)
(* registration is served, who waits for the balance is told, and each     *)
(* generation settles.                                                     *)
ServicesAnswer ==
  /\ service = "quota" => BudgetReopens
  /\ Indexer!RegistrationServed
  /\ Balance!WaitersAreServed
  /\ service = "chain" => Chain!ChainEnds
=============================================================================
