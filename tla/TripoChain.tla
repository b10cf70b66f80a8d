----------------------------- MODULE TripoChain -----------------------------
(***************************************************************************)
(* The background work of one generation (backend/src/generators/tripo.ts  *)
(* over lib/tripo-client.ts, classified by routes/generate.ts): submit a   *)
(* model task, poll it, submit the segmentation of that model, poll it,    *)
(* download the GLB.  Every request may be answered, refused, answered     *)
(* without the field that was asked for, or time out, in which case Tripo  *)
(* may have carried it out all the same.  Each request takes up to         *)
(* RequestTimeout; a poll loop sleeps Delays[1], Delays[2], ... and gives  *)
(* up when the next sleep would reach its MaxWait.                         *)
(***************************************************************************)
EXTENDS Naturals, Sequences, FiniteSets

CONSTANTS
  Delays,          \* the poll loop's delays; the last one repeats
  MaxWait,         \* task -> maxWaitMs of its poll loop
  RequestTimeout,  \* requestTimeoutMs
  Latencies        \* how long a request that is answered may take

Tasks == {"model", "segment"}

ChainAssumption ==
  /\ Delays \in Seq(Nat \ {0}) /\ Delays # <<>>
  /\ MaxWait \in [Tasks -> Nat \ {0}]
  /\ RequestTimeout \in Nat /\ Latencies \subseteq 0..RequestTimeout

VARIABLES
  at,        \* where the chain is: a request to make, or "end"
  elapsed,   \* the poll loop's own count of the time it has waited
  attempt,   \* delays it has used
  total,     \* time since the chain began
  remote,    \* task -> its state at Tripo
  created,   \* task -> how many of it Tripo was made to run, each paid for
  outcome

vars == <<at, elapsed, attempt, total, remote, created, outcome>>

Steps == {"submit model", "poll model", "submit segment", "poll segment", "download", "end"}
Errors == {"timeout", "failed", "format", "auth"}
Submits == [model |-> "submit model", segment |-> "submit segment"]
Polls == [model |-> "poll model", segment |-> "poll segment"]

Init ==
  /\ at = "submit model" /\ elapsed = 0 /\ attempt = 0 /\ total = 0
  /\ remote = [t \in Tasks |-> "none"] /\ created = [t \in Tasks |-> 0]
  /\ outcome = "none"

Fail(error) == at' = "end" /\ outcome' = error

(* submitTask and submitMeshSegmentation: one attempt.  A task is created  *)
(* unless the request is refused or never arrives.                         *)
Submit(t) ==
  /\ at = Submits[t]
  /\ elapsed' = 0 /\ attempt' = 0
  /\ \/ /\ remote' = [remote EXCEPT ![t] = "running"]
        /\ created' = [created EXCEPT ![t] = @ + 1]
        /\ \/ /\ \E d \in Latencies : total' = total + d
              /\ \/ at' = Polls[t] /\ UNCHANGED outcome
                 \/ Fail("format")
           \/ total' = total + RequestTimeout /\ Fail("timeout")
     \/ /\ UNCHANGED <<remote, created>>
        /\ \/ \E d \in Latencies, e \in {"failed", "auth"} : total' = total + d /\ Fail(e)
           \/ total' = total + RequestTimeout /\ Fail("timeout")

(* Tripo works on its tasks, or gives them up.                             *)
TaskEnds(t) ==
  /\ remote[t] = "running"
  /\ \E s \in {"done", "failed"} : remote' = [remote EXCEPT ![t] = s]
  /\ UNCHANGED <<at, elapsed, attempt, total, created, outcome>>

DelayOf(n) == Delays[IF n < Len(Delays) THEN n + 1 ELSE Len(Delays)]

(* Is the loop out of time?                                                *)
GivesUp(t, delay) == delay >= MaxWait[t] - elapsed

(* What follows a task that is done.                                       *)
After(t) == IF t = "model" THEN "submit segment" ELSE "download"

(* pollTask: one turn of the loop, the request and the sleep after it.     *)
PollAnswered(t) ==
  /\ at = Polls[t]
  /\ \E d \in Latencies :
       \/ /\ remote[t] = "done"
          /\ total' = total + d
          /\ \/ at' = After(t) /\ UNCHANGED outcome
             \/ Fail("format")
          /\ UNCHANGED <<elapsed, attempt>>
       \/ /\ remote[t] = "running"
          /\ LET delay == DelayOf(attempt)
             IN  IF GivesUp(t, delay)
                 THEN /\ Fail("timeout") /\ total' = total + d
                      /\ UNCHANGED <<elapsed, attempt>>
                 ELSE /\ total' = total + d + delay
                      /\ elapsed' = elapsed + delay /\ attempt' = attempt + 1
                      /\ UNCHANGED <<at, outcome>>
  /\ UNCHANGED <<remote, created>>

(* The task failed, the request was refused, or it timed out: no retry.    *)
PollFails(t) ==
  /\ at = Polls[t]
  /\ \/ \E d \in Latencies, e \in {"failed", "auth"} :
          total' = total + d /\ Fail(e)
     \/ total' = total + RequestTimeout /\ Fail("timeout")
  /\ UNCHANGED <<elapsed, attempt, remote, created>>

Download ==
  /\ at = "download"
  /\ \/ \E d \in Latencies, o \in {"done", "failed"} : total' = total + d /\ Fail(o)
     \/ total' = total + RequestTimeout /\ Fail("timeout")
  /\ UNCHANGED <<elapsed, attempt, remote, created>>

Next ==
  \/ \E t \in Tasks : Submit(t) \/ TaskEnds(t) \/ PollAnswered(t) \/ PollFails(t)
  \/ Download

(* A request ends: it is answered or AbortSignal.timeout ends it.  Tripo   *)
(* may keep a task running for ever.                                       *)
Fairness ==
  /\ \A t \in Tasks : WF_vars(Submit(t)) /\ WF_vars(PollAnswered(t) \/ PollFails(t))
  /\ WF_vars(Download)

Spec == Init /\ [][Next]_vars /\ Fairness

-----------------------------------------------------------------------------
TypeOK ==
  /\ at \in Steps /\ elapsed \in Nat /\ attempt \in Nat /\ total \in Nat
  /\ remote \in [Tasks -> {"none", "running", "done", "failed"}]
  /\ created \in [Tasks -> Nat]
  /\ outcome \in Errors \cup {"none", "done"}

(* The sleeps of a poll loop of t, added up.                               *)
SleptAfter(t) ==
  LET after[n \in 0..MaxWait[t]] == IF n = 0 THEN 0 ELSE after[n - 1] + DelayOf(n - 1)
  IN  after

(* The requests a poll loop of t makes at most, from its delays.           *)
PollCount(t) == 1 + Cardinality({n \in 1..MaxWait[t] : SleptAfter(t)[n] < MaxWait[t]})

(* How long a job can be running before it settles: the sleeps stay within *)
(* each loop's budget, but every request adds its own latency on top, so   *)
(* the job store's TTL has to cover this sum and not the two budgets.      *)
LatencyBound ==
  LET waits == MaxWait["model"] + MaxWait["segment"]
      requests == PollCount("model") + PollCount("segment") + Cardinality(Tasks) + 1
  IN  waits + requests * RequestTimeout

SettlesInTime == total <= LatencyBound

(* Every generation settles, even one whose task Tripo never finishes.     *)
ChainEnds == <>(at = "end")
=============================================================================
