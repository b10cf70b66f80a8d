---------------------------- MODULE AgentDiscovery ----------------------------
(***************************************************************************)
(* What an agent asks before it buys.  get_model reads one object of the   *)
(* fullnode, and so do get_license_terms and get_preview, which are not    *)
(* told apart here.  list_fork_collections reads the collections of a      *)
(* model from a GraphQL index that lags behind the chain, may repeat a     *)
(* node and answers with one page, and ranks them by the counts of the     *)
(* integration indexer, which a restart empties.                           *)
(*                                                                         *)
(* Collections are numbered in the order of their ids.                     *)
(***************************************************************************)
EXTENDS Naturals, Sequences, FiniteSets, SequencesExt

CONSTANTS
  Models,   \* published models
  Strange,  \* ids of other objects, or of none
  Forks,    \* collections, a set of naturals
  BaseOf,   \* the model each forks
  Page,     \* nodes of one answer of the index
  MaxCount  \* bound: integrations of a collection

DiscoveryAssumption == Forks \subseteq Nat /\ Page \in Nat \ {0} /\ MaxCount \in Nat

VARIABLES launched, indexed, counts, call, answer

vars == <<launched, indexed, counts, call, answer>>

(* known: the forks the index had when the call began.                     *)
NoCall == [tool |-> "none", id |-> 0, step |-> "idle", nodes |-> <<>>, known |-> {}]
NoAnswer == [tool |-> "none", id |-> 0, outcome |-> "none", list |-> <<>>, known |-> {},
             counts |-> [f \in Forks |-> 0]]

Init ==
  /\ launched = {} /\ indexed = {} /\ counts = [f \in Forks |-> 0]
  /\ call = NoCall /\ answer = NoAnswer

Launch(f) ==
  /\ launched' = launched \cup {f} /\ f \notin launched
  /\ UNCHANGED <<indexed, counts, call, answer>>
IndexCatchesUp(f) ==
  /\ f \in launched \ indexed /\ indexed' = indexed \cup {f}
  /\ UNCHANGED <<launched, counts, call, answer>>
Integrated(f) ==
  /\ f \in launched /\ counts[f] < MaxCount
  /\ counts' = [counts EXCEPT ![f] = @ + 1]
  /\ UNCHANGED <<launched, indexed, call, answer>>

(* The backend goes down with the call.                                    *)
Restart ==
  /\ counts' = [f \in Forks |-> 0] /\ call' = NoCall
  /\ UNCHANGED <<launched, indexed, answer>>

Reply(outcome, list) ==
  /\ answer' = [tool |-> call.tool, id |-> call.id, outcome |-> outcome, list |-> list,
                known |-> call.known, counts |-> counts]
  /\ call' = NoCall
  /\ UNCHANGED <<launched, indexed, counts>>

Call(tool, id) ==
  /\ call = NoCall
  /\ call' = [tool |-> tool, id |-> id, step |-> IF tool = "get_model" THEN "object" ELSE "query",
              nodes |-> <<>>, known |-> indexed]
  /\ answer' = NoAnswer
  /\ UNCHANGED <<launched, indexed, counts>>

(* Discovery is public, but a token that is sent has to be valid and       *)
(* within its rate.                                                        *)
BadToken == call.step \in {"object", "query"} /\ Reply("unauthorized", <<>>)

(* readModelSummary, within a timeout.                                     *)
ObjectRead ==
  /\ call.step = "object"
  /\ \/ Reply("upstream_error", <<>>)
     \/ call.id \in Models /\ Reply("ok", <<>>)
     \/ call.id \notin Models /\ Reply("not_found", <<>>)

(* Any page of what is indexed, a node perhaps twice.                      *)
Pages ==
  LET size == IF Cardinality(indexed) < Page THEN Cardinality(indexed) ELSE Page IN
  {s \in UNION {[1..k -> indexed] : k \in {size, size + 1}} : Cardinality(ToSet(s)) = size}

QueryAnswers ==
  /\ call.step = "query"
  /\ \E s \in Pages : call' = [call EXCEPT !.step = "name", !.nodes = s]
  /\ UNCHANGED <<launched, indexed, counts, answer>>

(* An error, a timeout and a body of another shape.                        *)
QueryFails == call.step = "query" /\ Reply("degraded", <<>>)

(* Each of the model's forks once.                                         *)
Seen(s, k) == \E j \in 1..k - 1 : s[j] = s[k]
forks ==
  LET mine == {k \in DOMAIN call.nodes : BaseOf[call.nodes[k]] = call.id /\ ~Seen(call.nodes, k)}
  IN {call.nodes[k] : k \in mine}

(* The name of the model is read, or is left empty; what follows happens   *)
(* at once.                                                                *)
Before(a, b) == counts[a] > counts[b] \/ (counts[a] = counts[b] /\ a < b)
Sorted(list) == \A i, j \in DOMAIN list : i < j => Before(list[i], list[j])
NameReads ==
  /\ call.step = "name"
  /\ \E list \in [1..Cardinality(forks) -> forks] :
       ToSet(list) = forks /\ Sorted(list) /\ Reply("ok", list)

Next ==
  \/ \E f \in Forks : Launch(f) \/ IndexCatchesUp(f) \/ Integrated(f)
  \/ Restart
  \/ \E tool \in {"get_model", "list_fork_collections"}, id \in Models \cup Strange :
       Call(tool, id)
  \/ BadToken \/ ObjectRead \/ QueryAnswers \/ QueryFails \/ NameReads

Spec == Init /\ [][Next]_vars

-----------------------------------------------------------------------------
TypeOK ==
  /\ indexed \subseteq launched /\ launched \subseteq Forks
  /\ counts \in [Forks -> 0..MaxCount]
  /\ call.step \in {"idle", "object", "query", "name"} /\ call.id \in Models \cup Strange \cup {0}

(* A list an agent gets holds collections of the model it asked for that   *)
(* are on the chain, each once and the most integrated first; it lacks     *)
(* none the index had when the agent asked, while the index fits a page.   *)
(* A failure is never an answer that names something.                      *)
ForksAreListed ==
  LET list == answer.list IN
  /\ answer.outcome # "ok" => list = <<>>
  /\ answer.tool = "list_fork_collections" /\ answer.outcome = "ok" =>
       /\ \A i, j \in DOMAIN list :
            i < j => /\ list[i] # list[j]
                     /\ answer.counts[list[i]] >= answer.counts[list[j]]
       /\ \A i \in DOMAIN list : list[i] \in launched /\ BaseOf[list[i]] = answer.id
       /\ Cardinality(launched) <= Page =>
            {f \in answer.known : BaseOf[f] = answer.id} \subseteq ToSet(list)
=============================================================================
