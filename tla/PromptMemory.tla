----------------------------- MODULE PromptMemory -----------------------------
(***************************************************************************)
(* The memory of published prompts: the create page sends the prompt of a  *)
(* publish to the backend (useCreatorMemory), which stores it for its      *)
(* author and, after a look at the chain, in the pool of the community     *)
(* (routes/memory), as one text with a trailer (shared memory.ts) behind a *)
(* façade that never fails (memwal-client).  Both the recall route and the *)
(* agents' search_models tool read it back.                                *)
(*                                                                         *)
(* A prompt is a sequence of symbols, of which RS and ESC mean something   *)
(* to the codec.  The relayer ranks by likeness, so it answers with any    *)
(* records in any order.  A request may be refused for its rate.           *)
(***************************************************************************)
EXTENDS Integers, Sequences, FiniteSets, SequencesExt

CONSTANTS
  Users,     \* wallets
  Clients,   \* the wallets that use the route without the page
  Nobody,    \* no session, or no author
  Models,    \* object ids
  Prompts,   \* what creators and clients write
  Caption,   \* what the captioner wrote of an uploaded mesh
  Foreign,   \* records in the pool that this route did not write
  Denylist,  \* suppressed authors
  OverFetch, \* GLOBAL_OVERFETCH
  Limits,    \* numbers of results asked for
  MaxSaid    \* bound: requests to remember

PoolAssumption ==
  /\ Clients \subseteq Users /\ Nobody \notin Users /\ "global" \notin Users
  /\ Caption \notin Prompts /\ \A p \in Prompts \cup {Caption} : p \in Seq(ToSet(p))
  /\ IsFiniteSet(Foreign) /\ \A t \in Foreign : t.ref.c \in Users \cup {Nobody}
  /\ OverFetch \in Nat \ {0} /\ Limits \subseteq Nat /\ MaxSaid \in Nat

VARIABLES
  chain,     \* creator and policy of each model
  session,   \* of the create page
  publish,   \* the publish whose prompt the page will send
  requests,  \* at the backend
  writes,    \* accepted by the relayer, or on their way to it
  records,   \* of each namespace
  said       \* every <<sender, prompt, model>> a request held

vars == <<chain, session, publish, requests, writes, records, said>>

RS == "RS"
ESC == "ESC"
Trailer == "trailer"
Global == "global"
NoModel == "none"
Unpublished == [creator |-> Nobody, policy |-> "none"]
NotPublishing == [model |-> NoModel, prompt |-> <<>>, policy |-> "none"]
NoRef == [m |-> NoModel, c |-> Nobody]
Policies == {"restricted", "shared"}  \* ALLOW_LIST and PERMISSIONLESS are alike here

-----------------------------------------------------------------------------
(* The codec.                                                              *)

(* Faulty: the two replacements the other way round.                       *)
escape_faulty(s) ==
  FlattenSeq([k \in DOMAIN s |->
    CASE s[k] = ESC -> <<ESC, "0">> [] s[k] = RS -> <<ESC, "0", "1">> [] OTHER -> <<s[k]>>])
escape(s) ==
  FlattenSeq([k \in DOMAIN s |->
    CASE s[k] = ESC -> <<ESC, "0">> [] s[k] = RS -> <<ESC, "1">> [] OTHER -> <<s[k]>>])

Escapes(s, k) == k \in 1..Len(s) - 1 /\ s[k] = ESC /\ s[k + 1] \in {"0", "1"}
unescape(s) ==
  FlattenSeq([k \in DOMAIN s |->
    CASE Escapes(s, k) -> <<IF s[k + 1] = "0" THEN ESC ELSE RS>>
      [] Escapes(s, k - 1) -> <<>>
      [] OTHER -> <<s[k]>>])

encodeMemory(prompt, ref) == [text |-> escape(prompt) \o <<RS, Trailer>>, ref |-> ref]

(* The first RS ends the prompt; what follows is a reference or is not.    *)
parseMemory(t) ==
  LET marks == {k \in DOMAIN t.text : t.text[k] = RS} IN
  IF marks = {} THEN [prompt |-> unescape(t.text), ref |-> NoRef]
  ELSE LET idx == CHOOSE k \in marks : \A j \in marks : k <= j IN
       [prompt |-> unescape(SubSeq(t.text, 1, idx - 1)),
        ref |-> IF SubSeq(t.text, idx + 1, Len(t.text)) = <<Trailer>> THEN t.ref ELSE NoRef]

-----------------------------------------------------------------------------
Init ==
  /\ chain = [m \in Models |-> Unpublished]
  /\ session = Nobody /\ publish = NotPublishing
  /\ requests = {} /\ writes = {} /\ said = {}
  /\ records = [ns \in Users \cup {Global} |-> IF ns = Global THEN Foreign ELSE {}]

SwitchAccount ==
  /\ session' \in (Users \cup {Nobody}) \ {session}
  /\ UNCHANGED <<chain, publish, requests, writes, records, said>>

(* A publish of the page, generated or uploaded: the policy goes with a    *)
(* prompt and not with a caption.                                          *)
PublishHere(m, policy) ==
  /\ session # Nobody /\ publish = NotPublishing /\ chain[m] = Unpublished
  /\ chain' = [chain EXCEPT ![m] = [creator |-> session, policy |-> policy]]
  /\ publish' \in [model : {m}, prompt : Prompts, policy : {policy}]
                  \cup {[model |-> m, prompt |-> Caption, policy |-> "none"]}
  /\ UNCHANGED <<session, requests, writes, records, said>>

PublishElsewhere(u, m, policy) ==
  /\ chain[m] = Unpublished
  /\ chain' = [chain EXCEPT ![m] = [creator |-> u, policy |-> policy]]
  /\ UNCHANGED <<session, publish, requests, writes, records, said>>

Send(sub, prompt, m, policy) ==
  /\ Cardinality(said) < MaxSaid
  /\ requests' = requests \cup {[sub |-> sub, prompt |-> prompt, model |-> m, policy |-> policy,
                                 step |-> "received"]}
  /\ said' = said \cup {<<sub, prompt, m>>}

(* The transaction was read back, or was not; the token is the one the     *)
(* page has now.                                                           *)
rememberCreation ==
  /\ publish # NotPublishing /\ publish' = NotPublishing
  /\ \/ session # Nobody /\ Send(session, publish.prompt, publish.model, publish.policy)
     \/ UNCHANGED <<requests, said>>
  /\ UNCHANGED <<chain, session, writes, records>>

(* Another client of the route names any model and any policy.             *)
OtherClient(u, prompt, m, policy) ==
  /\ u \in Clients
  /\ Send(u, prompt, m, policy)
  /\ UNCHANGED <<chain, session, publish, writes, records>>

-----------------------------------------------------------------------------
(* The route.                                                              *)

Drop(r) ==
  /\ requests' = requests \ {r}
  /\ UNCHANGED <<chain, session, publish, writes, records, said>>

(* A request without a valid token, over the rate or malformed.            *)
Refuse(r) == r.step = "received" /\ Drop(r)

remember(r) ==
  /\ r.step = "received"
  /\ writes' = writes \cup {[ns |-> r.sub,
                             record |-> encodeMemory(r.prompt, [m |-> r.model, c |-> Nobody])]}
  /\ requests' = (requests \ {r})
       \cup (IF r.policy \in {"none", "restricted"} THEN {} ELSE {[r EXCEPT !.step = "verify"]})
  /\ UNCHANGED <<chain, session, publish, records, said>>

verifyGlobalMirror(r) ==
  /\ chain[r.model] # Unpublished /\ chain[r.model].creator = r.sub
  /\ chain[r.model].policy # "restricted"

(* A read that fails, or that does not know the model yet, denies.         *)
Mirror(r) ==
  /\ r.step = "verify"
  /\ \/ Drop(r)
     \/ /\ verifyGlobalMirror(r)
        /\ writes' = writes \cup {[ns |-> Global,
                                   record |-> encodeMemory(r.prompt, [m |-> r.model, c |-> r.sub])]}
        /\ requests' = requests \ {r}
        /\ UNCHANGED <<chain, session, publish, records, said>>

(* The relayer stores a record some time, or loses it without a word.      *)
Land(w) ==
  /\ writes' = writes \ {w}
  /\ \/ records' = [records EXCEPT ![w.ns] = @ \cup {w.record}]
     \/ UNCHANGED records
  /\ UNCHANGED <<chain, session, publish, requests, said>>

-----------------------------------------------------------------------------
(* Reading back changes nothing: each reader is the set of its answers.    *)

Relayed(ns, limit) ==
  LET most == IF Cardinality(records[ns]) < limit THEN Cardinality(records[ns]) ELSE limit IN
  UNION {{s \in [1..k -> records[ns]] : \A i, j \in 1..k : s[i] = s[j] => i = j} : k \in 0..most}

(* The n-th of the places S.                                               *)
Nth(S, n) == CHOOSE k \in S : Cardinality({j \in S : j <= k}) = n
Chip(r) == [prompt |-> r.prompt, model |-> r.ref.m, creator |-> r.ref.c]

(* The first n of the relayer's answers that pass: by no hidden author,    *)
(* and of an object id when it is to be one.  A relayer that fails or      *)
(* takes over two seconds is an empty answer.                              *)
Passing(s, hidden, ids) ==
  {k \in DOMAIN s : LET ref == parseMemory(s[k]).ref IN ref.c \notin hidden /\ (ids => ref.m \in Models)}
Recalled(ns, limit, n, hidden, ids) ==
  {LET pass == Passing(s, hidden, ids)
       most == IF Cardinality(pass) < n THEN Cardinality(pass) ELSE n
   IN [i \in 1..most |-> Chip(parseMemory(s[Nth(pass, i)]))] : s \in Relayed(ns, limit) \cup {<<>>}}

recall(u, scope, n) ==
  IF scope = "personal" THEN Recalled(u, n, n, {}, FALSE)
  ELSE Recalled(Global, n * OverFetch, n, {Nobody, u} \cup Denylist, FALSE)

(* An agent searches its own prompts with its token, the pool without one. *)
search_models(u, scope, n) ==
  IF scope = "personal" THEN Recalled(u, n, n, {}, TRUE)
  ELSE Recalled(Global, n * OverFetch, n, {Nobody} \cup Denylist, TRUE)

Next ==
  \/ SwitchAccount \/ rememberCreation
  \/ \E m \in Models, policy \in Policies :
       PublishHere(m, policy) \/ (\E u \in Users : PublishElsewhere(u, m, policy))
  \/ \E u \in Users, prompt \in Prompts, m \in Models, policy \in Policies :
       OtherClient(u, prompt, m, policy)
  \/ \E r \in requests : Refuse(r) \/ remember(r) \/ Mirror(r)
  \/ \E w \in writes : Land(w)

Spec == Init /\ [][Next]_vars

-----------------------------------------------------------------------------
TypeOK ==
  /\ \A m \in Models : chain[m] = Unpublished
       \/ chain[m] \in [creator : Users, policy : Policies]
  /\ session \in Users \cup {Nobody} /\ Cardinality(said) <= MaxSaid
  /\ \A r \in requests : r.sub \in Users /\ r.step \in {"received", "verify"}
  /\ \A w \in writes : w.ns \in Users \cup {Global}

(* What the route put into the pool names a model that is on the chain,    *)
(* published by the author it names under a policy other than RESTRICTED,  *)
(* whatever the request claimed; it holds what that author sent, to the    *)
(* symbol, and never a caption.                                            *)
PoolIsPublished ==
  \A t \in records[Global] \ Foreign :
    LET r == parseMemory(t) IN
    /\ r.ref.m \in Models /\ chain[r.ref.m].creator = r.ref.c
    /\ chain[r.ref.m].policy # "restricted"
    /\ <<r.ref.c, r.prompt, r.ref.m>> \in said /\ r.prompt # Caption

(* A personal recall shows what its user sent, to the symbol; one of the   *)
(* community nothing of its own user's and of nobody who is suppressed or  *)
(* unknown, and what of it the route wrote is of the pool; an agent gets   *)
(* object ids only; never more than asked for.                             *)
Mine(u, chip) == <<u, chip.prompt, chip.model>> \in said
Known(chip) == chip.creator \in Users \ Denylist
ChipsAreHonest ==
  \A u \in Users, n \in Limits :
    /\ \A a \in recall(u, "personal", n) : Len(a) <= n /\ \A k \in DOMAIN a : Mine(u, a[k])
    /\ \A a \in recall(u, "global", n) :
         Len(a) <= n /\ \A k \in DOMAIN a : Known(a[k]) /\ a[k].creator # u
    /\ \A a \in search_models(u, "personal", n) :
         Len(a) <= n /\ \A k \in DOMAIN a : Mine(u, a[k])
    /\ \A a \in search_models(u, "global", n) :
         Len(a) <= n /\ \A k \in DOMAIN a : Known(a[k]) /\ a[k].model \in Models
=============================================================================
