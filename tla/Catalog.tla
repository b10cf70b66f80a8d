------------------------------- MODULE Catalog -------------------------------
(***************************************************************************)
(* The browse page (browse/BrowsePage.tsx): the index of models with its   *)
(* cache in the browser (useModelIndex.ts), the tag chips, and the         *)
(* semantic search that reorders the cards (browseSearchRanking.ts over    *)
(* collection/baseSearchRanking.ts).  Its integration view is in           *)
(* CollectionPages.                                                        *)
(*                                                                         *)
(* The recall hook behind the search is modelled by what it does to the    *)
(* two lanes; MemoryRecall has its timers.                                 *)
(***************************************************************************)
EXTENDS Integers, Sequences, FiniteSets, SequencesExt

CONSTANTS
  Models,
  GroupOf,     \* model -> its collection, or a key of its own (_orphan)
  TagsOf, CreatedAt,
  PlaceOf,     \* model -> its place in the answers of the index
  Private,     \* models under POLICY_RESTRICTED
  NoTag,
  ChipLists,   \* what a recall may answer: models and distances, some not valid
  MaxTickets,  \* bound: index requests
  MaxRecalls   \* bound: recalls of a lane

CatalogAssumption ==
  /\ IsFiniteSet(Models) /\ Private \in (SUBSET Models) \ {Models}
  /\ CreatedAt \in [Models -> Int] /\ MaxTickets \in Nat \ {0}
  /\ PlaceOf \in [Models -> Int] /\ \A m, n \in Models : PlaceOf[m] = PlaceOf[n] => m = n
  /\ \A chips \in ChipLists :
       chips \in Seq(ToSet(chips)) /\ \A c \in ToSet(chips) : c.distance \in Int

VARIABLES
  onChain,     \* models published
  cache,       \* localStorage under CACHE_KEY, empty when there is none
  allModels,
  from,        \* the ticket that brought them, 0 for the cache
  requests,    \* index requests under way: ticket, answer
  reqCounter, loading, error,
  tagFilter,
  account,     \* session?.address, 0 if signed out
  query,       \* searchQuery: "short" is under three characters
  lanes,       \* personal and global: chips, status, degraded, whether an answer is due
  recalls      \* recalls asked

indexVars == <<onChain, cache, allModels, from, requests, reqCounter, loading, error>>
searchVars == <<account, query, lanes, recalls>>
vars == <<indexVars, searchVars, tagFilter>>

Scopes == {"personal", "global"}
Idle == [chips |-> <<>>, status |-> "idle", degraded |-> FALSE, due |-> FALSE]
NotYet == {"not yet"}  \* of a request: no answer so far
Viewers == {1, 2}

-----------------------------------------------------------------------------
(* What the page derives on every render.                                  *)

(* isCatalogVisible and the tag: at the derivation, so the cache is covered.*)
Shown == {m \in allModels \ Private : tagFilter = NoTag \/ tagFilter \in TagsOf[m]}

(* A sort: each element comes after those that are before it.              *)
Sorted(S, before) ==
  [k \in 1..Cardinality(S) |->
     CHOOSE m \in S : Cardinality({n \in S : <<n, m>> \in before}) = k - 1]

(* Newest first; the sort is stable, so a tie stays as the index had it.   *)
Newer(m, n) ==
  \/ CreatedAt[m] > CreatedAt[n]
  \/ CreatedAt[m] = CreatedAt[n] /\ PlaceOf[m] < PlaceOf[n]
sortedModels == Sorted(Shown, {p \in Shown \X Shown : Newer(p[1], p[2])})
allTags == UNION {TagsOf[m] : m \in Shown}

(* groupByCollection keeps the order in which groups are first met.        *)
Groups == {GroupOf[m] : m \in Shown}
FirstOf ==
  LET models == sortedModels
  IN  [key \in Groups |-> Min({i \in DOMAIN models : GroupOf[models[i]] = key})]
InsertionOrder(keys) ==
  LET first == FirstOf IN Sorted(keys, {p \in keys \X keys : first[p[1]] < first[p[2]]})
GroupKeys == InsertionOrder(Groups)

(* rankForkableMatches: the closest valid distance of every model that is  *)
(* a candidate; the relayer's distances may be NaN or negative.            *)
Valid_faulty(d) == TRUE
Valid(d) == d >= 0

Chips == UNION {ToSet(lanes[s].chips) : s \in Scopes}
Distances(m) == {c.distance : c \in {d \in Chips : d.model = m /\ Valid(d.distance)}}
Best(candidates) == [m \in {n \in candidates : Distances(n) # {}} |-> Min(Distances(m))]

(* rankCollectionMatches: a group is as close as its closest variant.      *)
cardMatches ==
  LET best == Best(Shown)
  IN  [key \in {GroupOf[m] : m \in DOMAIN best} |->
         Min({best[m] : m \in {n \in DOMAIN best : GroupOf[n] = key}})]

(* Closest first, ties in the grid's own order; then the rest. *)
orderedKeys ==
  LET near == cardMatches
      first == FirstOf
      matched == DOMAIN near
      before == {p \in matched \X matched :
                   \/ near[p[1]] < near[p[2]]
                   \/ near[p[1]] = near[p[2]] /\ first[p[1]] < first[p[2]]}
  IN  Sorted(matched, before) \o InsertionOrder(Groups \ matched)

searchActive == query = "long"
searchLoading == \E s \in Scopes : lanes[s].status = "loading"
searchDegraded == searchActive /\ ~searchLoading /\ \E s \in Scopes : lanes[s].degraded
searchShowingAll ==
  searchActive /\ ~searchLoading /\ ~searchDegraded /\ DOMAIN cardMatches = {} /\ GroupKeys # <<>>

gridKeys == IF searchActive THEN orderedKeys ELSE GroupKeys

-----------------------------------------------------------------------------
(* The first render reads the cache, the mount effect asks the index; the  *)
(* cache holds what an earlier visit saw.                                  *)
Init ==
  /\ onChain \in {{}, Private \cup {CHOOSE m \in Models \ Private : TRUE}}
  /\ cache \in {{}, onChain} /\ allModels = cache /\ from = 0
  /\ reqCounter = 1 /\ requests = {[ticket |-> 1, answer |-> NotYet]}
  /\ loading = TRUE /\ error = FALSE
  /\ tagFilter = NoTag
  /\ account = 0 /\ query = "short" /\ lanes = [s \in Scopes |-> Idle] /\ recalls = 0

Publish(m) ==
  /\ m \notin onChain /\ onChain' = onChain \cup {m}
  /\ UNCHANGED <<cache, allModels, from, requests, reqCounter, loading, error, searchVars,
                 tagFilter>>

(* fetchIndex, on REFRESH (enabled while loading) or Retry. *)
refetch ==
  /\ reqCounter < MaxTickets
  /\ reqCounter' = reqCounter + 1 /\ loading' = TRUE /\ error' = FALSE
  /\ requests' = requests \cup {[ticket |-> reqCounter', answer |-> NotYet]}
  /\ UNCHANGED <<onChain, cache, allModels, from, searchVars, tagFilter>>

IndexReads(r) ==
  /\ r \in requests /\ r.answer = NotYet
  /\ requests' = (requests \ {r}) \cup {[r EXCEPT !.answer = onChain]}
  /\ UNCHANGED <<onChain, cache, allModels, from, reqCounter, loading, error, searchVars,
                 tagFilter>>

(* The ticket of an answer is looked at on both paths. *)
Latest_faulty(r) == TRUE
Latest(r) == r.ticket = reqCounter

IndexAnswers(r) ==
  /\ r \in requests /\ r.answer # NotYet /\ requests' = requests \ {r}
  /\ IF Latest(r)
     THEN /\ allModels' = r.answer /\ cache' = r.answer /\ from' = r.ticket
          /\ loading' = FALSE
     ELSE UNCHANGED <<allModels, cache, from, loading>>
  /\ UNCHANGED <<onChain, reqCounter, error, searchVars, tagFilter>>

IndexFails(r) ==
  /\ r \in requests /\ requests' = requests \ {r}
  /\ IF Latest(r) THEN error' = TRUE /\ loading' = FALSE ELSE UNCHANGED <<error, loading>>
  /\ UNCHANGED <<onChain, cache, allModels, from, reqCounter, searchVars,
                 tagFilter>>

(* The chips offer the tags of the models on show. *)
setTagFilter(t) ==
  /\ t \in allTags \cup {NoTag} /\ t # tagFilter
  /\ tagFilter' = t
  /\ UNCHANGED <<indexVars, searchVars>>

-----------------------------------------------------------------------------
(* What recall(q) does to a lane: a short query clears it, though a recall *)
(* that was already sent may still answer.                                 *)
Recalled(lane, q, signedIn) ==
  IF ~signedIn \/ q = "short" THEN [Idle EXCEPT !.due = lane.due]
  ELSE [lane EXCEPT !.status = "loading", !.degraded = FALSE, !.due = TRUE]

(* Each keystroke, or Escape.  The field is there for a session only. *)
setSearchQuery(q) ==
  /\ account # 0
  /\ recalls < MaxRecalls /\ recalls' = recalls + 1
  /\ query' = q /\ lanes' = [s \in Scopes |-> Recalled(lanes[s], q, TRUE)]
  /\ UNCHANGED <<indexVars, account, tagFilter>>

(* The lanes are cleared, answers for the old token are dropped, and the   *)
(* query that stands is asked again.                                       *)
SessionChanges(a) ==
  /\ a # account /\ account' = a
  /\ recalls < MaxRecalls /\ recalls' = recalls + 1
  /\ lanes' = [s \in Scopes |-> Recalled(Idle, query, a # 0)]
  /\ UNCHANGED <<indexVars, query, tagFilter>>

LaneAnswers(s, chips, degraded) ==
  /\ lanes[s].due
  /\ lanes' = [lanes EXCEPT ![s] =
                 [chips |-> chips, status |-> IF chips = <<>> THEN "empty" ELSE "ready",
                  degraded |-> degraded, due |-> FALSE]]
  /\ UNCHANGED <<indexVars, account, query, recalls, tagFilter>>

LaneFails(s) ==
  /\ lanes[s].due
  /\ lanes' = [lanes EXCEPT ![s].status = IF lanes[s].chips = <<>> THEN "empty" ELSE "ready",
                            ![s].due = FALSE]
  /\ UNCHANGED <<indexVars, account, query, recalls, tagFilter>>

Next ==
  \/ \E m \in Models : Publish(m)
  \/ refetch
  \/ \E r \in requests : IndexReads(r) \/ IndexAnswers(r) \/ IndexFails(r)
  \/ \E t \in allTags \cup {NoTag} : setTagFilter(t)
  \/ \E q \in {"short", "long"} : setSearchQuery(q)
  \/ \E a \in Viewers \cup {0} : SessionChanges(a)
  \/ \E s \in Scopes : LaneFails(s) \/ \E chips \in ChipLists, d \in BOOLEAN : LaneAnswers(s, chips, d)

Spec == Init /\ [][Next]_vars

-----------------------------------------------------------------------------
TypeOK ==
  /\ {onChain, cache, allModels} \subseteq SUBSET Models /\ from \in 0..reqCounter
  /\ \A r \in requests : r.ticket \in 1..MaxTickets /\ r.answer \in {NotYet} \cup SUBSET Models
  /\ {loading, error} \subseteq BOOLEAN /\ tagFilter \in {NoTag} \cup UNION {TagsOf[m] : m \in Models}
  /\ account \in Viewers \cup {0} /\ query \in {"short", "long"}
  /\ \A s \in Scopes : lanes[s].chips \in ChipLists \cup {<<>>}
                       /\ lanes[s].status \in {"idle", "loading", "ready", "empty"}

(* Whatever requests overtake each other: "syncing" shows while and only   *)
(* while the last one is under way, what is on show without an error is its*)
(* answer, an older answer never comes back, and the cache holds what is   *)
(* on show.                                                                *)
NewestIndexWins ==
  /\ loading <=> \E r \in requests : r.ticket = reqCounter
  /\ ~loading => (error <=> from # reqCounter)
  /\ allModels = cache

(* What the recalls said of the models of a group; which of two is closer, *)
(* and which holds the newest model.                                       *)
Heard(key) ==
  {c.distance : c \in {d \in Chips : d.distance >= 0 /\ d.model \in Shown /\ GroupOf[d.model] = key}}
Closer(a, b) == searchActive /\ \E d \in Heard(a) : \A e \in Heard(b) : d < e
Fresher(a, b) ==
  \E m \in Shown : GroupOf[m] = a /\ \A n \in Shown : GroupOf[n] = b => CreatedAt[m] > CreatedAt[n]

(* Search reorders and never hides (R9): every group of a public model of  *)
(* the tag has one card, private models have none, closer groups come      *)
(* first and groups as close as each other newest first; without a query   *)
(* all of them newest first.  "Showing all" is only said of no match.      *)
GridIsHonest ==
  /\ ToSet(gridKeys) = {GroupOf[m] : m \in {n \in allModels : n \notin Private
                                                /\ (tagFilter = NoTag \/ tagFilter \in TagsOf[n])}}
  /\ \A i, j \in DOMAIN gridKeys : i < j =>
       /\ gridKeys[i] # gridKeys[j]
       /\ ~Closer(gridKeys[j], gridKeys[i])
       /\ Closer(gridKeys[i], gridKeys[j]) \/ ~Fresher(gridKeys[j], gridKeys[i])
  /\ searchShowingAll => \A s \in Scopes : ~lanes[s].degraded /\ lanes[s].status # "loading"
=============================================================================
