------------------------- MODULE IntegrationIndexer -------------------------
(***************************************************************************)
(* The "Used by" indexer (backend/src/events/integrationIndexer.ts): one   *)
(* poll loop that reads the IntegrationRegistered events of the package    *)
(* from a cursor, resolves each event's app_metadata with a second read,   *)
(* validates it and serves what passes, per collection and as counts for   *)
(* the leaderboard.  Cursor, store and table cache are in memory only.     *)
(*                                                                         *)
(* The chain is the sequence of registrations; the contract admits one per *)
(* (collection, integrator).  A fullnode answers a read in one of three    *)
(* ways: with the data, with nothing (it has not caught up with the object *)
(* yet), or by throwing.                                                   *)
(***************************************************************************)
EXTENDS Naturals, Sequences, SequencesExt

CONSTANTS
  Collections,    \* collections of the package
  Integrators,    \* addresses that register an integration
  BadMetadata,    \* the (collection, integrator) pairs whose blob fails parseAppMetadata
  PageLimit,      \* events per queryEvents page
  MaxThrows,      \* bound: reads that throw
  MaxBlanks,      \* bound: records the node cannot resolve yet
  MaxBoots        \* bound: starts of the process

IndexerAssumption ==
  /\ BadMetadata \subseteq Collections \X Integrators
  /\ {PageLimit, MaxBoots} \subseteq Nat \ {0}
  /\ {MaxThrows, MaxBlanks} \subseteq Nat

VARIABLES
  log,       \* the chain's IntegrationRegistered events, in order
  store,     \* collection -> its served integrators, in Map insertion order
  cursor,    \* events the cursor has passed
  page,      \* events of the fetched page still to ingest
  next,      \* the cursor the page came with
  more,      \* hasNextPage of that page
  polling,   \* the reentrancy flag of pollOnce
  skipped,   \* records this start found no bytes for at least once
  throws, blanks, boots

vars == <<log, store, cursor, page, next, more, polling, skipped, throws, blanks, boots>>

Pairs == Collections \X Integrators

Fresh == [c \in Collections |-> <<>>]

Init ==
  /\ log = <<>> /\ store = Fresh /\ cursor = 0
  /\ page = <<>> /\ next = 0 /\ more = FALSE /\ polling = FALSE
  /\ skipped = {} /\ throws = 0 /\ blanks = 0 /\ boots = 1

-----------------------------------------------------------------------------
(* register_integration on chain: a second one for the pair aborts.        *)
Register(p) ==
  /\ p \notin ToSet(log)
  /\ log' = Append(log, p)
  /\ UNCHANGED <<store, cursor, page, next, more, polling, skipped, throws, blanks, boots>>

(* inner.set(integrator, ...): a key already in a Map keeps its place.     *)
Served(s, i) == IF i \in ToSet(s) THEN s ELSE Append(s, i)

(* The cursor the next query starts from, once a page has been fetched and *)
(* once its last event has been ingested: it moves only then.              *)
CursorAtFetch_faulty(n) == n
CursorAtFetch(n) == cursor

(* parseAppMetadata: exactly a name and an https url, nothing invisible.   *)
ValidMetadata(p) == p \notin BadMetadata

-----------------------------------------------------------------------------
(* start(), and then the interval: a poll begins unless one is running.    *)
Tick ==
  /\ ~polling
  /\ polling' = TRUE
  /\ UNCHANGED <<log, store, cursor, page, next, more, skipped, throws, blanks, boots>>

(* queryEvents answers: up to PageLimit events after the cursor, of the    *)
(* prefix of the log that this node has indexed; an empty page ends it.    *)
Fetch(seen) ==
  /\ polling /\ page = <<>>
  /\ LET last == IF cursor + PageLimit < seen THEN cursor + PageLimit ELSE seen
     IN    /\ page' = SubSeq(log, cursor + 1, last)
           /\ next' = last
           /\ more' = (last < seen)
           /\ polling' = (last > cursor)
           /\ cursor' = CursorAtFetch(last)
  /\ UNCHANGED <<log, store, skipped, throws, blanks, boots>>

(* The loop's next event is done with; after the last one the cursor moves *)
(* and the loop fetches again or ends.                                     *)
NextEvent ==
  /\ page' = Tail(page)
  /\ cursor' = IF Len(page) = 1 THEN next ELSE cursor
  /\ polling' = (Len(page) > 1 \/ more)
  /\ UNCHANGED <<log, next, more, boots>>

(* ingest: the record is resolved; a valid one is served, another dropped. *)
Ingest ==
  /\ polling /\ page # <<>>
  /\ LET p == Head(page)
     IN  IF ValidMetadata(p)
         THEN store' = [store EXCEPT ![p[1]] = Served(@, p[2])]
         ELSE UNCHANGED store
  /\ NextEvent
  /\ UNCHANGED <<skipped, throws, blanks>>

(* ingest: the collection or the table entry is not there yet, no bytes:   *)
(* a warning, and the loop goes on to the next event.                      *)
IngestBlank ==
  /\ polling /\ page # <<>> /\ blanks < MaxBlanks
  /\ skipped' = skipped \cup {Head(page)}
  /\ blanks' = blanks + 1
  /\ NextEvent
  /\ UNCHANGED <<store, throws>>

(* A read throws: the poll is over, the cursor stays before the page.      *)
PollThrows ==
  /\ polling /\ throws < MaxThrows
  /\ polling' = FALSE /\ page' = <<>>
  /\ throws' = throws + 1
  /\ UNCHANGED <<log, store, cursor, next, more, skipped, blanks, boots>>

(* The process starts again: everything it knew is gone.                   *)
Restart ==
  /\ boots < MaxBoots
  /\ store' = Fresh /\ cursor' = 0 /\ page' = <<>> /\ next' = 0 /\ more' = FALSE
  /\ polling' = FALSE /\ skipped' = {} /\ boots' = boots + 1
  /\ UNCHANGED <<log, throws, blanks>>

Next ==
  \/ \E p \in Pairs : Register(p)
  \/ Tick \/ (\E seen \in cursor..Len(log) : Fetch(seen)) \/ Ingest \/ IngestBlank \/ PollThrows \/ Restart

(* The interval keeps ticking, a node that has not indexed an event yet    *)
(* does so in the end (hence SF), and the loop body runs on; nobody has to *)
(* register, and nothing has to fail.                                      *)
Fairness == WF_vars(Tick) /\ SF_vars(Fetch(Len(log))) /\ WF_vars(Ingest)

Spec == Init /\ [][Next]_vars /\ Fairness

-----------------------------------------------------------------------------
(* getIntegrations and the leaderboard's count of one collection.          *)
Integrations(c) == store[c]
Count(c) == Len(store[c])

TypeOK ==
  /\ log \in Seq(Pairs) /\ store \in [Collections -> Seq(Integrators)]
  /\ cursor \in 0..Len(log) /\ next \in 0..Len(log)
  /\ page \in Seq(Pairs) /\ more \in BOOLEAN /\ polling \in BOOLEAN
  /\ skipped \subseteq Pairs
  /\ throws \in 0..MaxThrows /\ blanks \in 0..MaxBlanks /\ boots \in 1..MaxBoots

(* The cursor never outruns the store: every valid registration it has     *)
(* passed is served, unless the node had no record of it when it was read. *)
(* A poll that dies half way through a page must read that page again.     *)
CursorCovers ==
  \A k \in 1..cursor :
    LET p == log[k]
    IN  p \in BadMetadata \/ p \in skipped \/ p[2] \in ToSet(store[p[1]])

(* The public list of a collection, and the count the leaderboard ranks it *)
(* by: each integrator once, none that the chain does not hold or whose    *)
(* metadata is invalid, in the order of registration ("newest              *)
(* registrations last"), whatever was read twice.  Only a record that once *)
(* had no bytes may stand late: a second reading of its page appends it.   *)
ListIsFaithful ==
  \A c \in Collections :
    /\ \A m, n \in 1..Count(c) : store[c][m] = store[c][n] => m = n
    /\ \A i \in ToSet(Integrations(c)) : <<c, i>> \in ToSet(log) \ BadMetadata
    /\ \A k, l \in 1..Len(log) :
         /\ k < l /\ log[k][1] = c /\ log[l][1] = c
         /\ {log[k][2], log[l][2]} \subseteq ToSet(Integrations(c))
         /\ log[k] \notin skipped
         => \E m, n \in 1..Count(c) :
              m < n /\ store[c][m] = log[k][2] /\ store[c][n] = log[l][2]

(* What the read routes serve is what the chain holds: nothing valid that  *)
(* was read is missing, and nothing stands there twice, unregistered or    *)
(* out of order.                                                           *)
ServesTheChain == CursorCovers /\ ListIsFaithful

(* Every valid registration is served in the end, whatever throws and      *)
(* however often the process restarts, unless the node had no answer for   *)
(* it; then only the next start reads it again.                            *)
RegistrationServed ==
  \A p \in Pairs \ BadMetadata :
    p \in ToSet(log) ~> (p[2] \in ToSet(store[p[1]]) \/ p \in skipped)
=============================================================================
