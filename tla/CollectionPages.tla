--------------------------- MODULE CollectionPages ---------------------------
(***************************************************************************)
(* Reading collections: the page of one collection                         *)
(* (collection/CollectionDetailPage.tsx over useCollectionById), its       *)
(* "Used by" list (UsedBySection.tsx), and the list of open collections in *)
(* the browse page's integration view (integration/useCollections.ts).     *)
(*                                                                         *)
(* Each is an effect keyed on something the user can change while a read   *)
(* is under way: a slug, a collection, whether the view is shown.  A run   *)
(* sets its loading flag, and the cleanup marks it cancelled.              *)
(***************************************************************************)
EXTENDS Naturals, FiniteSets

CONSTANTS
  Collections, Closed,  \* all of them; those under a policy that is not permissionless
  None,
  MaxReads              \* bound: reads under way

ReadsAssumption == None \notin Collections

VARIABLES
  launched,  \* collections on the chain
  slug,      \* the route's id
  collection, loading, error,  \* useCollectionById
  reads,     \* its runs under way: the id and whether cancelled
  used,      \* UsedBySection: whose integrations it holds, None before the first answer
  usedLoading, usedError, usedReads,
  enabled,   \* the integration view is shown
  list,      \* its collections, empty before the first answer
  listLoading, listError, listReads

pageVars == <<slug, collection, loading, error, reads>>
usedVars == <<used, usedLoading, usedError, usedReads>>
listVars == <<enabled, list, listLoading, listError, listReads>>
vars == <<launched, pageVars, usedVars, listVars>>

Run(of) == [of |-> of, cancelled |-> FALSE]
Cancel(runs) == {[r EXCEPT !.cancelled = TRUE] : r \in runs}

Init ==
  /\ launched \in SUBSET Collections
  /\ slug \in Collections /\ collection = None /\ loading = TRUE /\ error = FALSE
  /\ reads = {Run(slug)}
  /\ used = None /\ usedLoading = FALSE /\ usedError = FALSE /\ usedReads = {}
  /\ enabled = FALSE /\ list = {} /\ listLoading = FALSE /\ listError = FALSE /\ listReads = {}

Launch(c) ==
  /\ c \notin launched /\ launched' = launched \cup {c}
  /\ UNCHANGED <<pageVars, usedVars, listVars>>

-----------------------------------------------------------------------------
(* What a run may still set.                                               *)
Stale(r) == r.cancelled

(* The page has its body, and with it the section, on no other render than *)
(* this; the section starts over with it.                                  *)
BodyShown == ~loading /\ ~error /\ collection # None

(* Another id: the cleanup, then the effect.  The section is unmounted,    *)
(* the last collection stays in the state.                                 *)
Navigate(c) ==
  /\ c # slug /\ slug' = c
  /\ Cardinality(reads) < MaxReads
  /\ reads' = Cancel(reads) \cup {Run(c)}
  /\ loading' = TRUE /\ error' = FALSE
  /\ usedReads' = Cancel(usedReads)
  /\ UNCHANGED <<launched, collection, used, usedLoading, usedError, listVars>>

(* A section that comes up reads the integrations of an open collection.   *)
MountUsedBy(c) ==
  /\ used' = None /\ usedError' = FALSE
  /\ usedLoading' = (c \notin Closed)
  /\ usedReads' = Cancel(usedReads) \cup (IF c \in Closed THEN {} ELSE {Run(c)})

CollectionRead(r) ==
  /\ r \in reads /\ reads' = reads \ {r}
  /\ IF Stale(r) \/ r.of \notin launched THEN UNCHANGED <<collection, usedVars>>
     ELSE collection' = r.of /\ MountUsedBy(r.of)
  /\ error' = (error \/ (~Stale(r) /\ r.of \notin launched))
  /\ loading' = (loading /\ Stale(r))
  /\ UNCHANGED <<launched, slug, listVars>>

CollectionFails(r) ==
  /\ r \in reads /\ reads' = reads \ {r}
  /\ error' = (error \/ ~Stale(r)) /\ loading' = (loading /\ Stale(r))
  /\ UNCHANGED <<launched, slug, collection, usedVars, listVars>>

UsedByAnswers(r) ==
  /\ r \in usedReads /\ usedReads' = usedReads \ {r}
  /\ usedLoading' = (usedLoading /\ Stale(r))
  /\ \/ used' = (IF Stale(r) THEN used ELSE r.of) /\ UNCHANGED usedError
     \/ usedError' = (usedError \/ ~Stale(r)) /\ UNCHANGED used
  /\ UNCHANGED <<launched, pageVars, listVars>>

-----------------------------------------------------------------------------
(* useCollections(enabled): hiding the view empties the list; the error of *)
(* the last run stays until the next one.                                  *)
ToggleView ==
  /\ enabled' = ~enabled
  /\ IF enabled' THEN /\ Cardinality(listReads) < MaxReads
                      /\ listReads' = Cancel(listReads) \cup {Run(None)}
                      /\ listLoading' = TRUE /\ listError' = FALSE /\ UNCHANGED list
     ELSE /\ listReads' = Cancel(listReads)
          /\ list' = {} /\ listLoading' = FALSE /\ UNCHANGED listError
  /\ UNCHANGED <<launched, pageVars, usedVars>>

ListAnswers(r) ==
  /\ r \in listReads /\ listReads' = listReads \ {r}
  /\ listLoading' = (listLoading /\ Stale(r))
  /\ \/ list' = (IF Stale(r) THEN list ELSE launched) /\ UNCHANGED listError
     \/ listError' = (listError \/ ~Stale(r)) /\ UNCHANGED list
  /\ UNCHANGED <<launched, pageVars, usedVars, enabled>>

openCollections == list \ Closed

Next ==
  \/ \E c \in Collections : Launch(c) \/ Navigate(c)
  \/ \E r \in reads : CollectionRead(r) \/ CollectionFails(r)
  \/ \E r \in usedReads : UsedByAnswers(r)
  \/ ToggleView \/ \E r \in listReads : ListAnswers(r)

Spec == Init /\ [][Next]_vars

-----------------------------------------------------------------------------
TypeOK ==
  /\ launched \subseteq Collections /\ slug \in Collections
  /\ {collection, used} \subseteq Collections \cup {None} /\ list \subseteq Collections
  /\ {loading, error, usedLoading, usedError, enabled, listLoading, listError} \subseteq BOOLEAN
  /\ \A r \in reads \cup usedReads \cup listReads :
       r.of \in Collections \cup {None} /\ r.cancelled \in BOOLEAN

Live(runs) == \E r \in runs : ~r.cancelled

(* Through navigation and answers that overtake each other: a body belongs *)
(* to the id in the address, its "Used by" list to that collection and to  *)
(* no closed one, a loading line stands for a read that is under way, and  *)
(* the integration view never offers what was asked before it was hidden.  *)
ReadsAreOwn ==
  /\ loading <=> Live(reads)
  /\ BodyShown =>
       /\ collection = slug /\ used \in {None, slug} /\ slug \in launched
       /\ usedLoading <=> Live(usedReads)
       /\ ~usedLoading /\ ~usedError => (used = slug <=> slug \notin Closed)
  /\ listLoading <=> Live(listReads)
  /\ openCollections # {} => enabled /\ openCollections \subseteq launched \ Closed
=============================================================================
