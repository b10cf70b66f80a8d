--------------------------- MODULE StorefrontProofs ---------------------------
(***************************************************************************)
(* What the pages that list collections, the uploads and the bake keep,    *)
(* for every set of collections, files and bases.  Each theorem rests on   *)
(* an invariant of its own part, which the steps of the others leave.      *)
(*                                                                         *)
(*   BrowseInv     what is shown was asked for by the request awaited last *)
(*   ReadsInv      a read that may still answer is one of what is shown    *)
(*   IntegrateInv  a task carries the form and the fee of its click        *)
(*   UploadInv     quilts before the one under way are stored, and the     *)
(*                 trail of a lone upload ends at its step                 *)
(*   BakeInv       what was sent is what names and palettes made of it     *)
(*   GridInv       what is shown are models, what was heard are distances  *)
(*   BoardInv      the scan has the names of the pages read                *)
(*   OrderInv      the files read back are 1, 2, 3 ... of those uploaded   *)
(*   PartsInv      all of these; with PartsBounds it gives the types       *)
(*                                                                         *)
(* The lists are sorts: Ranks places the elements of a finite set by how   *)
(* many come before each.                                                  *)
(***************************************************************************)
EXTENDS Storefront, Integers, TLAPS, SequenceTheorems, FiniteSetTheorems, WellFoundedInduction,
        NaturalsInduction

LEMMA StorefrontSteps ==
  [CatalogNext]_catalogVars =>
    /\ [Browse!Next]_(Browse!vars) /\ [Reads!Next]_(Reads!vars)
    /\ [Integration!Next]_(Integration!vars) /\ [Upload!Next]_(Upload!vars)
    /\ [Bake!Next]_(Bake!vars)
<1> SUFFICES ASSUME [CatalogNext]_catalogVars
             PROVE  /\ [Browse!Next]_(Browse!vars) /\ [Reads!Next]_(Reads!vars)
                    /\ [Integration!Next]_(Integration!vars) /\ [Upload!Next]_(Upload!vars)
                    /\ [Bake!Next]_(Bake!vars)
  OBVIOUS
<1>1. [Browse!Next]_(Browse!vars)
  BY DEF CatalogNext, catalogVars, browseVars, Browse!vars, Browse!indexVars, Browse!searchVars
<1>2. [Reads!Next]_(Reads!vars)
  BY DEF CatalogNext, catalogVars, readVars, Reads!vars, Reads!pageVars, Reads!usedVars,
         Reads!listVars
<1>3. [Integration!Next]_(Integration!vars)
  BY DEF CatalogNext, catalogVars, integrateVars, Integration!vars, Integration!chainVars,
         Integration!boardVars, Integration!formVars
<1>4. [Upload!Next]_(Upload!vars)
  BY DEF CatalogNext, catalogVars, uploadVars, Upload!vars, Upload!hookVars, Upload!runVars,
         Upload!trailVars
<1>5. [Bake!Next]_(Bake!vars)
  BY DEF CatalogNext, catalogVars, bakeVars, Bake!vars
<1>6. QED BY <1>1, <1>2, <1>3, <1>4, <1>5

-----------------------------------------------------------------------------
(* The index.  A ticket is handed out once; the last one is under way      *)
(* while the page loads, and from is behind it until its answer is taken.  *)
Ticketed ==
  /\ reqCounter \in Nat
  /\ \A r \in requests : r = [ticket |-> r.ticket, answer |-> r.answer] /\ r.ticket \in 1..reqCounter
  /\ \A r, s \in requests : r.ticket = s.ticket => r = s

LastIsAwaited ==
  /\ loading <=> \E r \in requests : r.ticket = reqCounter
  /\ loading => ~error /\ from # reqCounter
  /\ from \in 0..reqCounter /\ loading \in BOOLEAN /\ error \in BOOLEAN

BrowseInv == Ticketed /\ LastIsAwaited /\ Browse!NewestIndexWins

LEMMA BrowseInit == Browse!Init => BrowseInv
<1> SUFFICES ASSUME Browse!Init PROVE BrowseInv
  OBVIOUS
<1>1. Ticketed BY DEF Browse!Init, Ticketed
<1>2. loading /\ ~error /\ allModels = cache /\ from = 0 BY DEF Browse!Init
<1>3. \E r \in requests : r.ticket = reqCounter BY DEF Browse!Init
<1>4. loading \in BOOLEAN /\ error \in BOOLEAN /\ reqCounter = 1 BY DEF Browse!Init
<1>5. LastIsAwaited BY <1>2, <1>3, <1>4 DEF LastIsAwaited
<1>6. QED BY <1>1, <1>2, <1>5 DEF BrowseInv, LastIsAwaited, Browse!NewestIndexWins

LEMMA BrowseStep == BrowseInv /\ [Browse!Next]_(Browse!vars) => BrowseInv'
<1> SUFFICES ASSUME BrowseInv, [Browse!Next]_(Browse!vars) PROVE BrowseInv'
  OBVIOUS
<1> USE DEF BrowseInv, Ticketed, LastIsAwaited, Browse!NewestIndexWins
<1>1. CASE UNCHANGED <<cache, allModels, from, requests, reqCounter, loading, error>>
  BY <1>1
<1>2. CASE Browse!refetch
  <2>1. /\ reqCounter' = reqCounter + 1 /\ loading' /\ ~error' /\ UNCHANGED <<allModels, cache, from>>
        /\ requests' = requests \cup {[ticket |-> reqCounter + 1, answer |-> Browse!NotYet]}
    BY <1>2 DEF Browse!refetch
  <2>2. Ticketed' BY <2>1
  <2>3. loading' \in BOOLEAN /\ error' \in BOOLEAN BY <1>2 DEF Browse!refetch
  <2>5. \E r \in requests' : r.ticket = reqCounter'
    <3>1. [ticket |-> reqCounter + 1, answer |-> Browse!NotYet].ticket = reqCounter + 1
      OBVIOUS
    <3>2. QED BY <2>1, <3>1, Zenon
  <2>6. LastIsAwaited' BY <2>1, <2>3, <2>5
  <2>7. QED BY <2>1, <2>2, <2>6
<1>3. ASSUME NEW r \in requests, Browse!IndexReads(r) PROVE BrowseInv'
  <2>1. [r EXCEPT !.answer = onChain] = [ticket |-> r.ticket, answer |-> onChain]
    OBVIOUS
  <2>2. QED BY <1>3, <2>1 DEF Browse!IndexReads
<1>4. ASSUME NEW r \in requests, Browse!IndexAnswers(r) PROVE BrowseInv'
  <2>1. requests' = requests \ {r} /\ UNCHANGED <<reqCounter, error>>
    BY <1>4 DEF Browse!IndexAnswers
  <2>2. Ticketed' BY <2>1
  <2>3. CASE r.ticket = reqCounter
    <3>1. allModels' = cache' /\ from' = reqCounter /\ ~loading' /\ loading' \in BOOLEAN
      BY <1>4, <2>3 DEF Browse!IndexAnswers, Browse!Latest
    <3>2. loading /\ ~error BY <2>3
    <3>3. QED BY <2>1, <2>2, <2>3, <3>1, <3>2
  <2>4. CASE r.ticket # reqCounter
    <3>1. UNCHANGED <<allModels, cache, from, loading>>
      BY <1>4, <2>4 DEF Browse!IndexAnswers, Browse!Latest
    <3>2. QED BY <2>1, <2>2, <2>4, <3>1
  <2>5. QED BY <2>3, <2>4
<1>5. ASSUME NEW r \in requests, Browse!IndexFails(r) PROVE BrowseInv'
  BY <1>5 DEF Browse!IndexFails, Browse!Latest
<1>6. QED
  BY <1>1, <1>2, <1>3, <1>4, <1>5
  DEF Browse!Next, Browse!vars, Browse!indexVars, Browse!Publish, Browse!setTagFilter,
      Browse!setSearchQuery, Browse!SessionChanges, Browse!LaneAnswers, Browse!LaneFails

-----------------------------------------------------------------------------
(* The reads of a page, a section and a list.  A run that may still set    *)
(* something is the one run for what the user looks at now.                *)
Shaped(runs) ==
  \A r \in runs : r = [of |-> r.of, cancelled |-> r.cancelled] /\ r.cancelled \in BOOLEAN
Only(runs, of) == \A r \in runs : ~r.cancelled => r = Reads!Run(of)

PageReads ==
  /\ Only(reads, slug)
  /\ pageLoading <=> Reads!Live(reads)
  /\ pageLoading => ~pageError

SectionReads ==
  ~pageLoading /\ ~pageError =>
    /\ shownCollection = slug /\ usedBy \in {None, slug} /\ slug \in launched
    /\ usedLoading <=> Reads!Live(usedReads)
    /\ Only(usedReads, slug) /\ (Reads!Live(usedReads) => slug \notin Closed)
    /\ ~usedLoading /\ ~usedError => (usedBy = slug <=> slug \notin Closed)

ListReads ==
  /\ Only(listReads, None)
  /\ listLoading <=> Reads!Live(listReads)
  /\ Reads!Live(listReads) => enabled
  /\ list # {} => enabled
  /\ list \subseteq launched

ReadsTyped ==
  /\ slug \in Collections
  /\ {pageLoading, pageError, usedLoading, usedError, enabled, listLoading, listError}
       \subseteq BOOLEAN
  /\ Shaped(reads) /\ Shaped(usedReads) /\ Shaped(listReads)

ReadsInv == ReadsTyped /\ PageReads /\ SectionReads /\ ListReads

LEMMA Cancelling ==
    ASSUME NEW runs, Shaped(runs)
    PROVE  Shaped(Reads!Cancel(runs)) /\ ~Reads!Live(Reads!Cancel(runs))
<1>1. \A r \in Reads!Cancel(runs) : \E q \in runs : r = [of |-> q.of, cancelled |-> TRUE]
  BY DEF Reads!Cancel, Shaped
<1>2. Shaped(Reads!Cancel(runs))
  <2> SUFFICES ASSUME NEW r \in Reads!Cancel(runs)
               PROVE  r = [of |-> r.of, cancelled |-> r.cancelled] /\ r.cancelled \in BOOLEAN
    BY DEF Shaped
  <2>1. PICK q \in runs : r = [of |-> q.of, cancelled |-> TRUE]
    BY <1>1
  <2>2. QED BY <2>1
<1>3. \A q : [of |-> q.of, cancelled |-> TRUE].cancelled = TRUE
  OBVIOUS
<1>4. \A r \in Reads!Cancel(runs) : r.cancelled
  BY <1>1, <1>3, Zenon
<1>5. QED BY <1>2, <1>4 DEF Reads!Live

(* A new run, the earlier ones cancelled.                                    *)
LEMMA NewRun ==
    ASSUME NEW runs, Shaped(runs), NEW of
    PROVE  LET now == Reads!Cancel(runs) \cup {Reads!Run(of)}
           IN  Shaped(now) /\ Reads!Live(now) /\ Only(now, of)
<1> DEFINE now == Reads!Cancel(runs) \cup {Reads!Run(of)}
<1>1. Reads!Run(of) = [of |-> of, cancelled |-> FALSE] BY DEF Reads!Run
<1>2. Reads!Run(of).cancelled = FALSE BY <1>1
<1>3. ~Reads!Run(of).cancelled BY <1>2, Zenon
<1>4. Shaped(now)
  <2>1. Reads!Run(of) = [of |-> Reads!Run(of).of, cancelled |-> Reads!Run(of).cancelled]
        /\ Reads!Run(of).cancelled \in BOOLEAN
    BY <1>1
  <2>2. QED BY <2>1, Cancelling DEF Shaped
<1>5. Reads!Live(now) /\ Only(now, of)
  BY <1>3, Cancelling, Zenon DEF Reads!Live, Only
<1>6. QED BY <1>4, <1>5

(* A run that ends: if it was the one that counts, none is left.             *)
LEMMA RunEnds ==
    ASSUME NEW runs, Shaped(runs), NEW r \in runs, NEW of, Only(runs, of)
    PROVE  /\ Shaped(runs \ {r}) /\ Only(runs \ {r}, of)
           /\ ~r.cancelled => r.of = of /\ ~Reads!Live(runs \ {r})
           /\ r.cancelled => (Reads!Live(runs \ {r}) <=> Reads!Live(runs))
<1>1. Shaped(runs \ {r}) /\ Only(runs \ {r}, of)
  BY Zenon DEF Shaped, Only
<1>2. ASSUME ~r.cancelled PROVE r.of = of /\ ~Reads!Live(runs \ {r})
  <2>1. r = Reads!Run(of) BY <1>2 DEF Only
  <2>2. \A q \in runs \ {r} : q.cancelled BY <2>1, Zenon DEF Only
  <2>3. QED BY <2>1, <2>2 DEF Reads!Live, Reads!Run
<1>3. ASSUME r.cancelled PROVE Reads!Live(runs \ {r}) <=> Reads!Live(runs)
  BY <1>3, Zenon DEF Reads!Live
<1>4. QED BY <1>1, <1>2, <1>3

LEMMA ReadsInit == Reads!Init => ReadsInv
<1> SUFFICES ASSUME Reads!Init PROVE ReadsInv
  OBVIOUS
<1>1. Shaped({}) /\ ~Reads!Live({}) /\ \A of : Only({}, of)
  BY DEF Shaped, Reads!Live, Only
<1>2. Reads!Cancel({}) = {} BY DEF Reads!Cancel
<1>3. Shaped(reads) /\ Reads!Live(reads) /\ Only(reads, slug)
  <2>1. reads = Reads!Cancel({}) \cup {Reads!Run(slug)} BY <1>2 DEF Reads!Init
  <2>2. QED BY <1>1, <2>1, NewRun
<1>4. ReadsTyped BY <1>1, <1>3 DEF ReadsTyped, Reads!Init
<1>5. pageLoading /\ ~pageError /\ ~listLoading BY Zenon DEF Reads!Init
<1>6. PageReads BY <1>3, <1>5 DEF PageReads
<1>7. listReads = {} /\ list = {} BY DEF Reads!Init
<1>8. ListReads BY <1>1, <1>5, <1>7 DEF ListReads
<1>9. QED BY <1>4, <1>5, <1>6, <1>8 DEF ReadsInv, SectionReads

LEMMA ReadsStep == ReadsInv /\ [Reads!Next]_(Reads!vars) => ReadsInv'
<1> SUFFICES ASSUME ReadsInv, [Reads!Next]_(Reads!vars) PROVE ReadsInv'
  OBVIOUS
<1> USE DEF ReadsInv
<1>1. ASSUME NEW c \in Collections, Reads!Launch(c) PROVE ReadsInv'
  BY <1>1 DEF Reads!Launch, Reads!pageVars, Reads!usedVars, Reads!listVars, ReadsTyped, PageReads,
              SectionReads, ListReads
<1>2. ASSUME NEW c \in Collections, Reads!Navigate(c) PROVE ReadsInv'
  <2>1. /\ slug' = c /\ reads' = Reads!Cancel(reads) \cup {Reads!Run(c)}
        /\ pageLoading' = TRUE /\ pageError' = FALSE /\ usedReads' = Reads!Cancel(usedReads)
        /\ UNCHANGED <<launched, usedLoading, usedError, Reads!listVars>>
    BY <1>2 DEF Reads!Navigate
  <2>2. Shaped(reads') /\ Reads!Live(reads') /\ Only(reads', c) /\ Shaped(usedReads')
    BY <2>1, NewRun, Cancelling DEF ReadsTyped
  <2>3. ReadsTyped' BY <2>1, <2>2 DEF ReadsTyped, Reads!listVars
  <2>4. pageLoading' /\ ~pageError' BY <2>1
  <2>5. PageReads' BY <2>1, <2>2, <2>4 DEF PageReads
  <2>6. ListReads' BY <2>1 DEF ListReads, Reads!listVars
  <2>7. QED BY <2>3, <2>4, <2>5, <2>6 DEF SectionReads
<1>3. ASSUME NEW r \in reads, Reads!CollectionRead(r) PROVE ReadsInv'
  <2>0. /\ reads' = reads \ {r} /\ slug' = slug /\ launched' = launched
        /\ UNCHANGED <<enabled, list, listLoading, listError, listReads>>
    BY <1>3 DEF Reads!CollectionRead, Reads!listVars
  <2>1. ListReads' BY <2>0 DEF ListReads
  <2>2. /\ Shaped(reads') /\ Only(reads', slug)
        /\ ~r.cancelled => r.of = slug /\ ~Reads!Live(reads')
        /\ r.cancelled => (Reads!Live(reads') <=> Reads!Live(reads))
    BY <2>0, RunEnds DEF ReadsTyped, PageReads
  <2>3. CASE r.cancelled
    <3>1. /\ UNCHANGED <<shownCollection, usedBy, usedLoading, usedError, usedReads>>
          /\ (pageError' <=> pageError) /\ (pageLoading' <=> pageLoading)
          /\ {pageError', pageLoading'} \subseteq BOOLEAN
      BY <1>3, <2>3 DEF Reads!CollectionRead, Reads!Stale, Reads!usedVars, ReadsTyped
    <3>2. ReadsTyped' BY <2>0, <2>2, <3>1 DEF ReadsTyped
    <3>3. PageReads' BY <2>0, <2>2, <2>3, <3>1 DEF PageReads
    <3>4. SectionReads' BY <2>0, <3>1 DEF SectionReads
    <3>5. QED BY <2>1, <3>2, <3>3, <3>4
  <2>4. CASE ~r.cancelled
    <3>1. r.of = slug /\ pageLoading /\ ~pageError /\ ~Reads!Live(reads')
      BY <2>2, <2>4 DEF PageReads, Reads!Live
    <3>2. ~pageLoading' /\ pageLoading' \in BOOLEAN
      BY <1>3, <2>4, <3>1 DEF Reads!CollectionRead, Reads!Stale
    <3>3. CASE slug \notin launched
      <4>1. pageError' /\ pageError' \in BOOLEAN
            /\ UNCHANGED <<usedBy, usedLoading, usedError, usedReads>>
        BY <1>3, <2>4, <3>1, <3>3 DEF Reads!CollectionRead, Reads!Stale, Reads!usedVars
      <4>2. ReadsTyped' BY <2>0, <2>2, <3>2, <4>1 DEF ReadsTyped
      <4>3. PageReads' BY <2>0, <2>2, <3>1, <3>2 DEF PageReads
      <4>4. QED BY <2>1, <4>1, <4>2, <4>3 DEF SectionReads
    <3>4. CASE slug \in launched
      <4>1. shownCollection' = slug /\ Reads!MountUsedBy(slug)
            /\ (pageError' <=> pageError) /\ pageError' \in BOOLEAN
        BY <1>3, <2>4, <3>1, <3>4 DEF Reads!CollectionRead, Reads!Stale
      <4>2. usedBy' = None /\ usedError' = FALSE /\ usedLoading' = (slug \notin Closed)
        BY <4>1 DEF Reads!MountUsedBy
      <4>3. /\ Shaped(usedReads') /\ Only(usedReads', slug)
            /\ Reads!Live(usedReads') <=> slug \notin Closed
        <5>1. CASE slug \in Closed
          <6>1. usedReads' = Reads!Cancel(usedReads) BY <4>1, <5>1 DEF Reads!MountUsedBy
          <6>2. Shaped(usedReads') /\ ~Reads!Live(usedReads')
            BY <6>1, Cancelling DEF ReadsTyped
          <6>3. QED BY <5>1, <6>2, Zenon DEF Only, Reads!Live
        <5>2. CASE slug \notin Closed
          BY <4>1, <5>2, NewRun DEF Reads!MountUsedBy, ReadsTyped
        <5>3. QED BY <5>1, <5>2
      <4>4. ReadsTyped' BY <2>0, <2>2, <3>2, <4>1, <4>2, <4>3 DEF ReadsTyped
      <4>5. PageReads' BY <2>0, <2>2, <3>1, <3>2 DEF PageReads
      <4>6. None # slug BY StorefrontAssumption DEF Reads!ReadsAssumption, ReadsTyped
      <4>7. usedLoading' <=> slug \notin Closed BY <4>2
      <4>8. SectionReads' BY <2>0, <3>4, <4>1, <4>2, <4>3, <4>6, <4>7 DEF SectionReads
      <4>9. QED BY <2>1, <4>4, <4>5, <4>8
    <3>5. QED BY <3>3, <3>4
  <2>5. QED BY <2>3, <2>4
<1>4. ASSUME NEW r \in reads, Reads!CollectionFails(r) PROVE ReadsInv'
  <2>1. /\ reads' = reads \ {r}
        /\ UNCHANGED <<launched, slug, shownCollection, usedBy, usedLoading, usedError, usedReads,
                       enabled, list, listLoading, listError, listReads>>
    BY <1>4 DEF Reads!CollectionFails, Reads!usedVars, Reads!listVars
  <2>2. /\ Shaped(reads') /\ Only(reads', slug)
        /\ ~r.cancelled => r.of = slug /\ ~Reads!Live(reads')
        /\ r.cancelled => (Reads!Live(reads') <=> Reads!Live(reads))
    BY <2>1, RunEnds DEF ReadsTyped, PageReads
  <2>3. /\ pageError' <=> (pageError \/ ~r.cancelled)
        /\ pageLoading' <=> (pageLoading /\ r.cancelled)
        /\ {pageError', pageLoading'} \subseteq BOOLEAN
    BY <1>4 DEF Reads!CollectionFails, Reads!Stale
  <2>4. ReadsTyped' BY <2>1, <2>2, <2>3 DEF ReadsTyped
  <2>5. PageReads' BY <2>1, <2>2, <2>3 DEF PageReads
  <2>6. ListReads' BY <2>1 DEF ListReads
  <2>7. ~r.cancelled => pageLoading BY DEF PageReads, Reads!Live
  <2>8. SectionReads' BY <2>1, <2>3, <2>7 DEF SectionReads
  <2>9. QED BY <2>4, <2>5, <2>6, <2>8
<1>5. ASSUME NEW r \in usedReads, Reads!UsedByAnswers(r) PROVE ReadsInv'
  <2>1. /\ usedReads' = usedReads \ {r}
        /\ usedLoading' = (usedLoading /\ r.cancelled)
        /\ \/ usedBy' = (IF r.cancelled THEN usedBy ELSE r.of) /\ usedError' = usedError
           \/ usedError' = (usedError \/ ~r.cancelled) /\ usedBy' = usedBy
        /\ UNCHANGED <<launched, slug, shownCollection, pageLoading, pageError, reads,
                       enabled, list, listLoading, listError, listReads>>
    BY <1>5 DEF Reads!UsedByAnswers, Reads!Stale, Reads!pageVars, Reads!listVars
  <2>2. Shaped(usedReads') BY <2>1 DEF ReadsTyped, Shaped
  <2>3. PageReads' /\ ListReads' BY <2>1 DEF PageReads, ListReads
  <2>4. ReadsTyped' BY <2>1, <2>2 DEF ReadsTyped
  <2>5. ASSUME ~pageLoading, ~pageError PROVE SectionReads'
    <3>1. /\ Only(usedReads', slug)
          /\ ~r.cancelled => r.of = slug /\ ~Reads!Live(usedReads')
          /\ r.cancelled => (Reads!Live(usedReads') <=> Reads!Live(usedReads))
      BY <2>1, <2>5, RunEnds DEF ReadsTyped, SectionReads
    <3>2. CASE r.cancelled
      <4>1. (usedLoading' <=> usedLoading) /\ usedBy' = usedBy /\ (usedError' <=> usedError)
        <5>1. usedLoading' <=> usedLoading BY <2>1, <3>2
        <5>2. (IF r.cancelled THEN usedBy ELSE r.of) = usedBy BY <3>2
        <5>3. (usedError \/ ~r.cancelled) <=> usedError BY <3>2
        <5>4. usedBy' = usedBy BY <2>1, <5>2, Zenon
        <5>5. usedError' <=> usedError 
          <6>1. CASE usedError' = usedError BY <6>1
          <6>2. CASE usedError' = (usedError \/ ~r.cancelled) BY <3>2, <6>2
          <6>3. QED BY <2>1, <6>1, <6>2
        <5>6. QED BY <5>1, <5>4, <5>5
      <4>2. QED BY <2>1, <2>5, <3>1, <3>2, <4>1 DEF SectionReads
    <3>3. CASE ~r.cancelled
      <4>1. ~usedLoading' /\ (usedBy' = slug \/ (usedError' /\ usedBy' = usedBy))
        <5>1. ~usedLoading' BY <2>1, <3>3
        <5>2. CASE usedBy' = (IF r.cancelled THEN usedBy ELSE r.of)
          <6>1. (IF r.cancelled THEN usedBy ELSE r.of) = r.of BY <3>3
          <6>2. usedBy' = slug BY <3>1, <3>3, <5>2, <6>1
          <6>3. QED BY <5>1, <6>2
        <5>3. CASE usedError' = (usedError \/ ~r.cancelled) /\ usedBy' = usedBy
          <6>1. usedError' BY <3>3, <5>3
          <6>2. QED BY <5>1, <5>3, <6>1
        <5>4. QED BY <2>1, <5>2, <5>3
      <4>2. slug \notin Closed BY <2>5, <3>3 DEF SectionReads, Reads!Live
      <4>3. QED BY <2>1, <2>5, <3>1, <3>3, <4>1, <4>2 DEF SectionReads
    <3>4. QED BY <3>2, <3>3
  <2>6. pageLoading' = pageLoading /\ pageError' = pageError BY <2>1
  <2>7. pageLoading \/ pageError => SectionReads' BY <2>6 DEF SectionReads
  <2>8. QED BY <2>3, <2>4, <2>5, <2>7
<1>6. CASE Reads!ToggleView
  <2>1. /\ UNCHANGED <<launched, Reads!pageVars, Reads!usedVars>> /\ enabled' \in BOOLEAN
        /\ IF enabled' THEN /\ listReads' = Reads!Cancel(listReads) \cup {Reads!Run(None)}
                            /\ listLoading' = TRUE /\ listError' = FALSE /\ list' = list
           ELSE /\ listReads' = Reads!Cancel(listReads)
                /\ list' = {} /\ listLoading' = FALSE /\ listError' = listError
    BY <1>6 DEF Reads!ToggleView
  <2>2. PageReads' /\ SectionReads'
    BY <2>1 DEF PageReads, SectionReads, Reads!pageVars, Reads!usedVars
  <2>3. Shaped(listReads') BY <2>1, NewRun, Cancelling DEF ReadsTyped
  <2>4. ReadsTyped'
    BY <2>1, <2>3 DEF ReadsTyped, Reads!pageVars, Reads!usedVars
  <2>5. CASE enabled'
    <3>1. listLoading' /\ list' = list BY <2>1, <2>5
    <3>2. Reads!Live(listReads') /\ Only(listReads', None) BY <2>1, <2>5, NewRun DEF ReadsTyped
    <3>3. ListReads' BY <2>1, <2>5, <3>1, <3>2 DEF ListReads
    <3>4. QED BY <2>2, <2>4, <3>3
  <2>6. CASE ~enabled'
    <3>1. ~listLoading' /\ list' = {} BY <2>1, <2>6
    <3>2. ~Reads!Live(listReads') BY <2>1, <2>6, Cancelling DEF ReadsTyped
    <3>3. ListReads' BY <3>1, <3>2, Zenon DEF ListReads, Only, Reads!Live
    <3>4. QED BY <2>2, <2>4, <3>3
  <2>7. QED BY <2>5, <2>6
<1>7. ASSUME NEW r \in listReads, Reads!ListAnswers(r) PROVE ReadsInv'
  <2>1. /\ listReads' = listReads \ {r}
        /\ listLoading' = (listLoading /\ r.cancelled)
        /\ \/ list' = (IF r.cancelled THEN list ELSE launched) /\ UNCHANGED listError
           \/ listError' = (listError \/ ~r.cancelled) /\ UNCHANGED list
        /\ UNCHANGED <<launched, slug, shownCollection, pageLoading, pageError, reads, usedBy,
                       usedLoading, usedError, usedReads, enabled>>
    BY <1>7 DEF Reads!ListAnswers, Reads!Stale, Reads!pageVars, Reads!usedVars
  <2>2. /\ Shaped(listReads') /\ Only(listReads', None)
        /\ ~r.cancelled => ~Reads!Live(listReads')
        /\ r.cancelled => (Reads!Live(listReads') <=> Reads!Live(listReads))
    BY <2>1, RunEnds DEF ReadsTyped, ListReads
  <2>3. PageReads' /\ SectionReads' BY <2>1 DEF PageReads, SectionReads
  <2>4. ReadsTyped' BY <2>1, <2>2 DEF ReadsTyped
  <2>5. ~r.cancelled => enabled BY DEF ListReads, Reads!Live
  <2>6. ListReads'
    <3>1. CASE r.cancelled BY <2>1, <2>2, <3>1 DEF ListReads
    <3>2. CASE ~r.cancelled BY <2>1, <2>2, <2>5, <3>2 DEF ListReads
    <3>3. QED BY <3>1, <3>2
  <2>7. QED BY <2>3, <2>4, <2>6
<1>8. CASE UNCHANGED Reads!vars
  BY <1>8 DEF Reads!vars, Reads!pageVars, Reads!usedVars, Reads!listVars, ReadsTyped, PageReads,
              SectionReads, ListReads
<1>9. QED BY <1>1, <1>2, <1>3, <1>4, <1>5, <1>6, <1>7, <1>8 DEF Reads!Next

LEMMA ReadsInvImplies == ReadsInv => Reads!ReadsAreOwn
  BY DEF ReadsInv, ReadsTyped, PageReads, SectionReads, ListReads, Reads!ReadsAreOwn, Reads!BodyShown,
         Reads!Live, Reads!openCollections

(* Browse shows what its newest request asked for, and the page of a       *)
(* collection only what was read for the collection it is at, however the  *)
(* answers overtake each other (useBrowseIndex, useCollection, useUsedBy). *)
THEOREM ReadsAreCurrent == CatalogSpec => []NewestReadWins
<1>1. CatalogInit => BrowseInv /\ ReadsInv
  BY BrowseInit, ReadsInit DEF CatalogInit
<1>2. (BrowseInv /\ ReadsInv) /\ [CatalogNext]_catalogVars => (BrowseInv /\ ReadsInv)'
  BY StorefrontSteps, BrowseStep, ReadsStep
<1>3. BrowseInv /\ ReadsInv => NewestReadWins
  BY ReadsInvImplies DEF BrowseInv, NewestReadWins
<1>4. QED BY <1>1, <1>2, <1>3, PTL DEF CatalogSpec

(* The registration: what onRegister keeps is what stood at the click, and *)
(* the fee it signs is the one of the chain until something moves.         *)
Open == Collections \ Closed

Forms == {"bad", "v1", "v2"}
Clicks == [of : Open, form : Forms]
Registrations == [of : Open, form : Forms, paid : Nat, sent : Nat, at : Nat, click : Clicks]

Quoted ==
  /\ registered \in Seq(Registrations) /\ form \in Forms
  /\ fee \in [Open -> Fees] /\ moves \in Nat /\ open \subseteq Open
  /\ offered = Integration!Unread \/ \A o \in offered : o.id \in Open
  /\ selected = Integration!NoPick \/ selected.id \in Open

(* While onRegister awaits, its task is its click.                         *)
TaskIsClick ==
  task # Integration!NoTask =>
    /\ task.click \in Clicks /\ task.of = task.click.of /\ task.form = task.click.form
    /\ task.form # "bad"

LiveFee ==
  task.step = "sign" =>
    /\ task.at \in Nat /\ task.at <= moves /\ task.fee \in Nat
    /\ task.at = moves => task.fee = fee[task.of]

(* The param waits for the collections, and for those that are not on      *)
(* offer.                                                                  *)
ChoiceStands ==
  IF offered = Integration!Unread
  THEN param = lastChoice
  ELSE /\ \A o \in offered : o.id # param
       /\ (\E o \in offered : o.id = lastChoice) => selected.id = lastChoice

IntegrateInv ==
  Quoted /\ TaskIsClick /\ LiveFee /\ ChoiceStands /\ Integration!RegistersAsClicked

LEMMA NoneIsNone == None \notin Open /\ Fees \subseteq Nat
  BY StorefrontAssumption DEF Integration!IntegrateAssumption, Reads!ReadsAssumption, Open

LEMMA IntegrateInit == Integration!Init => IntegrateInv
<1> SUFFICES ASSUME Integration!Init PROVE IntegrateInv
  OBVIOUS
<1> USE DEF Integration!Init
<1>1. Quoted BY DEF Quoted, Open, Forms
<1>2. TaskIsClick /\ LiveFee
  BY DEF TaskIsClick, LiveFee, Integration!NoTask
<1>3. ChoiceStands BY DEF ChoiceStands
<1>4. Integration!RegistersAsClicked BY DEF Integration!RegistersAsClicked
<1>5. QED BY <1>1, <1>2, <1>3, <1>4 DEF IntegrateInv

LEMMA Seeding ==
    ASSUME Quoted, NEW p, NEW choices, \A o \in choices : o.id \in Open,
           Integration!Seed(p, choices)
    PROVE  /\ \A o \in choices : o.id # param'
           /\ (\E o \in choices : o.id = p) => selected'.id = p /\ selected'.id \in Open
           /\ ~(\E o \in choices : o.id = p) => param' = p /\ selected' = selected
<1>1. CASE \E o \in choices : o.id = p
  <2>1. selected' = (CHOOSE o \in choices : o.id = p) /\ param' = None
    BY <1>1 DEF Integration!Seed
  <2>2. selected' \in choices /\ selected'.id = p
    BY <1>1, <2>1
  <2>3. QED BY <1>1, <2>1, <2>2, NoneIsNone
<1>2. CASE ~(\E o \in choices : o.id = p)
  BY <1>2 DEF Integration!Seed
<1>3. QED BY <1>1, <1>2

LEMMA IntegrateStep == IntegrateInv /\ [Integration!Next]_(Integration!vars) => IntegrateInv'
<1> SUFFICES ASSUME IntegrateInv, [Integration!Next]_(Integration!vars) PROVE IntegrateInv'
  OBVIOUS
<1> USE DEF IntegrateInv
<1>1. ASSUME UNCHANGED <<fee, moves, open, registered, offered, task, param, selected, lastChoice>>,
             form' \in Forms
      PROVE  IntegrateInv'
  BY <1>1 DEF Quoted, TaskIsClick, LiveFee, ChoiceStands, Integration!RegistersAsClicked
<1>2. ASSUME NEW c \in Open, NEW f \in Fees, Integration!SetFee(c, f) PROVE IntegrateInv'
  <2>1. /\ moves' = moves + 1 /\ fee' = [fee EXCEPT ![c] = f]
        /\ UNCHANGED <<open, form, registered, offered, task, param, selected, lastChoice>>
    BY <1>2 DEF Integration!SetFee, Integration!formVars
  <2>2. Quoted' BY <2>1 DEF Quoted
  <2>3. LiveFee' BY <2>1 DEF LiveFee, Quoted
  <2>4. QED BY <2>1, <2>2, <2>3 DEF TaskIsClick, ChoiceStands, Integration!RegistersAsClicked
<1>3. ASSUME NEW c \in Open, Integration!SetPolicy(c) PROVE IntegrateInv'
  <2>1. /\ moves' = moves + 1 /\ open' \subseteq open \cup {c}
        /\ UNCHANGED <<fee, form, registered, offered, task, param, selected, lastChoice>>
    BY <1>3 DEF Integration!SetPolicy, Integration!formVars
  <2>2. Quoted' BY <2>1 DEF Quoted
  <2>3. LiveFee' BY <2>1 DEF LiveFee, Quoted
  <2>4. QED BY <2>1, <2>2, <2>3 DEF TaskIsClick, ChoiceStands, Integration!RegistersAsClicked
<1>4. CASE Integration!CollectionsLoad
  <2>1. /\ offered = Integration!Unread /\ Integration!Seed(param, offered')
        /\ UNCHANGED <<fee, moves, open, form, registered, task, lastChoice>>
    BY <1>4 DEF Integration!CollectionsLoad, Integration!chainVars
  <2>2. \A o \in offered' : o.id \in Open
    <3>1. offered' = {[id |-> c, fee |-> fee[c]] : c \in open} \/ offered' = {}
      BY <1>4 DEF Integration!CollectionsLoad
    <3>2. QED BY <3>1 DEF Quoted
  <2>3. Integration!NoPick.id = None BY DEF Integration!NoPick
  <2>4. offered' # Integration!Unread
    BY <2>2, <2>3, NoneIsNone DEF Integration!Unread
  <2>5. Quoted'
    <3>1. selected' = Integration!NoPick \/ selected'.id \in Open
      BY <2>1, <2>2, Seeding DEF Quoted
    <3>2. QED BY <2>1, <2>2, <3>1 DEF Quoted
  <2>6. ChoiceStands'
    BY <2>1, <2>2, <2>4, Seeding DEF ChoiceStands
  <2>7. QED BY <2>1, <2>5, <2>6 DEF TaskIsClick, LiveFee, Integration!RegistersAsClicked
<1>5. ASSUME NEW c, Integration!ChooseRow(c) PROVE IntegrateInv'
  <2>1. /\ lastChoice' = c
        /\ IF c = param THEN UNCHANGED <<param, selected>>
           ELSE Integration!Seed(c, Integration!registerable)
        /\ UNCHANGED <<fee, moves, open, form, registered, offered, task>>
    BY <1>5 DEF Integration!ChooseRow, Integration!chainVars
  <2>2. CASE c = param
    BY <2>1, <2>2 DEF Quoted, TaskIsClick, LiveFee, ChoiceStands, Integration!RegistersAsClicked
  <2>3. CASE c # param /\ offered = Integration!Unread
    <3>1. Integration!registerable = {} BY <2>3 DEF Integration!registerable
    <3>2. param' = c /\ selected' = selected BY <2>1, <2>3, <3>1 DEF Integration!Seed
    <3>3. QED BY <2>1, <2>3, <3>2 DEF Quoted, TaskIsClick, LiveFee, ChoiceStands,
                                      Integration!RegistersAsClicked
  <2>4. CASE c # param /\ offered # Integration!Unread
    <3>1. \A o \in offered : o.id \in Open BY <2>4 DEF Quoted
    <3>2. Integration!registerable = offered
      <4>1. Integration!NoPick \notin offered
        BY <3>1, NoneIsNone DEF Integration!NoPick
      <4>2. QED BY <4>1 DEF Integration!registerable, Integration!Unread
    <3>3. Integration!Seed(c, offered) BY <2>1, <2>4, <3>2
    <3>4. Quoted' BY <2>1, <3>1, <3>3, Seeding DEF Quoted
    <3>5. ChoiceStands' BY <2>1, <2>4, <3>1, <3>3, Seeding DEF ChoiceStands
    <3>6. QED BY <2>1, <3>4, <3>5 DEF TaskIsClick, LiveFee, Integration!RegistersAsClicked
  <2>5. QED BY <2>2, <2>3, <2>4
<1>6. ASSUME NEW o \in Integration!registerable, Integration!Pick(o) PROVE IntegrateInv'
  <2>1. /\ selected' = o /\ lastChoice' = o.id
        /\ UNCHANGED <<fee, moves, open, form, registered, offered, param, task>>
    BY <1>6 DEF Integration!Pick, Integration!chainVars
  <2>2. o \in offered /\ offered # Integration!Unread
    BY DEF Integration!registerable
  <2>3. QED BY <2>1, <2>2 DEF Quoted, TaskIsClick, LiveFee, ChoiceStands,
                              Integration!RegistersAsClicked
<1>7. CASE Integration!Register
  <2>1. /\ selected # Integration!NoPick /\ form # "bad"
        /\ task' = [step |-> "read", of |-> selected.id, form |-> form, fee |-> selected.fee,
                    at |-> 0, click |-> [of |-> selected.id, form |-> form]]
        /\ UNCHANGED <<fee, moves, open, form, registered, offered, param, selected, lastChoice>>
    BY <1>7 DEF Integration!Register, Integration!chainVars, Integration!formVars
  <2>2. TaskIsClick' BY <2>1 DEF TaskIsClick, Quoted, Clicks
  <2>3. LiveFee' BY <2>1 DEF LiveFee
  <2>4. QED BY <2>1, <2>2, <2>3 DEF Quoted, ChoiceStands, Integration!RegistersAsClicked
<1>8. CASE Integration!LiveRead
  <2>1. /\ task.step = "read"
        /\ task' = [task EXCEPT !.step = "sign", !.fee = fee[task.of], !.at = moves]
        /\ UNCHANGED <<fee, moves, open, form, registered, offered, param, selected, lastChoice>>
    BY <1>8 DEF Integration!LiveRead, Integration!Quoted, Integration!chainVars, Integration!formVars
  <2>2. task # Integration!NoTask BY <2>1 DEF Integration!NoTask
  <2>3. fee[task.of] \in Nat BY <2>2, NoneIsNone DEF TaskIsClick, Clicks, Quoted
  <2>4. QED BY <2>1, <2>2, <2>3 DEF TaskIsClick, LiveFee, Quoted, ChoiceStands,
                                    Integration!RegistersAsClicked
<1>9. ASSUME UNCHANGED <<fee, moves, open, form, offered, param, selected, lastChoice>>,
             registered' \in Seq(Registrations), task' = Integration!NoTask, Integration!RegistersAsClicked'
      PROVE  IntegrateInv'
  <2>1. TaskIsClick' /\ LiveFee' BY <1>9 DEF TaskIsClick, LiveFee, Integration!NoTask
  <2>2. QED BY <1>9, <2>1 DEF Quoted, ChoiceStands
<1>10. CASE Integration!Rejected
  <2>1. /\ UNCHANGED <<fee, moves, open, form, registered, offered, param, selected, lastChoice>>
        /\ task' = Integration!NoTask
    BY <1>10 DEF Integration!Rejected, Integration!Ends, Integration!chainVars, Integration!formVars
  <2>2. QED BY <1>9, <2>1 DEF Quoted, Integration!RegistersAsClicked
<1>11. CASE Integration!Sign
  <2>0. task.step = "sign" /\ task # Integration!NoTask
    <3>1. task.step = "sign" BY <1>11 DEF Integration!Sign
    <3>2. QED BY <3>1 DEF Integration!NoTask
  <2> DEFINE done == [of |-> task.of, form |-> task.form, paid |-> fee[task.of],
                      sent |-> task.fee, at |-> task.at, click |-> task.click]
  <2>1. /\ UNCHANGED <<fee, moves, open, form, offered, param, selected, lastChoice>>
        /\ task' = Integration!NoTask
        /\ \/ registered' = registered
           \/ ~(task.of \in open /\ task.fee < fee[task.of]) /\ task.of \in open
              /\ registered' = Append(registered, done)
    BY <1>11 DEF Integration!Sign, Integration!Ends, Integration!Target, Integration!formVars
  <2>2. fee[task.of] \in Nat /\ task.fee \in Nat
    BY <2>0, NoneIsNone DEF TaskIsClick, Clicks, LiveFee, Quoted
  <2>3. Integration!RegistersAsClicked' /\ registered' \in Seq(Registrations)
    <3>1. CASE registered' = registered BY <3>1 DEF Integration!RegistersAsClicked, Quoted
    <3>2. CASE task.fee >= fee[task.of] /\ registered' = Append(registered, done)
      <4>1. done \in Registrations
        BY <2>0, <2>2 DEF TaskIsClick, Clicks, LiveFee, Registrations
      <4>2. QED BY <2>0, <2>2, <3>2, <4>1 DEF Integration!RegistersAsClicked, TaskIsClick, Quoted
    <3>3. QED BY <2>1, <2>2, <3>1, <3>2
  <2>4. QED BY <1>9, <2>1, <2>3
<1>12. QED
  <2>0. form \in Forms BY DEF Quoted
  <2>1. CASE Integration!Connect BY <1>1, <2>0, <2>1 DEF Integration!Connect, Integration!chainVars, Integration!formVars
  <2>2. CASE Integration!BoardLoads BY <1>1, <2>0, <2>2 DEF Integration!BoardLoads, Integration!chainVars, Integration!formVars
  <2>3. CASE Integration!CountsLoad BY <1>1, <2>0, <2>3 DEF Integration!CountsLoad, Integration!chainVars, Integration!formVars
  <2>4. CASE Integration!NamesPage BY <1>1, <2>0, <2>4 DEF Integration!NamesPage, Integration!chainVars, Integration!formVars
  <2>5. CASE UNCHANGED Integration!vars
    BY <1>1, <2>0, <2>5 DEF Integration!vars, Integration!chainVars, Integration!formVars
  <2>6. ASSUME NEW f \in {"bad", "v1", "v2"}, Integration!Type(f) PROVE IntegrateInv'
    BY <1>1, <2>6 DEF Forms, Integration!Type, Integration!chainVars
  <2>7. QED
    BY <1>2, <1>3, <1>4, <1>5, <1>6, <1>7, <1>8, <1>10, <1>11, <2>1, <2>2, <2>3, <2>4, <2>5, <2>6
    DEF Integration!Next, Open

LEMMA IntegrateInvImplies == IntegrateInv => RegistersAsClicked
<1> SUFFICES ASSUME IntegrateInv PROVE RegistersAsClicked
  OBVIOUS
<1> USE DEF IntegrateInv
<1>1. Integration!FeeFailsOnlyIfMoved
  <2> SUFFICES ASSUME task.step = "sign", task.fee < fee[task.of] PROVE moves > task.at
    BY DEF Integration!FeeFailsOnlyIfMoved
  <2>1. task # Integration!NoTask BY DEF Integration!NoTask
  <2>2. fee[task.of] \in Nat BY <2>1, NoneIsNone DEF TaskIsClick, Clicks, Quoted
  <2>3. task.fee # fee[task.of] BY <2>2
  <2>4. QED BY <2>3 DEF LiveFee, Quoted
<1>2. Integration!SelectedIsLastChoice
  <2>1. CASE offered = Integration!Unread
    BY <2>1 DEF Integration!SelectedIsLastChoice, Integration!registerable
  <2>2. CASE offered # Integration!Unread
    BY <2>2 DEF Integration!SelectedIsLastChoice, Integration!registerable, ChoiceStands
  <2>3. QED BY <2>1, <2>2
<1>3. QED BY <1>1, <1>2 DEF RegistersAsClicked

(* onRegister registers with the collection and the form of its click, its *)
(* payment falls short only when the chain moved after the fee was read,   *)
(* and what is selected is what the user last chose of what is on offer.   *)
THEOREM RegistrationsAreTheUsers == CatalogSpec => []RegistersAsClicked
<1>1. CatalogInit => IntegrateInv
  BY IntegrateInit DEF CatalogInit
<1>2. IntegrateInv /\ [CatalogNext]_catalogVars => IntegrateInv'
  BY StorefrontSteps, IntegrateStep
<1>3. QED BY <1>1, <1>2, IntegrateInvImplies, PTL DEF CatalogSpec

(* The uploads.  What the panel reads of an upload of files: every quilt   *)
(* before the one under way is stored, and of that one what its step says. *)
Steps == {"encoding", "awaiting-register", "relay-upload", "awaiting-certify", "listing"}
Stages == {"idle", "encoding", "awaiting-register", "relay-upload", "awaiting-certify", "done", "error"}
Crumbs == [at : {"pre", "post", "retry"}, step : Stages \cup {"of another"}, quilt : Nat]

UploadTyped ==
  /\ run.quilt \in Nat /\ run.step \in Steps \cup {"none"} /\ run.kind \in {"none", "files", "blob"}
  /\ run = [kind |-> run.kind, files |-> run.files, size |-> run.size, quilt |-> run.quilt,
            step |-> run.step, tries |-> run.tries, ids |-> run.ids]
  /\ stage \in Stages /\ txDigests \in Seq(Nat) /\ behind \in Nat
  /\ trail \in Seq(Crumbs) /\ stored = trail
  /\ batchTotal \in Int

FilesStored ==
  run.kind = "files" =>
    /\ batchIndex = run.quilt
    /\ stage = "error" => run.step = "none" /\ uploadError.batch = run.quilt
                          /\ uploadError.stage \in Upload!Working
    /\ stage = "done" => run.step = "none"
    /\ stage \notin {"done", "error"} =>
         run.step = (IF run.step = "listing" THEN "listing" ELSE stage) /\ run.step # "none"
    /\ run.step = "listing" => stage = "awaiting-certify"
    /\ stage # "error" => uploadError = Upload!NoError

LandedSoFar ==
  run.kind = "files" =>
    /\ \A i \in Nat : i < run.quilt => <<"register", i>> \in landed /\ <<"certify", i>> \in landed
    /\ \A i \in Nat : i > run.quilt => <<"register", i>> \notin landed /\ <<"certify", i>> \notin landed
    /\ \A i \in Nat : i < run.quilt => i + 1 \in DOMAIN txDigests /\ txDigests[i + 1] = i

LandedNow ==
  run.kind = "files" =>
    /\ stage \in {"encoding", "awaiting-register"} =>
         <<"register", run.quilt>> \notin landed /\ <<"certify", run.quilt>> \notin landed
         /\ Len(txDigests) = run.quilt
    /\ stage \in {"relay-upload", "awaiting-certify", "done"} =>
         /\ <<"register", run.quilt>> \in landed
         /\ Len(txDigests) = run.quilt + 1 /\ txDigests[run.quilt + 1] = run.quilt
    /\ stage = "relay-upload" => <<"certify", run.quilt>> \notin landed
    /\ run.step = "awaiting-certify" => <<"certify", run.quilt>> \notin landed
    /\ run.step = "listing" \/ stage = "done" => <<"certify", run.quilt>> \in landed
    /\ stage = "error" =>
         /\ uploadError.stage # "awaiting-certify" => <<"certify", run.quilt>> \notin landed
         /\ uploadError.stage = "encoding" => <<"register", run.quilt>> \notin landed
         /\ uploadError.stage \in {"relay-upload", "awaiting-certify"} =>
              /\ <<"register", run.quilt>> \in landed
              /\ run.quilt + 1 \in DOMAIN txDigests /\ txDigests[run.quilt + 1] = run.quilt

(* A trail names the step of the one upload that writes it, and is gone    *)
(* when nothing of it runs.                                                *)
TrailNames(step, quilt) ==
  /\ stored # <<>>
  /\ stored[Len(stored)].quilt = quilt
  /\ IF step = "listing"
     THEN stored[Len(stored)].at = "post" /\ stored[Len(stored)].step = "awaiting-certify"
     ELSE stored[Len(stored)].at \in {"pre", "retry"} /\ stored[Len(stored)].step = step

FilesRun == run.step # "none" /\ run.kind = "files"

TrailInv ==
  IF surfaced
  THEN /\ behind = 0 /\ ~FilesRun => stored = <<>>
       /\ behind = 0 /\ ~shared /\ FilesRun => TrailNames(run.step, run.quilt)
  ELSE /\ run.step = "none" /\ behind = 0
       /\ died.alone =>
            /\ stored = <<>> <=> died = Upload!NoDeath
            /\ died # Upload!NoDeath => TrailNames(died.step, died.quilt)

UploadInv == UploadTyped /\ FilesStored /\ LandedSoFar /\ LandedNow /\ TrailInv

LEMMA PanelHolds == UploadInv => Upload!PanelIsHonest
<1> SUFFICES ASSUME UploadInv, run.kind = "files" PROVE Upload!PanelIsHonest
  BY DEF Upload!PanelIsHonest
<1> DEFINE q == run.quilt
<1>1. batchIndex = q /\ q \in Nat /\ batchTotal \in Int
  BY DEF UploadInv, UploadTyped, FilesStored
<1>2. stage \in Upload!Working \cup {"done", "error"}
  BY DEF UploadInv, UploadTyped, FilesStored, Steps, Upload!Working
<1>3. /\ \A i \in Nat : i < q => <<"register", i>> \in landed /\ <<"certify", i>> \in landed
      /\ \A i \in Nat : i > q => <<"register", i>> \notin landed /\ <<"certify", i>> \notin landed
      /\ \A i \in Nat : i < q => i + 1 \in DOMAIN txDigests /\ txDigests[i + 1] = i
  BY DEF UploadInv, LandedSoFar
<1> DEFINE Honest(i) ==
      /\ Upload!RegisterRow(i) = "done" => /\ <<"register", i>> \in landed
                                           /\ i + 1 \in DOMAIN txDigests /\ txDigests[i + 1] = i
      /\ Upload!CertifyRow(i) = "done" => <<"certify", i>> \in landed
      /\ <<"register", i>> \in landed => Upload!RegisterRow(i) # "pending"
      /\ <<"certify", i>> \in landed => Upload!CertifyRow(i) # "pending"
<1>4. ASSUME NEW i \in Nat PROVE Honest(i)
  <2>1. CASE i < q
    <3>1. stage # "idle" BY <1>2 DEF Upload!Working
    <3>2. i < batchIndex /\ ~(i > batchIndex) BY <1>1, <2>1
    <3>3. Upload!RegisterRow(i) = "done" BY <3>1, <3>2 DEF Upload!RegisterRow
    <3>4. Upload!CertifyRow(i) = "done" BY <3>1, <3>2 DEF Upload!CertifyRow
    <3>5. QED BY <1>3, <2>1, <3>3, <3>4
  <2>2. CASE i > q
    <3>1. i > batchIndex /\ ~(i < batchIndex) BY <1>1, <2>2
    <3>2. Upload!RegisterRow(i) = "pending" BY <3>1 DEF Upload!RegisterRow
    <3>3. Upload!CertifyRow(i) = "pending" BY <3>1 DEF Upload!CertifyRow
    <3>4. QED BY <1>3, <2>2, <3>2, <3>3
  <2>3. CASE i = q
    <3>0. ~(i > batchIndex) /\ ~(i < batchIndex) BY <1>1, <2>3
    <3>1. CASE stage = "error"
      <4>1. Upload!rowErrorStage(i) = uploadError.stage /\ uploadError.stage \in Upload!Working
        <5>1. uploadError.stage \in Upload!Working /\ uploadError.batch = i
          BY <2>3, <3>1 DEF UploadInv, FilesStored
        <5>2. uploadError # Upload!NoError BY <5>1 DEF Upload!NoError, Upload!Working
        <5>3. QED BY <5>1, <5>2 DEF Upload!rowErrorStage
      <4>2. QED BY <2>3, <3>0, <3>1, <4>1
                DEF Upload!RegisterRow, Upload!CertifyRow, Upload!Working, UploadInv, LandedNow
    <3>2. CASE stage # "error"
      <4>1. Upload!rowErrorStage(i) = "none"
        BY <3>2 DEF Upload!rowErrorStage, UploadInv, FilesStored
      <4>2. CASE stage \in {"encoding", "awaiting-register"}
        BY <2>3, <3>0, <4>1, <4>2 DEF Upload!RegisterRow, Upload!CertifyRow, UploadInv, LandedNow
      <4>3. CASE stage \in {"relay-upload", "awaiting-certify", "done"}
        <5>1. /\ <<"register", i>> \in landed /\ Len(txDigests) = i + 1 /\ txDigests[i + 1] = i
              /\ txDigests \in Seq(Nat)
          BY <2>3, <4>3 DEF UploadInv, UploadTyped, LandedNow
        <5>2. i + 1 \in DOMAIN txDigests BY <5>1
        <5>3. Upload!RegisterRow(i) = "done"
          BY <3>0, <4>1, <4>3 DEF Upload!RegisterRow
        <5>4. /\ Upload!CertifyRow(i) = "done" => stage = "done"
              /\ Upload!CertifyRow(i) = "pending" => stage = "relay-upload"
          BY <3>0, <4>1, <4>3 DEF Upload!CertifyRow
        <5>5. QED BY <2>3, <4>3, <5>1, <5>2, <5>3, <5>4 DEF UploadInv, LandedNow
      <4>4. QED BY <1>2, <3>2, <4>2, <4>3 DEF Upload!Working
    <3>3. QED BY <3>1, <3>2
  <2>4. QED BY <1>1, <2>1, <2>2, <2>3
<1>5. \A i \in 0..Upload!OrphansShown - 1 : <<"certify", i>> \in landed
  <2>1. CASE stage = "error"
    <3>1. Upload!OrphansShown = q BY <2>1 DEF Upload!OrphansShown, UploadInv, FilesStored
    <3>2. \A i \in 0..q - 1 : i \in Nat /\ i < q BY <1>1
    <3>3. QED BY <1>3, <3>1, <3>2
  <2>2. CASE stage # "error"
    BY <2>2 DEF Upload!OrphansShown
  <2>3. QED BY <2>1, <2>2
<1>6. \A i \in 0..batchTotal - 1 : i \in Nat BY <1>1
<1>7. QED BY <1>4, <1>5, <1>6 DEF Upload!PanelIsHonest

LEMMA DeathHolds == UploadInv => Upload!DeathIsTold
  BY DEF UploadInv, TrailInv, TrailNames, Upload!DeathIsTold, Upload!Last

LEMMA Limits ==
  /\ MaxEntries \in Nat \ {0}
  /\ \A plan \in Plans : plan[1] \in Nat \ {0} /\ plan[2] \in Nat \ {0}
  BY StorefrontAssumption DEF Upload!UploadAssumption

(* A trail that is written ends with what was written last.                *)
LEMMA Writing ==
    ASSUME NEW crumbs \in Seq(Crumbs), crumbs # <<>>, trail \in Seq(Crumbs), Upload!Write(crumbs)
    PROVE  /\ trail' \in Seq(Crumbs) /\ stored' = trail' /\ stored' # <<>>
           /\ stored'[Len(stored')] = crumbs[Len(crumbs)]
<1> DEFINE t == trail \o crumbs
<1>1. t \in Seq(Crumbs) /\ Len(t) > 0 /\ t[Len(t)] = crumbs[Len(crumbs)]
  <2>1. Len(crumbs) \in Nat \ {0} BY EmptySeq
  <2>2. QED BY <2>1
<1>2. trail' = Upload!NewestOf(t) /\ stored' = trail' BY DEF Upload!Write
<1> HIDE DEF t
<1>3. CASE Len(t) > MaxEntries
  <2>1. trail' = SubSeq(t, Len(t) - MaxEntries + 1, Len(t)) BY <1>2, <1>3 DEF Upload!NewestOf
  <2>2. MaxEntries \in Nat /\ MaxEntries >= 1 BY Limits
  <2>3. Len(t) \in Nat BY <1>1
  <2>4. /\ trail' \in Seq(Crumbs) /\ Len(trail') = MaxEntries
        /\ trail'[MaxEntries] = t[Len(t)]
    <3>1. /\ Len(t) - MaxEntries + 1 \in 1..Len(t) + 1
          /\ Len(t) \in Len(t) - MaxEntries + 1 - 1..Len(t)
      BY <1>3, <2>2, <2>3
    <3>2. /\ SubSeq(t, Len(t) - MaxEntries + 1, Len(t)) \in Seq(Crumbs)
          /\ Len(SubSeq(t, Len(t) - MaxEntries + 1, Len(t))) = Len(t) - (Len(t) - MaxEntries + 1) + 1
          /\ \A i \in 1..(Len(t) - (Len(t) - MaxEntries + 1) + 1) :
               SubSeq(t, Len(t) - MaxEntries + 1, Len(t))[i] = t[Len(t) - MaxEntries + 1 + i - 1]
      BY <1>1, <3>1, SubSeqProperties
    <3>3. Len(t) - (Len(t) - MaxEntries + 1) + 1 = MaxEntries
          /\ Len(t) - MaxEntries + 1 + MaxEntries - 1 = Len(t) /\ MaxEntries \in 1..MaxEntries
      BY <2>2, <2>3
    <3>4. QED BY <2>1, <3>2, <3>3
  <2>5. trail' # <<>> BY <2>2, <2>4
  <2>6. QED BY <1>1, <1>2, <2>4, <2>5
<1>4. CASE ~(Len(t) > MaxEntries)
  <2>1. trail' = t BY <1>2, <1>4 DEF Upload!NewestOf
  <2>2. QED BY <1>1, <1>2, <2>1
<1>5. QED BY <1>3, <1>4

LEMMA IsCrumb ==
    ASSUME NEW at \in {"pre", "post", "retry"}, NEW step \in Stages \cup {"of another"}, NEW q \in Nat
    PROVE  /\ Upload!Crumb(at, step, q) \in Crumbs /\ Upload!Crumb(at, step, q).at = at
           /\ Upload!Crumb(at, step, q).step = step /\ Upload!Crumb(at, step, q).quilt = q
  BY DEF Crumbs, Upload!Crumb

(* An upload that goes on writes the step it enters.                       *)
LEMMA TrailGoesOn ==
    ASSUME UploadTyped, TrailInv, surfaced,
           NEW crumbs \in Seq(Crumbs), crumbs # <<>>, Upload!writeDiag(run, crumbs),
           run.step # "none", run'.step # "none", run'.kind = run.kind,
           crumbs[Len(crumbs)].quilt = run'.quilt,
           IF run'.step = "listing"
           THEN crumbs[Len(crumbs)].at = "post" /\ crumbs[Len(crumbs)].step = "awaiting-certify"
           ELSE crumbs[Len(crumbs)].at \in {"pre", "retry"} /\ crumbs[Len(crumbs)].step = run'.step
    PROVE  TrailInv' /\ trail' \in Seq(Crumbs) /\ stored' = trail' /\ behind' \in Nat
<1>1. UNCHANGED <<surfaced, behind, shared, died>> BY DEF Upload!writeDiag
<1>2. CASE run.kind = "files"
  <2>1. Upload!Write(crumbs) BY <1>2 DEF Upload!writeDiag
  <2>2. /\ trail' \in Seq(Crumbs) /\ stored' = trail' /\ stored' # <<>>
        /\ stored'[Len(stored')] = crumbs[Len(crumbs)]
    BY <2>1, Writing DEF UploadTyped
  <2>3. TrailNames(run.step, run.quilt)' BY <2>2 DEF TrailNames
  <2>4. FilesRun' BY <1>2 DEF FilesRun
  <2>5. QED BY <1>1, <2>2, <2>3, <2>4 DEF TrailInv, UploadTyped
<1>3. CASE run.kind # "files"
  <2>1. UNCHANGED <<trail, stored>> BY <1>3 DEF Upload!writeDiag
  <2>2. ~FilesRun /\ ~FilesRun' BY <1>3 DEF FilesRun
  <2>3. QED BY <1>1, <2>1, <2>2 DEF TrailInv, UploadTyped
<1>4. QED BY <1>2, <1>3

LEMMA TrailEnds ==
    ASSUME UploadTyped, TrailInv, surfaced, Upload!clearTrail(run), run'.step = "none"
    PROVE  TrailInv' /\ trail' \in Seq(Crumbs) /\ stored' = trail' /\ behind' \in Nat
<1>1. UNCHANGED <<surfaced, behind, shared, died>> BY DEF Upload!clearTrail
<1>2. ~FilesRun' BY DEF FilesRun
<1>3. CASE run.kind = "files"
  BY <1>1, <1>2, <1>3 DEF Upload!clearTrail, TrailInv, UploadTyped
<1>4. CASE run.kind # "files"
  <2>1. ~FilesRun BY <1>4 DEF FilesRun
  <2>2. QED BY <1>1, <1>2, <1>4, <2>1 DEF Upload!clearTrail, TrailInv, UploadTyped
<1>5. QED BY <1>3, <1>4

(* What runs is in a page that has told of the last one, at its stage.     *)
LEMMA RunsAtItsStage ==
    ASSUME UploadInv, run.step # "none"
    PROVE  /\ surfaced /\ run.step \in Steps
           /\ run.kind = "files" => /\ stage \in Upload!Working /\ uploadError = Upload!NoError
                                    /\ run.step = stage \/ (run.step = "listing"
                                                            /\ stage = "awaiting-certify")
<1>1. surfaced BY DEF UploadInv, TrailInv
<1>2. run.step \in Steps BY DEF UploadInv, UploadTyped
<1>3. ASSUME run.kind = "files" PROVE stage \notin {"done", "error"}
  BY <1>3 DEF UploadInv, FilesStored
<1>4. ASSUME run.kind = "files", run.step # "listing" PROVE run.step = stage
  BY <1>3, <1>4 DEF UploadInv, FilesStored
<1>5. ASSUME run.kind = "files", run.step = "listing" PROVE stage = "awaiting-certify"
  BY <1>5 DEF UploadInv, FilesStored
<1>6. ASSUME run.kind = "files" PROVE stage \in Upload!Working
  <2>1. CASE run.step = "listing" BY <1>5, <1>6, <2>1 DEF Upload!Working
  <2>2. CASE run.step # "listing" BY <1>2, <1>4, <1>6, <2>2 DEF Upload!Working, Steps
  <2>3. QED BY <2>1, <2>2
<1>7. ASSUME run.kind = "files" PROVE uploadError = Upload!NoError
  BY <1>3, <1>7 DEF UploadInv, FilesStored
<1>8. QED BY <1>1, <1>2, <1>4, <1>5, <1>6, <1>7

LEMMA Throwing ==
    ASSUME UploadInv, run.step # "none", Upload!Throw,
           \/ landed' = landed
           \/ run.step = "awaiting-register" /\ landed' = landed \cup {<<"register", run.quilt>>}
           \/ run.step = "awaiting-certify" /\ landed' = landed \cup {<<"certify", run.quilt>>}
    PROVE  UploadInv'
<1>1. /\ uploadError' = [stage |-> stage, batch |-> run.quilt] /\ stage' = "error"
      /\ run' = [run EXCEPT !.step = "none"] /\ Upload!clearTrail(run)
      /\ UNCHANGED <<batchIndex, batchTotal, txDigests, returned>>
  BY DEF Upload!Throw
<1>2. /\ run'.kind = run.kind /\ run'.quilt = run.quilt /\ run'.step = "none"
      /\ run' = [kind |-> run'.kind, files |-> run'.files, size |-> run'.size, quilt |-> run'.quilt,
                 step |-> run'.step, tries |-> run'.tries, ids |-> run'.ids]
  BY <1>1 DEF UploadInv, UploadTyped
<1>3. surfaced BY RunsAtItsStage
<1>4. TrailInv' /\ trail' \in Seq(Crumbs) /\ stored' = trail' /\ behind' \in Nat
  BY <1>1, <1>2, <1>3, TrailEnds DEF UploadInv
<1>5. UploadTyped'
  <2>1. /\ run'.quilt \in Nat /\ run'.step \in Steps \cup {"none"} /\ run'.kind \in {"none", "files", "blob"}
        /\ txDigests' \in Seq(Nat) /\ batchTotal' \in Int
    BY <1>1, <1>2 DEF UploadInv, UploadTyped
  <2>2. stage' \in Stages BY <1>1 DEF Stages
  <2>3. QED BY <1>2, <1>4, <2>1, <2>2 DEF UploadTyped
<1>6. FilesStored'
  BY <1>1, <1>2, RunsAtItsStage DEF UploadInv, FilesStored
<1>7. LandedSoFar'
  BY <1>1, <1>2 DEF UploadInv, UploadTyped, LandedSoFar
<1>8. LandedNow'
  <2> SUFFICES ASSUME run.kind = "files" PROVE LandedNow'
    BY <1>2 DEF LandedNow
  <2>1. uploadError'.stage = stage BY <1>1
  <2>2. /\ stage \in Upload!Working
        /\ run.step = stage \/ (run.step = "listing" /\ stage = "awaiting-certify")
    BY RunsAtItsStage
  <2>3. stage # "awaiting-certify" => <<"certify", run.quilt>> \notin landed'
    BY <2>2 DEF UploadInv, LandedNow, Upload!Working
  <2>4. stage = "encoding" => <<"register", run.quilt>> \notin landed'
    BY <2>2 DEF UploadInv, LandedNow, Upload!Working
  <2>5. stage \in {"relay-upload", "awaiting-certify"} =>
          /\ <<"register", run.quilt>> \in landed'
          /\ run.quilt + 1 \in DOMAIN txDigests /\ txDigests[run.quilt + 1] = run.quilt
    BY DEF UploadInv, LandedNow, UploadTyped
  <2>6. QED BY <1>1, <1>2, <2>1, <2>3, <2>4, <2>5 DEF LandedNow
<1>9. QED BY <1>4, <1>5, <1>6, <1>7, <1>8 DEF UploadInv

LEMMA UploadInit == Upload!Init => UploadInv
<1> SUFFICES ASSUME Upload!Init PROVE UploadInv
  OBVIOUS
<1> USE DEF Upload!Init, Upload!NoRun
<1>1. UploadTyped BY DEF UploadTyped, Stages, Steps
<1>2. FilesStored /\ LandedSoFar /\ LandedNow BY DEF FilesStored, LandedSoFar, LandedNow
<1>3. TrailInv BY DEF TrailInv, Upload!NoDeath
<1>4. QED BY <1>1, <1>2, <1>3 DEF UploadInv

(* Nothing runs: no run, or one that ended, begins nothing on the trail.   *)
LEMMA Resting ==
    ASSUME UploadInv, Upload!Idle, NEW crumbs \in Seq(Crumbs), trail' = crumbs, stored' = crumbs,
           behind' \in Nat, TrailInv'
    PROVE  UploadInv'
<1>1. /\ stage' = "idle" /\ batchTotal' = 1 /\ txDigests' = <<>> /\ run' = Upload!NoRun
  BY DEF Upload!Idle
<1>2. run'.kind = "none" /\ run'.step = "none" /\ run'.quilt = 0
  BY <1>1 DEF Upload!NoRun
<1>3. run' = [kind |-> run'.kind, files |-> run'.files, size |-> run'.size, quilt |-> run'.quilt,
              step |-> run'.step, tries |-> run'.tries, ids |-> run'.ids]
  BY <1>1 DEF Upload!NoRun
<1>4. UploadTyped' BY <1>1, <1>2, <1>3 DEF UploadTyped, Stages
<1>5. FilesStored' /\ LandedSoFar' /\ LandedNow' BY <1>2 DEF FilesStored, LandedSoFar, LandedNow
<1>6. QED BY <1>4, <1>5 DEF UploadInv

(* What does not touch the upload under way.                               *)
LEMMA Beside ==
    ASSUME UploadInv, UNCHANGED Upload!hookVars, UNCHANGED Upload!runVars,
           TrailInv', trail' \in Seq(Crumbs), stored' = trail', behind' \in Nat
    PROVE  UploadInv'
<1>1. UNCHANGED <<stage, batchIndex, batchTotal, txDigests, uploadError, run, landed, returned>>
  BY DEF Upload!hookVars, Upload!runVars
<1>2. UploadTyped' BY <1>1 DEF UploadInv, UploadTyped
<1>3. FilesStored' /\ LandedSoFar' /\ LandedNow'
  BY <1>1 DEF UploadInv, FilesStored, LandedSoFar, LandedNow
<1>4. QED BY <1>2, <1>3 DEF UploadInv

(* An upload enters its next step.                                         *)
LEMMA Entering ==
    ASSUME UploadInv, run.step # "none", NEW next \in Upload!Working, next # "encoding",
           Upload!Enter(next),
           UNCHANGED <<batchIndex, batchTotal, uploadError>>,
           next = "awaiting-register" =>
             run.step = "encoding" /\ UNCHANGED <<landed, txDigests>>,
           next = "relay-upload" =>
             /\ run.step = "awaiting-register" /\ landed' = landed \cup {<<"register", run.quilt>>}
             /\ txDigests' = IF run.kind = "files" THEN Append(txDigests, run.quilt) ELSE txDigests,
           next = "awaiting-certify" =>
             run.step = "relay-upload" /\ UNCHANGED <<landed, txDigests>>
    PROVE  UploadInv'
<1>1. /\ run' = [run EXCEPT !.step = next] /\ stage' = next
      /\ Upload!writeDiag(run, <<Upload!Crumb("post", stage, run.quilt),
                                 Upload!Crumb("pre", next, run.quilt)>>)
  BY DEF Upload!Enter
<1>2. /\ run'.kind = run.kind /\ run'.quilt = run.quilt /\ run'.step = next
      /\ run' = [kind |-> run'.kind, files |-> run'.files, size |-> run'.size, quilt |-> run'.quilt,
                 step |-> run'.step, tries |-> run'.tries, ids |-> run'.ids]
  BY <1>1 DEF UploadInv, UploadTyped
<1>3. next \in {"awaiting-register", "relay-upload", "awaiting-certify"} BY DEF Upload!Working
<1>4. surfaced BY RunsAtItsStage
<1>5. TrailInv' /\ trail' \in Seq(Crumbs) /\ stored' = trail' /\ behind' \in Nat
  <2> DEFINE c1 == Upload!Crumb("post", stage, run.quilt)
             c2 == Upload!Crumb("pre", next, run.quilt)
  <2>1. stage \in Stages /\ next \in Stages /\ run.quilt \in Nat
    BY <1>3 DEF UploadInv, UploadTyped, Stages
  <2>2. c1 \in Crumbs /\ c2 \in Crumbs /\ c2.at = "pre" /\ c2.step = next /\ c2.quilt = run.quilt
    <3>1. c1 \in Crumbs BY <2>1, IsCrumb
    <3>2. next \in Stages \cup {"of another"} BY <2>1
    <3>3. c2 \in Crumbs /\ c2.at = "pre" /\ c2.step = next /\ c2.quilt = run.quilt
      BY <2>1, <3>2 DEF Upload!Crumb, Crumbs
    <3>4. QED BY <3>1, <3>3
  <2> HIDE DEF c1, c2
  <2>3. <<c1, c2>> \in Seq(Crumbs) /\ <<c1, c2>> # <<>> /\ Len(<<c1, c2>>) = 2 /\ <<c1, c2>>[2] = c2
    BY <2>2
  <2>4. Upload!writeDiag(run, <<c1, c2>>) BY <1>1 DEF c1, c2
  <2>5. next # "listing" /\ next # "none" BY <1>3
  <2>6. QED BY <1>2, <1>4, <2>2, <2>3, <2>4, <2>5, TrailGoesOn DEF UploadInv
<1>6. txDigests' \in Seq(Nat)
  <2>1. txDigests \in Seq(Nat) /\ run.quilt \in Nat BY DEF UploadInv, UploadTyped
  <2>2. txDigests' = txDigests \/ txDigests' = Append(txDigests, run.quilt)
    <3>1. CASE next = "relay-upload" BY <3>1
    <3>2. CASE next # "relay-upload" BY <1>3, <3>2
    <3>3. QED BY <3>1, <3>2
  <2>3. QED BY <2>1, <2>2
<1>7. UploadTyped' BY <1>1, <1>2, <1>3, <1>5, <1>6 DEF UploadInv, UploadTyped, Stages, Steps
<1>8. FilesStored'
  <2> SUFFICES ASSUME run.kind = "files" PROVE FilesStored'
    BY <1>2 DEF FilesStored
  <2>1. stage' \notin {"done", "error"} /\ run'.step # "listing" /\ run'.step # "none" BY <1>1, <1>2, <1>3
  <2>2. uploadError' = Upload!NoError BY RunsAtItsStage
  <2>3. batchIndex' = run'.quilt BY <1>2 DEF UploadInv, FilesStored
  <2>4. QED BY <1>1, <1>2, <2>1, <2>2, <2>3 DEF FilesStored
<1>9. LandedSoFar' /\ LandedNow'
  <2> SUFFICES ASSUME run.kind = "files" PROVE LandedSoFar' /\ LandedNow'
    BY <1>2 DEF LandedNow, LandedSoFar
  <2>1. run.step = stage \/ run.step = "listing" BY RunsAtItsStage
  <2>2. run.quilt \in Nat /\ txDigests \in Seq(Nat) BY DEF UploadInv, UploadTyped
  <2>3. CASE next = "awaiting-register"
    BY <1>1, <1>2, <2>1, <2>3 DEF UploadInv, LandedSoFar, LandedNow
  <2>4. CASE next = "relay-upload"
    <3>1. stage = "awaiting-register" BY <2>1, <2>4
    <3>2. Len(txDigests) = run.quilt /\ <<"certify", run.quilt>> \notin landed
      BY <3>1 DEF UploadInv, LandedNow
    <3>3. landed' = landed \cup {<<"register", run.quilt>>} /\ txDigests' = Append(txDigests, run.quilt)
      BY <2>4
    <3>4. /\ Len(txDigests') = run.quilt + 1 /\ txDigests'[run.quilt + 1] = run.quilt
          /\ \A i \in DOMAIN txDigests : i \in DOMAIN txDigests' /\ txDigests'[i] = txDigests[i]
      BY <2>2, <3>2, <3>3
    <3>5. LandedSoFar' BY <1>2, <2>2, <3>3, <3>4 DEF UploadInv, LandedSoFar
    <3>6. LandedNow' BY <1>1, <1>2, <2>4, <3>2, <3>3, <3>4 DEF LandedNow
    <3>7. QED BY <3>5, <3>6
  <2>5. CASE next = "awaiting-certify"
    BY <1>1, <1>2, <2>1, <2>5 DEF UploadInv, LandedSoFar, LandedNow
  <2>6. QED BY <1>3, <2>3, <2>4, <2>5
<1>10. QED BY <1>5, <1>7, <1>8, <1>9 DEF UploadInv

LEMMA FilesBegin ==
    ASSUME NEW p1, NEW p2, NEW x,
           x = [Upload!NoRun EXCEPT !.kind = "files", !.files = p1, !.size = p2, !.step = "encoding"]
    PROVE  x = [kind |-> "files", files |-> p1, size |-> p2, quilt |-> 0,
                step |-> "encoding", tries |-> 0, ids |-> <<>>]
  BY DEF Upload!NoRun

LEMMA UploadStep == UploadInv /\ [Upload!Next]_(Upload!vars) => UploadInv'
<1> SUFFICES ASSUME UploadInv, [Upload!Next]_(Upload!vars) PROVE UploadInv'
  OBVIOUS
<1>0. run.quilt \in Nat /\ trail \in Seq(Crumbs) /\ stored = trail /\ behind \in Nat
  BY DEF UploadInv, UploadTyped
<1>1. CASE Upload!surfaceStaleTrail
  <2>1. /\ ~surfaced /\ surfaced' = TRUE /\ stored' = <<>> /\ trail' = <<>>
        /\ UNCHANGED Upload!hookVars /\ UNCHANGED Upload!runVars /\ behind' = behind
    BY <1>1 DEF Upload!surfaceStaleTrail
  <2>2. run.step = "none" /\ run' = run BY <2>1 DEF UploadInv, TrailInv, Upload!runVars
  <2>3. TrailInv' BY <2>1, <2>2 DEF TrailInv, FilesRun
  <2>4. QED BY <1>0, <2>1, <2>3, Beside
<1>2. ASSUME NEW plan \in Plans, Upload!uploadFiles(plan) PROVE UploadInv'
  <2> DEFINE r == [Upload!NoRun EXCEPT !.kind = "files", !.files = plan[1], !.size = plan[2],
                                       !.step = "encoding"]
             c == Upload!Crumb("pre", "encoding", 0)
  <2>1. /\ surfaced /\ run' = r /\ landed' = {} /\ stage' = "encoding" /\ batchIndex' = 0
        /\ batchTotal' = Upload!QuiltCount(r) /\ txDigests' = <<>> /\ uploadError' = Upload!NoError
        /\ Upload!Write(<<c, c>>) /\ shared' = (behind > 0) /\ UNCHANGED <<surfaced, behind, died>>
    BY <1>2 DEF Upload!uploadFiles
  <2>2. r = [kind |-> "files", files |-> plan[1], size |-> plan[2], quilt |-> 0,
             step |-> "encoding", tries |-> 0, ids |-> <<>>]
    BY FilesBegin
  <2>3. /\ run'.kind = "files" /\ run'.quilt = 0 /\ run'.step = "encoding"
        /\ run' = [kind |-> run'.kind, files |-> run'.files, size |-> run'.size,
                   quilt |-> run'.quilt, step |-> run'.step, tries |-> run'.tries, ids |-> run'.ids]
    BY <2>1, <2>2
  <2>4. batchTotal' \in Int
    BY <2>1, <2>2, Limits DEF Upload!QuiltCount
  <2>5. c \in Crumbs /\ c.at = "pre" /\ c.step = "encoding" /\ c.quilt = 0
    BY DEF Upload!Crumb, Crumbs, Stages
  <2> HIDE DEF c
  <2>6. <<c, c>> \in Seq(Crumbs) /\ <<c, c>> # <<>> /\ <<c, c>>[Len(<<c, c>>)] = c
    BY <2>5
  <2>7. /\ trail' \in Seq(Crumbs) /\ stored' = trail' /\ stored' # <<>> /\ stored'[Len(stored')] = c
    BY <1>0, <2>1, <2>6, Writing
  <2>8. TrailInv'
    <3>1. TrailNames(run.step, run.quilt)' BY <2>3, <2>5, <2>7 DEF TrailNames
    <3>2. FilesRun' BY <2>3 DEF FilesRun
    <3>3. QED BY <2>1, <3>1, <3>2 DEF TrailInv
  <2>9. UploadTyped' BY <1>0, <2>1, <2>3, <2>4, <2>7 DEF UploadTyped, Stages, Steps
  <2>10. FilesStored' BY <2>1, <2>3 DEF FilesStored
  <2>11. LandedSoFar' /\ LandedNow' BY <2>1, <2>3 DEF LandedSoFar, LandedNow
  <2>12. QED BY <2>8, <2>9, <2>10, <2>11 DEF UploadInv
<1>3. CASE Upload!uploadBlob
  <2>1. /\ surfaced /\ run.step = "none" /\ stage' = "encoding"
        /\ run' = [Upload!NoRun EXCEPT !.kind = "blob", !.files = 1, !.step = "encoding"]
        /\ UNCHANGED <<batchTotal, txDigests, trail, stored, surfaced, behind, shared, died>>
    BY <1>3 DEF Upload!uploadBlob, Upload!trailVars, Upload!Running
  <2>2. run' = [kind |-> "blob", files |-> 1, size |-> 1, quilt |-> 0,
                step |-> "encoding", tries |-> 0, ids |-> <<>>]
    BY <2>1 DEF Upload!NoRun
  <2>3. run'.kind = "blob" /\ run'.quilt = 0 /\ run'.step = "encoding"
        /\ run' = [kind |-> run'.kind, files |-> run'.files, size |-> run'.size,
                   quilt |-> run'.quilt, step |-> run'.step, tries |-> run'.tries, ids |-> run'.ids]
    BY <2>2
  <2>4. UploadTyped' BY <2>1, <2>3 DEF UploadInv, UploadTyped, Stages, Steps
  <2>5. TrailInv' BY <2>1, <2>3 DEF UploadInv, TrailInv, FilesRun
  <2>6. FilesStored' /\ LandedSoFar' /\ LandedNow' BY <2>3 DEF FilesStored, LandedSoFar, LandedNow
  <2>7. QED BY <2>4, <2>5, <2>6 DEF UploadInv
<1>4. CASE Upload!encode
  <2>1. run.step = "encoding" /\ landed' = landed BY <1>4 DEF Upload!encode
  <2>2. CASE Upload!Throw BY <2>1, <2>2, Throwing
  <2>3. CASE Upload!Enter("awaiting-register") /\ UNCHANGED <<batchIndex, batchTotal, txDigests, uploadError>>
    BY <2>1, <2>3, Entering DEF Upload!Working
  <2>4. QED BY <1>4, <2>2, <2>3 DEF Upload!encode
<1>5. CASE Upload!executeRegister
  <2>1. run.step = "awaiting-register" BY <1>5 DEF Upload!executeRegister
  <2>2. CASE Upload!Sign("register") /\ Upload!Throw
    <3>1. landed' = landed \/ landed' = landed \cup {<<"register", run.quilt>>}
      BY <2>2 DEF Upload!Sign
    <3>2. QED BY <2>1, <2>2, <3>1, Throwing
  <2>3. CASE /\ Upload!Signed("register") /\ Upload!Enter("relay-upload")
             /\ txDigests' = IF run.kind = "files" THEN Append(txDigests, run.quilt) ELSE txDigests
             /\ UNCHANGED <<batchIndex, batchTotal, uploadError>>
    <3>1. landed' = landed \cup {<<"register", run.quilt>>} BY <2>3 DEF Upload!Signed
    <3>2. QED BY <2>1, <2>3, <3>1, Entering DEF Upload!Working
  <2>4. QED BY <1>5, <2>2, <2>3 DEF Upload!executeRegister
<1>6. CASE Upload!upload
  <2>1. run.step = "relay-upload" /\ landed' = landed BY <1>6 DEF Upload!upload
  <2>2. CASE Upload!Throw BY <2>1, <2>2, Throwing
  <2>3. CASE Upload!Enter("awaiting-certify") /\ UNCHANGED <<batchIndex, batchTotal, txDigests, uploadError>>
    BY <2>1, <2>3, Entering DEF Upload!Working
  <2>4. CASE /\ run' = [run EXCEPT !.tries = @ + 1] /\ UNCHANGED Upload!hookVars
             /\ Upload!writeDiag(run, <<Upload!Crumb("retry", "relay-upload", run.quilt)>>)
    <3> DEFINE c == Upload!Crumb("retry", "relay-upload", run.quilt)
    <3>1. c \in Crumbs /\ c.at = "retry" /\ c.step = "relay-upload" /\ c.quilt = run.quilt
      BY <1>0 DEF Upload!Crumb, Crumbs, Stages
    <3>2. Upload!writeDiag(run, <<c>>) BY <2>4
    <3> HIDE DEF c
    <3>3. <<c>> \in Seq(Crumbs) /\ <<c>> # <<>> /\ <<c>>[Len(<<c>>)] = c BY <3>1
    <3>4. /\ run'.kind = run.kind /\ run'.quilt = run.quilt /\ run'.step = run.step
          /\ run' = [kind |-> run'.kind, files |-> run'.files, size |-> run'.size,
                     quilt |-> run'.quilt, step |-> run'.step, tries |-> run'.tries, ids |-> run'.ids]
      BY <2>4 DEF UploadInv, UploadTyped
    <3>5. surfaced BY <2>1, RunsAtItsStage
    <3>6. TrailInv' /\ trail' \in Seq(Crumbs) /\ stored' = trail' /\ behind' \in Nat
      BY <2>1, <3>1, <3>2, <3>3, <3>4, <3>5, TrailGoesOn DEF UploadInv
    <3>7. UNCHANGED <<stage, batchIndex, batchTotal, txDigests, uploadError>>
      BY <2>4 DEF Upload!hookVars
    <3>8. UploadTyped' BY <3>4, <3>6, <3>7 DEF UploadInv, UploadTyped
    <3>9. FilesStored' /\ LandedSoFar' /\ LandedNow'
      BY <2>1, <3>4, <3>7 DEF UploadInv, FilesStored, LandedSoFar, LandedNow
    <3>10. QED BY <3>6, <3>8, <3>9 DEF UploadInv
  <2>5. QED BY <1>6, <2>2, <2>3, <2>4 DEF Upload!upload
<1>7. ASSUME NEW ids, run.step # "none", Upload!Done(ids),
             run.kind = "files" => run.step = "listing" /\ landed' = landed
      PROVE  UploadInv'
  <2>1. /\ run' = [run EXCEPT !.step = "none", !.ids = ids] /\ stage' = "done"
        /\ Upload!clearTrail(run) /\ UNCHANGED <<batchIndex, batchTotal, txDigests, uploadError>>
    BY <1>7 DEF Upload!Done
  <2>2. /\ run'.kind = run.kind /\ run'.quilt = run.quilt /\ run'.step = "none"
        /\ run' = [kind |-> run'.kind, files |-> run'.files, size |-> run'.size,
                   quilt |-> run'.quilt, step |-> run'.step, tries |-> run'.tries, ids |-> run'.ids]
    BY <2>1 DEF UploadInv, UploadTyped
  <2>3. surfaced BY <1>7, RunsAtItsStage
  <2>4. TrailInv' /\ trail' \in Seq(Crumbs) /\ stored' = trail' /\ behind' \in Nat
    BY <2>1, <2>2, <2>3, TrailEnds DEF UploadInv
  <2>5. UploadTyped' BY <2>1, <2>2, <2>4 DEF UploadInv, UploadTyped, Stages
  <2>6. FilesStored'
    BY <1>7, <2>1, <2>2, RunsAtItsStage DEF UploadInv, FilesStored
  <2>7. LandedSoFar' /\ LandedNow'
    BY <1>7, <2>1, <2>2 DEF UploadInv, FilesStored, LandedSoFar, LandedNow
  <2>8. QED BY <2>4, <2>5, <2>6, <2>7 DEF UploadInv
<1>8. CASE Upload!executeCertify
  <2>1. run.step = "awaiting-certify" BY <1>8 DEF Upload!executeCertify
  <2>2. CASE Upload!Sign("certify") /\ Upload!Throw
    <3>1. landed' = landed \/ landed' = landed \cup {<<"certify", run.quilt>>}
      BY <2>2 DEF Upload!Sign
    <3>2. QED BY <2>1, <2>2, <3>1, Throwing
  <2>3. CASE run.kind = "blob" /\ Upload!Done(<<1>>)
    BY <1>7, <2>1, <2>3
  <2>4. CASE /\ run.kind = "files" /\ Upload!Signed("certify")
             /\ run' = [run EXCEPT !.step = "listing"] /\ UNCHANGED Upload!hookVars
             /\ Upload!writeDiag(run, <<Upload!Crumb("post", "awaiting-certify", run.quilt)>>)
    <3> DEFINE c == Upload!Crumb("post", "awaiting-certify", run.quilt)
    <3>1. c \in Crumbs /\ c.at = "post" /\ c.step = "awaiting-certify" /\ c.quilt = run.quilt
      BY <1>0 DEF Upload!Crumb, Crumbs, Stages
    <3>2. Upload!writeDiag(run, <<c>>) BY <2>4
    <3> HIDE DEF c
    <3>3. <<c>> \in Seq(Crumbs) /\ <<c>> # <<>> /\ <<c>>[Len(<<c>>)] = c BY <3>1
    <3>4. /\ run'.kind = run.kind /\ run'.quilt = run.quilt /\ run'.step = "listing"
          /\ run' = [kind |-> run'.kind, files |-> run'.files, size |-> run'.size,
                     quilt |-> run'.quilt, step |-> run'.step, tries |-> run'.tries, ids |-> run'.ids]
      BY <2>4 DEF UploadInv, UploadTyped
    <3>5. surfaced BY <2>1, RunsAtItsStage
    <3>6. TrailInv' /\ trail' \in Seq(Crumbs) /\ stored' = trail' /\ behind' \in Nat
      BY <2>1, <3>1, <3>2, <3>3, <3>4, <3>5, TrailGoesOn DEF UploadInv
    <3>7. UNCHANGED <<stage, batchIndex, batchTotal, txDigests, uploadError>>
          /\ landed' = landed \cup {<<"certify", run.quilt>>}
      BY <2>4 DEF Upload!hookVars, Upload!Signed
    <3>8. stage = "awaiting-certify" BY <2>1, <2>4, RunsAtItsStage
    <3>9. UploadTyped' BY <3>4, <3>6, <3>7 DEF UploadInv, UploadTyped, Steps
    <3>10. FilesStored'
      BY <3>4, <3>7, <3>8 DEF UploadInv, FilesStored
    <3>11. LandedSoFar' BY <1>0, <3>4, <3>7 DEF UploadInv, LandedSoFar
    <3>12. LandedNow' BY <2>4, <3>4, <3>7, <3>8 DEF UploadInv, LandedNow
    <3>13. QED BY <3>6, <3>9, <3>10, <3>11, <3>12 DEF UploadInv
  <2>5. QED BY <1>8, <2>2, <2>3, <2>4 DEF Upload!executeCertify
<1>9. CASE Upload!Collect
  <2> DEFINE ids == run.ids \o Upload!listFiles(run, run.quilt)
             q == run.quilt + 1
  <2>1. run.step = "listing" /\ landed' = landed BY <1>9 DEF Upload!Collect
  <2>2. CASE Upload!Throw BY <2>1, <2>2, Throwing
  <2>3. CASE Upload!Done(ids) BY <1>7, <2>1, <2>3
  <2>4. CASE /\ run' = [run EXCEPT !.quilt = q, !.step = "encoding", !.tries = 0, !.ids = ids]
             /\ batchIndex' = q /\ stage' = "encoding"
             /\ Upload!writeDiag(run, <<Upload!Crumb("pre", "encoding", q)>>)
             /\ UNCHANGED <<batchTotal, txDigests, uploadError>>
    <3> DEFINE c == Upload!Crumb("pre", "encoding", q)
    <3>1. c \in Crumbs /\ c.at = "pre" /\ c.step = "encoding" /\ c.quilt = q
      <4>1. q \in Nat BY <1>0
      <4>2. c = [at |-> "pre", step |-> "encoding", quilt |-> q] BY DEF Upload!Crumb
      <4> HIDE DEF c, q
      <4>3. QED BY <4>1, <4>2 DEF Crumbs, Stages
    <3>2. Upload!writeDiag(run, <<c>>) BY <2>4
    <3> HIDE DEF c
    <3>3. <<c>> \in Seq(Crumbs) /\ <<c>> # <<>> /\ <<c>>[Len(<<c>>)] = c BY <3>1
    <3> HIDE DEF ids
    <3>4. /\ run'.kind = run.kind /\ run'.quilt = q /\ run'.step = "encoding"
          /\ run' = [kind |-> run'.kind, files |-> run'.files, size |-> run'.size,
                     quilt |-> run'.quilt, step |-> run'.step, tries |-> run'.tries, ids |-> run'.ids]
      BY <2>4 DEF UploadInv, UploadTyped
    <3>5. surfaced BY <2>1, RunsAtItsStage
    <3>6. TrailInv' /\ trail' \in Seq(Crumbs) /\ stored' = trail' /\ behind' \in Nat
      BY <2>1, <3>1, <3>2, <3>3, <3>4, <3>5, TrailGoesOn DEF UploadInv
    <3>7. UploadTyped' BY <1>0, <2>4, <3>4, <3>6 DEF UploadInv, UploadTyped, Stages, Steps
    <3> SUFFICES ASSUME run.kind = "files" PROVE UploadInv'
      <4>1. CASE run.kind = "files" BY <4>1
      <4>2. CASE run.kind # "files"
        <5>1. run'.kind # "files" BY <3>4, <4>2
        <5>2. FilesStored' /\ LandedSoFar' /\ LandedNow'
          BY <5>1 DEF FilesStored, LandedSoFar, LandedNow
        <5>3. QED BY <3>6, <3>7, <5>2 DEF UploadInv
      <4>3. QED BY <4>1, <4>2
    <3>8. stage = "awaiting-certify" /\ uploadError = Upload!NoError BY <2>1, RunsAtItsStage
      DEF Upload!Working
    <3>9. FilesStored' BY <2>4, <3>4, <3>8 DEF FilesStored
    <3>10. /\ <<"register", run.quilt>> \in landed /\ <<"certify", run.quilt>> \in landed
           /\ Len(txDigests) = q /\ txDigests[q] = run.quilt /\ txDigests \in Seq(Nat)
      BY <2>1, <3>8 DEF UploadInv, UploadTyped, LandedNow
    <3>11. q \in DOMAIN txDigests BY <1>0, <3>10
    <3>12. LandedSoFar'
      <4>1. \A i \in Nat : i < q => i < run.quilt \/ i = run.quilt BY <1>0
      <4>2. \A i \in Nat : i > q => i > run.quilt BY <1>0
      <4>3. QED BY <2>1, <2>4, <3>4, <3>10, <3>11, <4>1, <4>2 DEF UploadInv, LandedSoFar
    <3>13. LandedNow'
      <4>1. <<"register", q>> \notin landed /\ <<"certify", q>> \notin landed
        BY <1>0 DEF UploadInv, LandedSoFar
      <4>2. QED BY <2>1, <2>4, <3>4, <3>10, <4>1 DEF LandedNow
    <3>14. QED BY <3>6, <3>7, <3>9, <3>12, <3>13 DEF UploadInv
  <2>5. QED BY <1>9, <2>2, <2>3, <2>4 DEF Upload!Collect
<1>10. CASE Upload!Leave
  <2>1. /\ surfaced /\ Upload!Idle /\ UNCHANGED <<trail, stored, surfaced, shared, died>>
        /\ behind' = (IF run.step # "none" /\ run.kind = "files" THEN behind + 1 ELSE behind)
    BY <1>10 DEF Upload!Leave, Upload!Running
  <2>2. run'.step = "none" BY <2>1 DEF Upload!Idle, Upload!NoRun
  <2>3. behind' \in Nat /\ (behind' = 0 => behind = 0 /\ ~FilesRun)
    BY <1>0, <2>1 DEF FilesRun
  <2>4. TrailInv' BY <2>1, <2>2, <2>3 DEF UploadInv, TrailInv, FilesRun
  <2>5. QED BY <1>0, <2>1, <2>3, <2>4, Resting
<1>11. CASE Upload!BehindWrites
  <2> DEFINE c == Upload!Crumb("pre", "of another", 0)
  <2>1. /\ behind > 0 /\ Upload!Write(<<c>>) /\ UNCHANGED Upload!hookVars
        /\ UNCHANGED Upload!runVars /\ UNCHANGED <<surfaced, behind, shared, died>>
    BY <1>11 DEF Upload!BehindWrites
  <2>2. c \in Crumbs BY DEF Upload!Crumb, Crumbs, Stages
  <2> HIDE DEF c
  <2>3. <<c>> \in Seq(Crumbs) /\ <<c>> # <<>> BY <2>2
  <2>4. trail' \in Seq(Crumbs) /\ stored' = trail' BY <1>0, <2>1, <2>3, Writing
  <2>5. surfaced BY <1>0, <2>1 DEF UploadInv, TrailInv
  <2>6. behind' # 0 BY <1>0, <2>1
  <2>7. TrailInv' BY <2>1, <2>5, <2>6 DEF TrailInv
  <2>8. QED BY <1>0, <2>1, <2>4, <2>7, Beside
<1>12. CASE Upload!BehindEnds
  <2>1. /\ behind > 0 /\ behind' = behind - 1 /\ trail' = <<>> /\ stored' = <<>>
        /\ shared' = (shared \/ Upload!Running) /\ UNCHANGED Upload!hookVars
        /\ UNCHANGED Upload!runVars /\ UNCHANGED <<surfaced, died>>
    BY <1>12 DEF Upload!BehindEnds
  <2>2. surfaced BY <1>0, <2>1 DEF UploadInv, TrailInv
  <2>3. FilesRun' => shared'
    <3>1. run' = run BY <2>1 DEF Upload!runVars
    <3>2. FilesRun' => Upload!Running BY <3>1 DEF FilesRun, Upload!Running
    <3>3. QED BY <2>1, <3>2
  <2>4. TrailInv' BY <2>1, <2>2, <2>3 DEF TrailInv
  <2>5. QED BY <1>0, <2>1, <2>4, Beside
<1>13. CASE Upload!PageDies
  <2>1. /\ behind' = 0 /\ shared' = FALSE /\ trail' = stored /\ surfaced' = FALSE /\ Upload!Idle
        /\ stored' = stored
    BY <1>13 DEF Upload!PageDies
  <2>2. run'.step = "none" BY <2>1 DEF Upload!Idle, Upload!NoRun
  <2>3. CASE ~surfaced
    <3>1. died' = died BY <1>13, <2>3 DEF Upload!PageDies
    <3>2. TrailInv' BY <2>1, <2>2, <2>3, <3>1 DEF UploadInv, TrailInv, TrailNames
    <3>3. QED BY <1>0, <2>1, <3>2, Resting
  <2>4. CASE surfaced
    <3>1. CASE FilesRun
      <4>1. died' = [step |-> run.step, quilt |-> run.quilt,
                     alone |-> behind = 0 /\ ~(Upload!Running /\ shared)]
        BY <1>13, <2>4, <3>1 DEF Upload!PageDies, Upload!NoDeath, FilesRun, Upload!Running
      <4>2. died'.step = run.step /\ died'.quilt = run.quilt /\ run.step # "none"
        BY <3>1, <4>1 DEF FilesRun
      <4>3. died'.alone => behind = 0 /\ ~shared
        BY <3>1, <4>1 DEF FilesRun, Upload!Running
      <4>4. died' # Upload!NoDeath BY <4>2 DEF Upload!NoDeath
      <4>5. died'.alone => TrailNames(died'.step, died'.quilt) /\ stored # <<>>
        BY <2>4, <3>1, <4>2, <4>3 DEF UploadInv, TrailInv, TrailNames
      <4>6. TrailInv' BY <2>1, <2>2, <4>4, <4>5 DEF TrailInv, TrailNames
      <4>7. QED BY <1>0, <2>1, <4>6, Resting
    <3>2. CASE ~FilesRun
      <4>1. died' = [step |-> "none", quilt |-> 0,
                     alone |-> behind = 0 /\ ~(Upload!Running /\ shared)]
        BY <1>13, <2>4, <3>2 DEF Upload!PageDies, Upload!NoDeath, FilesRun, Upload!Running
      <4>2. died'.alone => behind = 0 BY <4>1
      <4>3. died'.alone => died' = Upload!NoDeath BY <4>1 DEF Upload!NoDeath
      <4>4. died'.alone => stored = <<>> BY <2>4, <3>2, <4>2 DEF UploadInv, TrailInv
      <4>5. TrailInv' BY <2>1, <2>2, <4>3, <4>4 DEF TrailInv
      <4>6. QED BY <1>0, <2>1, <4>5, Resting
    <3>3. QED BY <3>1, <3>2
  <2>5. QED BY <2>3, <2>4
<1>14. CASE UNCHANGED Upload!vars
  <2>1. /\ UNCHANGED Upload!hookVars /\ UNCHANGED Upload!runVars
        /\ UNCHANGED <<trail, stored, surfaced, behind, shared, died>>
    BY <1>14 DEF Upload!vars, Upload!trailVars
  <2>2. TrailInv' BY <2>1 DEF UploadInv, TrailInv, TrailNames, FilesRun, Upload!runVars
  <2>3. QED BY <1>0, <2>1, <2>2, Beside
<1>15. QED
  BY <1>1, <1>2, <1>3, <1>4, <1>5, <1>6, <1>8, <1>9, <1>10, <1>11, <1>12, <1>13, <1>14
  DEF Upload!Next

(* The bake.  What was sent is what the names at hand made of the palettes,*)
(* until the next bake looks for names again.                              *)
RequestInv ==
  /\ request.from \in {"nobody", "page", "other"}
  /\ request.from = "nobody" => request.variants = <<>>
  /\ request.from = "page" /\ bakeStep # "names" =>
       request.variants = [v \in 1..Variants |-> Bake!PartColors(v, request.lacks)]
  /\ request.from = "other" => \E s \in OtherSpecs : request.variants = <<s>>

AnswerInv ==
  /\ bakeStep = "names" => answer # "ok"
  /\ answer = "ok" =>
       \A v \in DOMAIN request.variants : Bake!SwapError(base, request.variants[v]) = "ok"
  /\ bakeStep = "idle" /\ answer = "ok" /\ request.from = "page" =>
       glbs = [v \in DOMAIN request.variants |-> Bake!swapMaterial(base, request.variants[v])]

BakeInv ==
  /\ base \in Bases /\ names \in {<<>>, Bake!NamesOf(base)}
  /\ RequestInv /\ AnswerInv

LEMMA BakeInit == Bake!Init => BakeInv
  BY DEF Bake!Init, Bake!NoRequest, BakeInv, RequestInv, AnswerInv

LEMMA BakeStep == BakeInv /\ [Bake!Next]_(Bake!vars) => BakeInv'
<1> SUFFICES ASSUME BakeInv, [Bake!Next]_(Bake!vars) PROVE BakeInv'
  OBVIOUS
<1> USE DEF BakeInv, RequestInv, AnswerInv
(* The names and the request stay, and the answer or what it came to.      *)
<1>0. ASSUME UNCHANGED <<base, names, request>>,
             bakeStep = "names" => bakeStep' = "names",
             bakeStep' = "names" => answer' # "ok",
             answer' = "ok" =>
               \A v \in DOMAIN request.variants : Bake!SwapError(base, request.variants[v]) = "ok",
             bakeStep' = "idle" /\ answer' = "ok" /\ request.from = "page" =>
               glbs' = [v \in DOMAIN request.variants |-> Bake!swapMaterial(base, request.variants[v])]
      PROVE  BakeInv'
  <2>1. \A v : Bake!PartColors(v, request.lacks)' = Bake!PartColors(v, request.lacks)
    BY <1>0 DEF Bake!PartColors, Bake!nameKeyingApplies
  <2>2. QED BY <1>0, <2>1
<1>1. CASE Bake!Expire \/ Bake!SignIn \/ UNCHANGED Bake!vars
  <2>1. UNCHANGED <<base, names, request, bakeStep, answer, glbs>>
    BY <1>1 DEF Bake!Expire, Bake!SignIn, Bake!vars
  <2>2. QED BY <1>0, <2>1
<1>2. CASE Bake!runBuildVariants
  <2>1. /\ bakeStep' = "names" /\ answer' = "none" /\ UNCHANGED <<base, request>>
        /\ names' \in {Bake!NamesOf(base), <<>>}
    BY <1>2 DEF Bake!runBuildVariants
  <2>2. Bake!NamesOf(base)' = Bake!NamesOf(base) BY <2>1 DEF Bake!NamesOf
  <2>3. QED BY <2>1, <2>2
<1>3. CASE Bake!Post
  <2>1. /\ bakeStep = "names" /\ bakeStep' = "sent" /\ UNCHANGED <<base, names, answer>>
    BY <1>3 DEF Bake!Post
  <2>2. PICK lacks \in SUBSET Incomplete :
          request' = [from |-> "page", variants |-> [v \in 1..Variants |-> Bake!PartColors(v, lacks)],
                      lacks |-> lacks, encryptedBase |-> FALSE]
    BY <1>3 DEF Bake!Post
  <2>3. \A v : Bake!PartColors(v, lacks)' = Bake!PartColors(v, lacks)
    BY <2>1 DEF Bake!PartColors, Bake!nameKeyingApplies
  <2>4. request'.variants = [v \in 1..Variants |-> Bake!PartColors(v, lacks)'] BY <2>2, <2>3
  <2>5. request'.from = "page" /\ request'.lacks = lacks BY <2>2
  <2>6. answer' # "ok" BY <2>1
  <2>7. QED BY <2>1, <2>4, <2>5, <2>6
<1>4. CASE Bake!OtherPosts
  <2>1. bakeStep' = "sent" /\ answer' = "none" /\ UNCHANGED <<base, names>>
    BY <1>4 DEF Bake!OtherPosts
  <2>2. PICK s \in OtherSpecs, e \in BOOLEAN :
          request' = [from |-> "other", variants |-> <<s>>, lacks |-> {}, encryptedBase |-> e]
    BY <1>4 DEF Bake!OtherPosts
  <2>3. QED BY <2>1, <2>2
<1>5. CASE Bake!Refuse
  <2>1. bakeStep' = "answered" /\ answer' # "ok" /\ bakeStep # "names" /\ UNCHANGED <<base, names, request>>
    BY <1>5 DEF Bake!Refuse, Bake!Reply
  <2>2. QED BY <1>0, <2>1
<1>6. CASE Bake!Authorized
  <2>1. bakeStep' \in {"cap", "bake"} /\ bakeStep # "names" /\ UNCHANGED <<base, names, request, answer>>
    BY <1>6 DEF Bake!Authorized
  <2>2. QED BY <1>0, <2>1
<1>7. CASE Bake!CheckCap
  <2>1. /\ bakeStep = "cap" /\ UNCHANGED <<base, names, request>>
        /\ \/ bakeStep' = "bake" /\ answer' = answer
           \/ bakeStep' = "answered" /\ answer' # "ok"
    BY <1>7 DEF Bake!CheckCap, Bake!Reply
  <2>2. QED BY <1>0, <2>1
<1>8. CASE Bake!Bake
  <2>1. bakeStep = "bake" /\ bakeStep' = "answered" /\ UNCHANGED <<base, names, request>>
    BY <1>8 DEF Bake!Bake, Bake!Reply
  <2>2. answer' = "ok" => Bake!Errors = {}
    BY <1>8 DEF Bake!Bake, Bake!Reply, Bake!Errors
  <2>3. Bake!Errors = {} =>
          \A v \in DOMAIN request.variants : Bake!SwapError(base, request.variants[v]) = "ok"
    BY DEF Bake!Errors
  <2>4. QED BY <1>0, <2>1, <2>2, <2>3
<1>9. CASE Bake!Receive
  <2>1. /\ bakeStep = "answered" /\ bakeStep' = "idle" /\ UNCHANGED <<base, names, request, answer>>
        /\ glbs' = IF request.from = "page" /\ answer = "ok"
                   THEN [v \in DOMAIN request.variants |-> Bake!swapMaterial(base, request.variants[v])]
                   ELSE glbs
    BY <1>9 DEF Bake!Receive
  <2>2. QED BY <1>0, <2>1
<1>10. QED BY <1>1, <1>2, <1>3, <1>4, <1>5, <1>6, <1>7, <1>8, <1>9 DEF Bake!Next

(* Sets of positions, and the last of one.                                 *)
LEMMA LastOne ==
    ASSUME NEW n \in Nat, NEW S \in SUBSET (1..n), S # {}
    PROVE  \E k \in S : \A j \in S : j <= k
<1> DEFINE T == {u \in Nat : \A j \in S : j <= u}
<1>1. T \in SUBSET Nat /\ n \in T OBVIOUS
<1>2. PICK x \in T : \A y \in T : <<y, x>> \notin OpToRel(<, Nat)
  <2>1. T # {} BY <1>1
  <2> HIDE DEF T
  <2>2. QED BY <1>1, <2>1, NatLessThanWellFounded, WFMin
<1>3. x \in Nat /\ \A j \in S : j \in 1..n /\ j <= x OBVIOUS
<1>4. x \in S
  <2> SUFFICES ASSUME x \notin S PROVE FALSE
    OBVIOUS
  <2>1. \A j \in S : j <= x - 1 BY <1>3
  <2>2. PICK j \in S : TRUE OBVIOUS
  <2>3. x - 1 \in Nat BY <1>3, <2>2
  <2>4. x - 1 \in T BY <2>1, <2>3
  <2>5. <<x - 1, x>> \in OpToRel(<, Nat) BY <1>3, <2>3 DEF OpToRel
  <2>6. QED BY <1>2, <2>4, <2>5
<1>5. QED BY <1>3, <1>4

LEMMA BakeCounts == \A S : Bake!Cardinality(S) = Cardinality(S)
  BY DEF Bake!Cardinality, Cardinality

LEMMA OneNamed ==
    ASSUME NEW b, b.materials \in Seq({b.materials[k] : k \in DOMAIN b.materials}), NEW n,
           Bake!Cardinality(Bake!Named(b, n)) = 1
    PROVE  \E m \in DOMAIN b.materials : Bake!Named(b, n) = {m}
<1> DEFINE S == Bake!Named(b, n)
<1>1. S \in SUBSET (DOMAIN b.materials) BY DEF Bake!Named
<1>2. DOMAIN b.materials = 1..Len(b.materials) /\ Len(b.materials) \in Nat OBVIOUS
<1>3. IsFiniteSet(DOMAIN b.materials) BY <1>2, FS_Interval
<1>4. IsFiniteSet(S) BY <1>1, <1>3, FS_Subset
<1>5. Cardinality(S) = 1 BY BakeCounts
<1> HIDE DEF S
<1>6. PICK m : S = {m} BY <1>4, <1>5, FS_Singleton
<1>7. QED BY <1>1, <1>6 DEF S

(* The labels and materials of a base, and the part each shows.            *)
LEMMA OfBases ==
    ASSUME base \in Bases
    PROVE  /\ Bake!IsList(base.materials) /\ Bake!IsList(base.labels)
           /\ base.parts \in Seq(0..Len(base.materials))
           /\ Len(base.labels) \in Nat /\ DOMAIN base.labels = 1..Len(base.labels)
           /\ Len(base.materials) \in Nat /\ DOMAIN base.materials = 1..Len(base.materials)
<1>1. /\ Bake!IsList(base.materials) /\ Bake!IsList(base.labels)
      /\ base.parts \in Seq(0..Len(base.materials))
  BY StorefrontAssumption DEF Bake!BakeAssumption
<1>2. Len(base.labels) \in Nat /\ DOMAIN base.labels = 1..Len(base.labels)
  BY <1>1 DEF Bake!IsList
<1>3. Len(base.materials) \in Nat /\ DOMAIN base.materials = 1..Len(base.materials)
  BY <1>1 DEF Bake!IsList
<1>4. QED BY <1>1, <1>2, <1>3

(* What any caller sends: a list of entries, each of a colour.             *)
LEMMA Sent ==
    ASSUME BakeInv, bakeStep # "names", NEW v \in DOMAIN request.variants
    PROVE  LET spec == request.variants[v]
           IN  /\ Len(spec) \in Nat /\ DOMAIN spec = 1..Len(spec)
               /\ \A k \in DOMAIN spec : spec[k].color # Bake!Kept
<1> DEFINE spec == request.variants[v]
<1>1. CASE request.from = "page"
  <2>1. v \in 1..Variants /\ spec = Bake!PartColors(v, request.lacks)
    BY <1>1 DEF BakeInv, RequestInv
  <2>2. v # 0 BY <2>1
  <2> HIDE DEF spec
  <2>3. CASE base.labels = <<>>
    <3>1. spec = <<[color |-> <<v, "primary">>, name |-> Unnamed]>>
      BY <2>1, <2>3 DEF Bake!PartColors
    <3>2. Len(spec) = 1 /\ DOMAIN spec = 1..1 /\ spec[1].color = <<v, "primary">> BY <3>1
    <3>3. <<v, "primary">> # Bake!Kept BY <2>2 DEF Bake!Kept
    <3>4. QED BY <3>2, <3>3 DEF spec
  <2>4. CASE base.labels # <<>>
    <3>1. spec = [k \in DOMAIN base.labels |->
                    [color |-> IF base.labels[k] \in request.lacks THEN Bake!Gray
                               ELSE <<v, base.labels[k]>>,
                     name |-> IF Bake!nameKeyingApplies THEN names[k] ELSE Unnamed]]
      BY <2>1, <2>4 DEF Bake!PartColors
    <3>2. DOMAIN base.labels = 1..Len(base.labels) /\ Len(base.labels) \in Nat
      BY OfBases DEF BakeInv
    <3>3. DOMAIN spec = 1..Len(base.labels) BY <3>1, <3>2
    <3>4. Len(spec) = Len(base.labels)
      <4> DEFINE R == {spec[k] : k \in DOMAIN spec}
                 n == Len(base.labels)
      <4>1. spec = [k \in 1..n |-> spec[k]] BY <3>1, <3>3
      <4>2. \A k \in 1..n : spec[k] \in R BY <3>3
      <4>3. n \in Nat BY <3>2
      <4> HIDE DEF R, n
      <4>4. spec \in [1..n -> R] BY <4>1, <4>2
      <4>5. spec \in Seq(R) /\ Len(spec) = n BY <4>3, <4>4
      <4>6. QED BY <4>5 DEF n
    <3>5. ASSUME NEW k \in DOMAIN spec PROVE spec[k].color # Bake!Kept
      <4>1. spec[k].color = Bake!Gray \/ spec[k].color = <<v, base.labels[k]>> BY <3>1
      <4>2. QED BY <2>2, <4>1 DEF Bake!Gray, Bake!Kept
    <3>6. QED BY <3>2, <3>3, <3>4, <3>5 DEF spec
  <2>5. QED BY <2>3, <2>4
<1>2. CASE request.from # "page"
  <2>1. PICK s \in OtherSpecs : request.variants = <<s>>
    <3>1. request.from # "nobody" BY DEF BakeInv, RequestInv
    <3>2. QED BY <1>2, <3>1 DEF BakeInv, RequestInv
  <2>2. v = 1 /\ spec = s BY <2>1
  <2>3. Bake!IsList(s) /\ \A k \in DOMAIN s : s[k].color # Bake!Kept
    BY StorefrontAssumption DEF Bake!BakeAssumption
  <2>4. Len(s) \in Nat /\ DOMAIN s = 1..Len(s) BY <2>3 DEF Bake!IsList
  <2>5. QED BY <2>2, <2>3, <2>4
<1>3. QED BY <1>1, <1>2

(* An accepted list of names names one material with each.                 *)
LEMMA Accepted ==
    ASSUME BakeInv, NEW spec, Bake!nameKeyed(spec), Bake!SwapError(base, spec) = "ok"
    PROVE  \A k \in DOMAIN spec : \E m \in DOMAIN base.materials :
             Bake!Named(base, spec[k].name) = {m}
<1> DEFINE bad == {k \in DOMAIN spec : Bake!Cardinality(Bake!Named(base, spec[k].name)) # 1}
<1>1. base.materials # <<>> BY DEF Bake!SwapError
<1>2. Bake!KeyError(base, spec) = "ok" BY <1>1 DEF Bake!SwapError
<1>3. bad = {} BY <1>2 DEF Bake!KeyError
<1>4. ASSUME NEW k \in DOMAIN spec
      PROVE  \E m \in DOMAIN base.materials : Bake!Named(base, spec[k].name) = {m}
  <2>1. Bake!Cardinality(Bake!Named(base, spec[k].name)) = 1 BY <1>3
  <2>2. base.materials \in Seq({base.materials[j] : j \in DOMAIN base.materials})
    BY OfBases DEF BakeInv, Bake!IsList
  <2>3. QED BY <2>1, <2>2, OneNamed
<1>5. QED BY <1>4

(* The entry that paints a material is one that names it.                  *)
LEMMA LastEntry ==
    ASSUME NEW spec, Len(spec) \in Nat, DOMAIN spec = 1..Len(spec), NEW m,
           \E k \in DOMAIN spec : spec[k].name = base.materials[m]
    PROVE  /\ Bake!LastEntryFor(base, spec, m) \in DOMAIN spec
           /\ spec[Bake!LastEntryFor(base, spec, m)].name = base.materials[m]
<1> DEFINE S == {k \in DOMAIN spec : spec[k].name = base.materials[m]}
<1>1. S \in SUBSET (1..Len(spec)) /\ S # {} OBVIOUS
<1>2. PICK k \in S : \A j \in S : j <= k
  <2> HIDE DEF S
  <2>1. QED BY <1>1, LastOne
<1>3. k \in DOMAIN spec /\ spec[k].name = base.materials[m]
      /\ \A j \in DOMAIN spec : spec[j].name = base.materials[m] => j <= k
  BY <1>2
<1>4. QED BY <1>3 DEF Bake!LastEntryFor

LEMMA PaintsHolds == BakeInv => Bake!PaintsWhatIsNamed
<1> SUFFICES ASSUME BakeInv, bakeStep = "answered", answer = "ok",
                    NEW v \in DOMAIN request.variants, Bake!nameKeyed(request.variants[v])
             PROVE  LET spec == request.variants[v]
                        painted == Bake!swapMaterial(base, spec)
                    IN  /\ \A k \in DOMAIN spec : \E m \in DOMAIN base.materials :
                             Bake!Named(base, spec[k].name) = {m} /\ painted[m] # Bake!Kept
                        /\ \A m \in DOMAIN base.materials :
                             painted[m] # Bake!Kept =>
                               \E k \in DOMAIN spec : spec[k].name = base.materials[m]
  BY DEF Bake!PaintsWhatIsNamed
<1> DEFINE spec == request.variants[v]
           painted == Bake!swapMaterial(base, spec)
<1>1. /\ Len(spec) \in Nat /\ DOMAIN spec = 1..Len(spec)
      /\ \A k \in DOMAIN spec : spec[k].color # Bake!Kept
  BY Sent
<1>2. Bake!SwapError(base, spec) = "ok" BY DEF BakeInv, AnswerInv
<1>3. \A k \in DOMAIN spec : \E m \in DOMAIN base.materials : Bake!Named(base, spec[k].name) = {m}
  BY <1>2, Accepted
<1>4. Bake!nameKeyed(spec) OBVIOUS
<1> HIDE DEF spec
<1>5. ASSUME NEW m \in DOMAIN base.materials
      PROVE  painted[m] = IF \E k \in DOMAIN spec : spec[k].name = base.materials[m]
                          THEN spec[Bake!LastEntryFor(base, spec, m)].color ELSE Bake!Kept
  BY <1>4 DEF Bake!swapMaterial
<1> HIDE DEF painted
<1>6. ASSUME NEW k \in DOMAIN spec
      PROVE  \E m \in DOMAIN base.materials :
               Bake!Named(base, spec[k].name) = {m} /\ painted[m] # Bake!Kept
  <2>1. PICK m \in DOMAIN base.materials : Bake!Named(base, spec[k].name) = {m} BY <1>3
  <2>2. spec[k].name = base.materials[m] BY <2>1 DEF Bake!Named
  <2>3. Bake!LastEntryFor(base, spec, m) \in DOMAIN spec BY <1>1, <2>2, LastEntry
  <2>4. painted[m] = spec[Bake!LastEntryFor(base, spec, m)].color BY <1>5, <2>2
  <2>5. painted[m] # Bake!Kept BY <1>1, <2>3, <2>4
  <2>6. QED BY <2>1, <2>5
<1>7. QED BY <1>5, <1>6 DEF spec, painted

(* Names that tell the parts apart are as many as the parts.               *)
LEMMA AllNamed ==
    ASSUME base \in Bases, names = Bake!NamesOf(base), Bake!PartsHaveNames(base)
    PROVE  Bake!allNamesUniqueNonEmpty(names)
<1> DEFINE n == Len(base.parts)
           S == {names[k] : k \in DOMAIN names}
<1>1. base.parts \in Seq(0..Len(base.materials)) BY OfBases
<1>2. n \in Nat /\ DOMAIN base.parts = 1..n BY <1>1
<1>3. names = [k \in 1..n |-> names[k]] BY <1>2 DEF Bake!NamesOf
<1> HIDE DEF n
<1>4. \A j, k \in 1..n : names[k] # Unnamed /\ (j # k => names[j] # names[k])
  BY <1>2 DEF Bake!PartsHaveNames
<1>5. DOMAIN names = 1..n BY <1>3
<1>6. names \in [1..n -> S] BY <1>3, <1>5
<1>7. names \in Bijection(1..n, S)
  BY <1>4, <1>5, <1>6 DEF Bijection, Injection, Surjection, IsInjective
<1>8. ExistsBijection(1..n, S) BY <1>7 DEF ExistsBijection
<1> HIDE DEF S
<1>9. Cardinality(S) = n BY <1>2, <1>8, FS_CountingElements
<1>10. names \in Seq(S) /\ Len(names) = n BY <1>2, <1>6
<1>11. Bake!Cardinality(S) = Len(names) BY <1>9, <1>10, BakeCounts
<1>12. QED BY <1>4, <1>5, <1>11 DEF S, Bake!allNamesUniqueNonEmpty

LEMMA BakedHolds == BakeInv => Bake!BakedAsDesigned
<1> SUFFICES ASSUME BakeInv, bakeStep = "idle", answer = "ok", request.from = "page",
                    base.labels # <<>>,
                    \/ /\ names # <<>> /\ Len(names) = Len(base.labels)
                       /\ Bake!PartsHaveNames(base)
                    \/ Bake!Aligned(base),
                    NEW v \in DOMAIN glbs, NEW k \in DOMAIN base.labels
             PROVE  glbs[v][base.parts[k]] = IF base.labels[k] \in request.lacks THEN Bake!Gray
                                             ELSE <<v, base.labels[k]>>
  BY DEF Bake!BakedAsDesigned
<1> DEFINE spec == request.variants[v]
           color == IF base.labels[k] \in request.lacks THEN Bake!Gray ELSE <<v, base.labels[k]>>
<1>1. /\ request.variants = [u \in 1..Variants |-> Bake!PartColors(u, request.lacks)]
      /\ glbs = [u \in DOMAIN request.variants |-> Bake!swapMaterial(base, request.variants[u])]
      /\ \A u \in DOMAIN request.variants : Bake!SwapError(base, request.variants[u]) = "ok"
  BY DEF BakeInv, RequestInv, AnswerInv
<1>2. /\ v \in DOMAIN request.variants /\ spec = Bake!PartColors(v, request.lacks)
      /\ glbs[v] = Bake!swapMaterial(base, spec) /\ Bake!SwapError(base, spec) = "ok"
  BY <1>1
<1>3. spec = [j \in DOMAIN base.labels |->
                [color |-> IF base.labels[j] \in request.lacks THEN Bake!Gray
                           ELSE <<v, base.labels[j]>>,
                 name |-> IF Bake!nameKeyingApplies THEN names[j] ELSE Unnamed]]
  BY <1>2 DEF Bake!PartColors
<1>4. /\ Len(spec) \in Nat /\ DOMAIN spec = 1..Len(spec) BY <1>2, Sent
<1>5. /\ Len(base.labels) \in Nat /\ DOMAIN base.labels = 1..Len(base.labels)
      /\ Len(base.materials) \in Nat /\ DOMAIN base.materials = 1..Len(base.materials)
      /\ base.parts \in Seq(0..Len(base.materials))
      /\ Bake!IsList(base.labels)
  BY OfBases DEF BakeInv
<1> HIDE DEF spec, color
<1>6. DOMAIN spec = DOMAIN base.labels /\ k \in DOMAIN spec /\ spec[k].color = color
  BY <1>3 DEF color
<1>7. base.labels # <<>> /\ 1 \in DOMAIN base.labels
  BY <1>5, EmptySeq
<1>8. names \in {<<>>, Bake!NamesOf(base)} BY DEF BakeInv
<1>9. CASE Bake!nameKeyingApplies
  <2>1. names = Bake!NamesOf(base) /\ Len(names) = Len(base.labels)
        /\ Bake!allNamesUniqueNonEmpty(names)
    <3>1. Len(names) = Len(base.labels) /\ Bake!allNamesUniqueNonEmpty(names)
      BY <1>9 DEF Bake!nameKeyingApplies
    <3>2. Len(base.labels) # 0 BY <1>5, <1>7
    <3>3. names # <<>> BY <3>1, <3>2
    <3>4. QED BY <1>8, <3>1, <3>3
  <2>2. /\ Len(base.parts) \in Nat /\ DOMAIN base.parts = 1..Len(base.parts)
        /\ DOMAIN names = DOMAIN base.parts /\ DOMAIN names = DOMAIN base.labels
    <3>1. Len(base.parts) \in Nat /\ DOMAIN base.parts = 1..Len(base.parts) BY <1>5
    <3>2. names = [j \in 1..Len(base.parts) |-> names[j]] BY <2>1, <3>1 DEF Bake!NamesOf
    <3>3. Len(names) = Len(base.parts)
      <4> DEFINE n == Len(base.parts)
                 R == {names[j] : j \in 1..n}
      <4>1. \A j \in 1..n : names[j] \in R OBVIOUS
      <4> HIDE DEF R, n
      <4>2. names \in [1..n -> R] BY <3>2, <4>1 DEF n
      <4>3. n \in Nat BY <3>1 DEF n
      <4>4. names \in Seq(R) /\ Len(names) = n BY <4>2, <4>3
      <4>5. QED BY <4>4 DEF n
    <3>4. QED BY <1>5, <2>1, <3>1, <3>2, <3>3
  <2>3. \A j \in DOMAIN spec : spec[j].name = names[j] /\ names[j] # Unnamed
    BY <1>3, <1>6, <1>9, <2>1, <2>2 DEF Bake!allNamesUniqueNonEmpty
  <2>4. Bake!nameKeyed(spec)
    BY <1>6, <2>3 DEF Bake!nameKeyed
  <2>5. \A j \in DOMAIN spec :
          /\ base.parts[j] \in DOMAIN base.materials
          /\ names[j] = base.materials[base.parts[j]]
    <3>1. \A j \in DOMAIN spec : base.parts[j] \in 0..Len(base.materials)
      BY <1>5, <1>6, <2>2
    <3>2. \A j \in DOMAIN spec : base.parts[j] # 0 /\ names[j] = base.materials[base.parts[j]]
      BY <1>6, <2>1, <2>2, <2>3 DEF Bake!NamesOf
    <3>3. QED BY <1>5, <3>1, <3>2
  <2>6. \A j \in DOMAIN spec : \E m \in DOMAIN base.materials : Bake!Named(base, spec[j].name) = {m}
    BY <1>2, <2>4, Accepted
  <2> DEFINE m == base.parts[k]
  <2>7. m \in DOMAIN base.materials /\ spec[k].name = base.materials[m] BY <1>6, <2>3, <2>5
  <2>8. \A j \in DOMAIN spec : spec[j].name = base.materials[m] => spec[j] = spec[k]
    <3> SUFFICES ASSUME NEW j \in DOMAIN spec, spec[j].name = base.materials[m] PROVE j = k
      OBVIOUS
    <3>1. CASE Bake!PartsHaveNames(base)
      <4>1. names[j] = names[k] BY <1>6, <2>3, <2>7
      <4>2. j \in DOMAIN base.parts /\ k \in DOMAIN base.parts BY <1>6, <2>2
      <4>3. QED BY <2>1, <3>1, <4>1, <4>2 DEF Bake!PartsHaveNames
    <3>2. CASE Bake!Aligned(base)
      <4>1. base.parts[j] = j /\ base.parts[k] = k
        <5>1. j \in DOMAIN base.parts /\ k \in DOMAIN base.parts BY <1>6, <2>2
        <5>2. base.parts = [i \in DOMAIN base.materials |-> i] BY <3>2 DEF Bake!Aligned
        <5>3. QED BY <5>1, <5>2
      <4>2. PICK i \in DOMAIN base.materials : Bake!Named(base, spec[j].name) = {i} BY <2>6
      <4>3. base.materials[j] = spec[j].name /\ base.materials[k] = spec[j].name
            /\ j \in DOMAIN base.materials /\ k \in DOMAIN base.materials
        BY <1>6, <2>3, <2>5, <2>7, <4>1
      <4>4. QED BY <4>2, <4>3 DEF Bake!Named
    <3>3. QED BY <3>1, <3>2
  <2> HIDE DEF m
  <2>9. /\ Bake!LastEntryFor(base, spec, m) \in DOMAIN spec
        /\ spec[Bake!LastEntryFor(base, spec, m)].name = base.materials[m]
    BY <1>4, <1>6, <2>7, LastEntry
  <2>10. glbs[v][m] = spec[Bake!LastEntryFor(base, spec, m)].color
    BY <1>2, <1>6, <2>4, <2>7 DEF Bake!swapMaterial
  <2>11. glbs[v][m] = color BY <1>6, <2>8, <2>9, <2>10
  <2>12. QED BY <2>11 DEF m, color
<1>10. CASE ~Bake!nameKeyingApplies
  <2>1. Bake!Aligned(base)
    <3> SUFFICES ASSUME names # <<>>, Len(names) = Len(base.labels), Bake!PartsHaveNames(base)
                 PROVE  FALSE
      OBVIOUS
    <3>1. names = Bake!NamesOf(base) BY <1>8
    <3>2. Bake!allNamesUniqueNonEmpty(names) BY <3>1, AllNamed DEF BakeInv
    <3>3. QED BY <1>10, <3>2 DEF Bake!nameKeyingApplies
  <2>2. ~Bake!nameKeyed(spec)
    <3>1. spec[1].name = Unnamed /\ 1 \in DOMAIN spec BY <1>3, <1>6, <1>7, <1>10
    <3>2. QED BY <3>1 DEF Bake!nameKeyed
  <2>3. Len(spec) = Len(base.materials) BY <1>2, <2>2 DEF Bake!SwapError
  <2>4. DOMAIN spec = DOMAIN base.materials BY <1>4, <1>5, <2>3
  <2>5. base.parts[k] = k
    BY <1>6, <2>1, <2>4 DEF Bake!Aligned
  <2>6. glbs[v][k] = spec[k].color
    BY <1>2, <1>6, <2>2, <2>4 DEF Bake!swapMaterial
  <2>7. QED BY <1>6, <2>5, <2>6 DEF color
<1>11. QED BY <1>9, <1>10

(* Together: what was baked is what was designed, and what the user is told*)
(* of is what was stored.                                                  *)
ArtInv == UploadInv /\ BakeInv

(* A baked mesh has on each part the colour its palette gives it, a name   *)
(* paints the one material that bears it or is refused (gltf-material-     *)
(* swap), a row of BatchProgressPanel reads done only if its transaction   *)
(* landed, and a trail found at load is of the upload the tab died in, for *)
(* every base, palette, batch size and length of the trail.                *)
THEOREM ArtArrivesAsMade == CatalogSpec => []ArtArrives
<1>1. CatalogInit => ArtInv BY UploadInit, BakeInit DEF CatalogInit, ArtInv
<1>2. ArtInv /\ [CatalogNext]_catalogVars => ArtInv'
  BY UploadStep, BakeStep, StorefrontSteps DEF ArtInv
<1>3. ArtInv => ArtArrives
  BY PanelHolds, DeathHolds, PaintsHolds, BakedHolds DEF ArtInv, ArtArrives
<1>4. QED BY <1>1, <1>2, <1>3, PTL DEF CatalogSpec

-----------------------------------------------------------------------------
(* Numbers: a set of them has a least one, and what holds of 0 and of      *)
(* every next number holds of all.                                         *)
LEMMA LeastOne ==
    ASSUME NEW T \in SUBSET Nat, T # {}
    PROVE  \E x \in T : \A y \in T : x <= y
<1>1. PICK x \in T : \A y \in T : <<y, x>> \notin OpToRel(<, Nat)
  BY NatLessThanWellFounded, WFMin
<1>2. ASSUME NEW y \in T PROVE x <= y
  <2>1. x \in Nat /\ y \in Nat OBVIOUS
  <2>2. ~(y < x) BY <1>1, <2>1 DEF OpToRel
  <2>3. QED BY <2>1, <2>2
<1>3. QED BY <1>2

LEMMA CountUp ==
    ASSUME NEW N \in Nat, NEW S, 0 \in S, \A n \in 0..N - 1 : n \in S => n + 1 \in S
    PROVE  0..N \subseteq S
<1> SUFFICES ASSUME (0..N) \ S # {} PROVE FALSE
  OBVIOUS
<1>1. (0..N) \ S \in SUBSET Nat OBVIOUS
<1>2. PICK x \in (0..N) \ S : \A y \in (0..N) \ S : x <= y BY <1>1, LeastOne
<1>3. x \in 1..N BY <1>2
<1>4. x - 1 \in 0..N - 1 /\ x - 1 \in S BY <1>2, <1>3
<1>5. QED BY <1>2, <1>3, <1>4

(* A finite set of numbers has a least and a greatest one.                 *)
LEMMA FiniteLeast ==
    ASSUME NEW S, IsFiniteSet(S), S # {}, S \subseteq Int
    PROVE  \E x \in S : \A y \in S : x <= y
<1> DEFINE Below(x) == {y \in S : y < x}
           sizes == {Cardinality(Below(x)) : x \in S}
<1>1. \A x \in S : IsFiniteSet(Below(x)) /\ Cardinality(Below(x)) \in Nat
  BY FS_Subset, FS_CardinalityType
<1>2. sizes \in SUBSET Nat /\ sizes # {} BY <1>1
<1>3. PICK n \in sizes : \A m \in sizes : n <= m BY <1>2, LeastOne
<1>4. PICK x \in S : n = Cardinality(Below(x)) OBVIOUS
<1>5. ASSUME NEW y \in S, y < x PROVE FALSE
  <2>0. x \in Int /\ y \in Int /\ \A z \in S : z \in Int OBVIOUS
  <2>1. /\ Below(y) \subseteq Below(x) /\ Below(y) \in SUBSET Below(x)
        /\ y \in Below(x) /\ y \notin Below(y)
    <3>1. ~(y < y) /\ \A z \in S : z < y => z < x BY <1>5, <2>0
    <3>2. QED BY <1>5, <3>1
  <2>2. Cardinality(Below(y)) <= Cardinality(Below(x))
        /\ (Cardinality(Below(x)) = Cardinality(Below(y)) => Below(x) = Below(y))
    BY <1>1, <2>1, FS_Subset
  <2>3. Cardinality(Below(x)) <= Cardinality(Below(y)) BY <1>3, <1>4
  <2>4. Cardinality(Below(x)) \in Nat /\ Cardinality(Below(y)) \in Nat BY <1>1
  <2> HIDE DEF Below
  <2>5. QED BY <2>1, <2>2, <2>3, <2>4
<1>6. \A y \in S : x <= y
  <2>1. \A y \in S : y \in Int /\ x \in Int /\ ~(y < x) BY <1>5
  <2>2. QED BY <2>1
<1>7. QED BY <1>6

(* Sorting.  The rank of an element, how many come before it, places the   *)
(* elements of a finite set one by one.                                    *)
Orders(R, S) ==
  /\ \A m \in S : <<m, m>> \notin R
  /\ \A l, m, n \in S : <<l, m>> \in R /\ <<m, n>> \in R => <<l, n>> \in R
  /\ \A m, n \in S : m = n \/ <<m, n>> \in R \/ <<n, m>> \in R

Rank(m, R, S) == Cardinality({n \in S : <<n, m>> \in R})

LEMMA Ranks ==
    ASSUME NEW S, IsFiniteSet(S), NEW R, Orders(R, S)
    PROVE  /\ Cardinality(S) \in Nat
           /\ \A m \in S : Rank(m, R, S) \in 0..(Cardinality(S) - 1)
           /\ \A k \in 0..(Cardinality(S) - 1) : \E m \in S : Rank(m, R, S) = k
           /\ \A m, n \in S : <<m, n>> \in R <=> Rank(m, R, S) < Rank(n, R, S)
           /\ \A m, n \in S : Rank(m, R, S) = Rank(n, R, S) => m = n
<1> DEFINE N == Cardinality(S)
           Before(m) == {n \in S : <<n, m>> \in R}
<1>1. N \in Nat BY FS_CardinalityType
<1>2. \A m \in S : /\ Before(m) \subseteq S /\ m \notin Before(m)
                   /\ IsFiniteSet(Before(m)) /\ Cardinality(Before(m)) \in Nat
  BY FS_Subset, FS_CardinalityType DEF Orders
<1>3. \A m \in S : Cardinality(Before(m)) \in 0..(N - 1)
  <2> SUFFICES ASSUME NEW m \in S PROVE Cardinality(Before(m)) \in 0..(N - 1)
    OBVIOUS
  <2>1. Before(m) \in SUBSET S /\ Before(m) # S BY <1>2
  <2>2. Cardinality(Before(m)) <= N /\ Cardinality(Before(m)) # N BY <2>1, FS_Subset
  <2>3. Cardinality(Before(m)) \in Nat BY <1>2
  <2> HIDE DEF Before, N
  <2>4. QED BY <1>1, <2>2, <2>3
<1>4. \A m, n \in S : <<m, n>> \in R => Cardinality(Before(m)) < Cardinality(Before(n))
  <2> SUFFICES ASSUME NEW m \in S, NEW n \in S, <<m, n>> \in R
               PROVE  Cardinality(Before(m)) < Cardinality(Before(n))
    OBVIOUS
  <2>1. Before(m) \in SUBSET Before(n) /\ m \in Before(n) /\ m \notin Before(m)
    BY DEF Orders
  <2>2. Before(m) # Before(n) BY <2>1
  <2>3. /\ IsFiniteSet(Before(n)) /\ Cardinality(Before(m)) \in Nat /\ Cardinality(Before(n)) \in Nat
    BY <1>2
  <2> HIDE DEF Before
  <2>4. Cardinality(Before(m)) <= Cardinality(Before(n)) /\ Cardinality(Before(m)) # Cardinality(Before(n))
    BY <2>1, <2>2, <2>3, FS_Subset
  <2>5. QED BY <2>3, <2>4
<1> DEFINE rank == [m \in S |-> Cardinality(Before(m))]
<1>5. \A m, n \in S : rank[m] = rank[n] => m = n
  <2> SUFFICES ASSUME NEW m \in S, NEW n \in S, rank[m] = rank[n], m # n PROVE FALSE
    OBVIOUS
  <2>1. <<m, n>> \in R \/ <<n, m>> \in R BY DEF Orders
  <2>2. rank[m] = Cardinality(Before(m)) /\ rank[n] = Cardinality(Before(n)) OBVIOUS
  <2>3. rank[m] < rank[n] \/ rank[n] < rank[m] BY <1>4, <2>1, <2>2
  <2>4. rank[m] \in Nat /\ rank[n] \in Nat BY <1>2, <2>2
  <2> HIDE DEF rank
  <2>5. QED BY <2>3, <2>4
<1>6. rank \in [S -> 0..(N - 1)] BY <1>3
<1>7. rank \in Injection(S, 0..(N - 1)) BY <1>5, <1>6 DEF Injection, IsInjective
<1>8. IsFiniteSet(0..(N - 1)) /\ Cardinality(0..(N - 1)) = N
  <2>1. 0 \in Int /\ N - 1 \in Int BY <1>1
  <2>2. IsFiniteSet(0..(N - 1)) /\ Cardinality(0..(N - 1)) = IF 0 > N - 1 THEN 0 ELSE (N - 1) - 0 + 1
    BY <2>1, FS_Interval
  <2> HIDE DEF N
  <2>3. QED BY <1>1, <2>2
<1>9. rank \in Surjection(S, 0..(N - 1)) BY <1>7, <1>8, FS_Injection
<1>10. \A k \in 0..(N - 1) : \E m \in S : rank[m] = k BY <1>9 DEF Surjection
<1>11. \A m \in S : rank[m] = Rank(m, R, S) BY DEF Rank
<1>12. \A m, n \in S : rank[m] < rank[n] => <<m, n>> \in R
  <2> SUFFICES ASSUME NEW m \in S, NEW n \in S, rank[m] < rank[n], <<m, n>> \notin R PROVE FALSE
    OBVIOUS
  <2>1. rank[m] \in Nat /\ rank[n] \in Nat BY <1>6, <1>3
  <2>2. m # n
    <3> HIDE DEF rank
    <3>1. QED BY <2>1
  <2>3. <<n, m>> \in R BY <2>2 DEF Orders
  <2>4. rank[n] < rank[m] BY <1>4, <2>3
  <2>5. QED BY <2>1, <2>4
<1>13. \A m, n \in S : <<m, n>> \in R => rank[m] < rank[n] BY <1>4
<1> HIDE DEF rank, Before
<1>14. QED BY <1>1, <1>5, <1>6, <1>10, <1>11, <1>12, <1>13

-----------------------------------------------------------------------------
(* The grid.  What is shown are models, and what a recall answered is one  *)
(* of its lists.                                                           *)
Lane == [chips : ChipLists \cup {<<>>}, status : {"idle", "loading", "ready", "empty"},
         degraded : BOOLEAN, due : BOOLEAN]

GridInv ==
  /\ onChain \subseteq Models /\ cache \subseteq Models /\ allModels \subseteq Models
  /\ \A r \in requests : r.answer = Browse!NotYet \/ r.answer \subseteq Models
  /\ lanes \in [Browse!Scopes -> Lane]

LEMMA GridInit == Browse!Init => GridInv
<1> SUFFICES ASSUME Browse!Init PROVE GridInv
  OBVIOUS
<1>1. Private \subseteq Models /\ Models \ Private # {}
  BY SMTT(30), StorefrontAssumption DEF Browse!CatalogAssumption
<1>2. (CHOOSE m \in Models \ Private : TRUE) \in Models BY <1>1
<1>3. onChain \subseteq Models /\ cache \subseteq Models /\ allModels \subseteq Models
  BY <1>1, <1>2 DEF Browse!Init
<1>4. \A r \in requests : r.answer = Browse!NotYet BY DEF Browse!Init
<1>5. Browse!Idle \in Lane BY DEF Browse!Idle, Lane
<1>6. lanes \in [Browse!Scopes -> Lane] BY <1>5 DEF Browse!Init
<1>7. QED BY <1>3, <1>4, <1>6 DEF GridInv

LEMMA Lanes ==
    ASSUME NEW lane \in Lane, NEW q, NEW signedIn
    PROVE  Browse!Recalled(lane, q, signedIn) \in Lane
<1>1. [Browse!Idle EXCEPT !.due = lane.due] \in Lane BY DEF Browse!Idle, Lane
<1>2. [lane EXCEPT !.status = "loading", !.degraded = FALSE, !.due = TRUE] \in Lane BY DEF Lane
<1>3. QED BY <1>1, <1>2 DEF Browse!Recalled

LEMMA GridStep == BrowseInv /\ GridInv /\ [Browse!Next]_(Browse!vars) => GridInv'
<1> SUFFICES ASSUME BrowseInv, GridInv, [Browse!Next]_(Browse!vars) PROVE GridInv'
  OBVIOUS
<1>0. UNCHANGED <<onChain, cache, allModels, requests, lanes>> => GridInv' BY DEF GridInv
<1>1. ASSUME NEW m \in Models, Browse!Publish(m) PROVE GridInv'
  BY <1>1 DEF GridInv, Browse!Publish, Browse!searchVars
<1>2. CASE Browse!refetch
  <2>1. \A r \in requests' : r \in requests \/ r.answer = Browse!NotYet BY <1>2 DEF Browse!refetch
  <2>2. UNCHANGED <<onChain, cache, allModels, lanes>> BY <1>2 DEF Browse!refetch, Browse!searchVars
  <2>3. QED BY <2>1, <2>2 DEF GridInv
<1>3. ASSUME NEW r \in requests, Browse!IndexReads(r) PROVE GridInv'
  <2>1. r = [ticket |-> r.ticket, answer |-> r.answer] BY DEF BrowseInv, Ticketed
  <2>2. [r EXCEPT !.answer = onChain].answer = onChain BY <2>1
  <2>3. \A q \in requests' : q \in requests \/ q.answer = onChain BY <1>3, <2>2 DEF Browse!IndexReads
  <2>4. UNCHANGED <<onChain, cache, allModels, lanes>>
    BY <1>3 DEF Browse!IndexReads, Browse!searchVars
  <2>5. QED BY <2>3, <2>4 DEF GridInv
<1>4. ASSUME NEW r \in requests, Browse!IndexAnswers(r) PROVE GridInv'
  <2>1. r.answer \subseteq Models BY <1>4 DEF Browse!IndexAnswers, GridInv
  <2>2. UNCHANGED <<onChain, lanes>> /\ requests' \subseteq requests
    BY <1>4 DEF Browse!IndexAnswers, Browse!searchVars
  <2>3. \/ allModels' = r.answer /\ cache' = r.answer
        \/ UNCHANGED <<allModels, cache>>
    BY <1>4 DEF Browse!IndexAnswers
  <2>4. QED BY <2>1, <2>2, <2>3 DEF GridInv
<1>5. ASSUME NEW r \in requests, Browse!IndexFails(r) PROVE GridInv'
  BY <1>5 DEF Browse!IndexFails, Browse!searchVars, GridInv
<1>6. ASSUME NEW q \in {"short", "long"}, Browse!setSearchQuery(q) PROVE GridInv'
  <2>1. lanes' \in [Browse!Scopes -> Lane]
    BY <1>6, Lanes DEF GridInv, Browse!setSearchQuery
  <2>2. QED BY <1>6, <2>1 DEF GridInv, Browse!setSearchQuery, Browse!indexVars
<1>7. ASSUME NEW a \in Browse!Viewers \cup {0}, Browse!SessionChanges(a) PROVE GridInv'
  <2>0. Browse!Idle \in Lane BY DEF Browse!Idle, Lane
  <2>1. lanes' \in [Browse!Scopes -> Lane]
    BY <1>7, <2>0, Lanes DEF GridInv, Browse!SessionChanges
  <2>2. QED BY <1>7, <2>1 DEF GridInv, Browse!SessionChanges, Browse!indexVars
<1>8. ASSUME NEW s \in Browse!Scopes, NEW chips \in ChipLists, NEW d \in BOOLEAN,
             Browse!LaneAnswers(s, chips, d)
      PROVE  GridInv'
  <2>1. [chips |-> chips, status |-> IF chips = <<>> THEN "empty" ELSE "ready",
         degraded |-> d, due |-> FALSE] \in Lane
    BY DEF Lane
  <2>2. lanes' \in [Browse!Scopes -> Lane] BY <1>8, <2>1 DEF GridInv, Browse!LaneAnswers
  <2>3. QED BY <1>8, <2>2 DEF GridInv, Browse!LaneAnswers, Browse!indexVars
<1>9. ASSUME NEW s \in Browse!Scopes, Browse!LaneFails(s) PROVE GridInv'
  <2>1. lanes[s] \in Lane BY DEF GridInv
  <2>2. lanes' \in [Browse!Scopes -> Lane] BY <1>9, <2>1 DEF GridInv, Browse!LaneFails, Lane
  <2>3. QED BY <1>9, <2>2 DEF GridInv, Browse!LaneFails, Browse!indexVars
<1>10. QED
  BY <1>0, <1>1, <1>2, <1>3, <1>4, <1>5, <1>6, <1>7, <1>8, <1>9
  DEF Browse!Next, Browse!vars, Browse!indexVars, Browse!searchVars, Browse!setTagFilter

(* A finite set sorted: every element has one place, and comes after those *)
(* that are before it.                                                     *)
LEMMA BrowseCounts == \A S : Browse!Cardinality(S) = Cardinality(S)
  BY DEF Browse!Cardinality, Cardinality

LEMMA Sorting ==
    ASSUME NEW S, IsFiniteSet(S), NEW R, Orders(R, S)
    PROVE  /\ Cardinality(S) \in Nat
           /\ DOMAIN Browse!Sorted(S, R) = 1..Cardinality(S)
           /\ Browse!Sorted(S, R) \in Seq(S) /\ Len(Browse!Sorted(S, R)) = Cardinality(S)
           /\ \A i \in 1..Cardinality(S) : Browse!Sorted(S, R)[i] \in S
           /\ \A m \in S : \E i \in 1..Cardinality(S) : Browse!Sorted(S, R)[i] = m
           /\ \A i, j \in 1..Cardinality(S) :
                i < j => <<Browse!Sorted(S, R)[i], Browse!Sorted(S, R)[j]>> \in R
<1> DEFINE N == Cardinality(S)
           s == Browse!Sorted(S, R)
<1>1. /\ N \in Nat
      /\ \A m \in S : Rank(m, R, S) \in 0..(N - 1)
      /\ \A k \in 0..(N - 1) : \E m \in S : Rank(m, R, S) = k
      /\ \A m, n \in S : <<m, n>> \in R <=> Rank(m, R, S) < Rank(n, R, S)
      /\ \A m, n \in S : Rank(m, R, S) = Rank(n, R, S) => m = n
  BY Ranks
<1>2. s = [k \in 1..N |-> CHOOSE m \in S : Rank(m, R, S) = k - 1]
  <2>1. \A m : Browse!Cardinality({n \in S : <<n, m>> \in R}) = Rank(m, R, S)
    BY BrowseCounts DEF Rank
  <2>2. Browse!Cardinality(S) = N BY BrowseCounts
  <2>3. s = [k \in 1..Browse!Cardinality(S) |->
               CHOOSE m \in S : Browse!Cardinality({n \in S : <<n, m>> \in R}) = k - 1]
    BY DEF Browse!Sorted
  <2>4. QED BY <2>1, <2>2, <2>3, Zenon
<1> HIDE DEF N, s
<1>3. \A k \in 1..N : s[k] \in S /\ Rank(s[k], R, S) = k - 1
  <2> SUFFICES ASSUME NEW k \in 1..N PROVE s[k] \in S /\ Rank(s[k], R, S) = k - 1
    OBVIOUS
  <2>1. k - 1 \in 0..(N - 1) BY <1>1
  <2>2. \E m \in S : Rank(m, R, S) = k - 1 BY <1>1, <2>1
  <2>3. s[k] = CHOOSE m \in S : Rank(m, R, S) = k - 1 BY <1>2
  <2>4. QED BY <2>2, <2>3
<1>4. s \in [1..N -> S] BY <1>2, <1>3
<1>5. DOMAIN s = 1..N /\ s \in Seq(S) /\ Len(s) = N BY <1>1, <1>4
<1>6. \A m \in S : \E i \in 1..N : s[i] = m
  <2> SUFFICES ASSUME NEW m \in S PROVE \E i \in 1..N : s[i] = m
    OBVIOUS
  <2>1. Rank(m, R, S) \in 0..(N - 1) BY <1>1
  <2> DEFINE i == Rank(m, R, S) + 1
  <2>2. i \in 1..N /\ i - 1 = Rank(m, R, S) BY <1>1, <2>1
  <2> HIDE DEF i
  <2>3. s[i] \in S /\ Rank(s[i], R, S) = Rank(m, R, S) BY <1>3, <2>2
  <2>4. QED BY <1>1, <2>2, <2>3
<1>7. \A i, j \in 1..N : i < j => <<s[i], s[j]>> \in R
  <2> SUFFICES ASSUME NEW i \in 1..N, NEW j \in 1..N, i < j PROVE <<s[i], s[j]>> \in R
    OBVIOUS
  <2>1. i - 1 < j - 1 OBVIOUS
  <2>2. Rank(s[i], R, S) < Rank(s[j], R, S) BY <1>3, <2>1
  <2>3. QED BY <1>1, <1>3, <2>2
<1>8. QED BY <1>1, <1>3, <1>5, <1>6, <1>7 DEF N, s

(* What a function makes of a finite set is finite.                        *)
LEMMA FiniteImage ==
    ASSUME NEW S, IsFiniteSet(S), NEW f
    PROVE  IsFiniteSet({f[x] : x \in S})
<1> DEFINE T == {f[x] : x \in S}
           g == [x \in S |-> f[x]]
<1>1. g \in Surjection(S, T) BY DEF Surjection
<1> HIDE DEF g, T
<1>2. IsFiniteSet(T) BY <1>1, FS_Surjection
<1>3. QED BY <1>2 DEF T

LEMMA LeastIsMin ==
    ASSUME NEW S, IsFiniteSet(S), S # {}, S \subseteq Int
    PROVE  Browse!Min(S) \in S /\ \A y \in S : Browse!Min(S) <= y
<1>1. \E x \in S : \A y \in S : x <= y BY FiniteLeast
<1>2. Browse!Min(S) = CHOOSE x \in S : \A y \in S : x <= y BY DEF Browse!Min
<1>3. QED BY <1>1, <1>2

(* The models shown, newest first.                                         *)
LEMMA ShownSorted ==
    ASSUME GridInv
    PROVE  /\ IsFiniteSet(Browse!Shown) /\ Browse!Shown \subseteq Models
           /\ Cardinality(Browse!Shown) \in Nat
           /\ DOMAIN Browse!sortedModels = 1..Cardinality(Browse!Shown)
           /\ \A i \in 1..Cardinality(Browse!Shown) : Browse!sortedModels[i] \in Browse!Shown
           /\ \A m \in Browse!Shown :
                \E i \in 1..Cardinality(Browse!Shown) : Browse!sortedModels[i] = m
           /\ \A i, j \in 1..Cardinality(Browse!Shown) :
                i < j => Browse!Newer(Browse!sortedModels[i], Browse!sortedModels[j])
<1> DEFINE S == Browse!Shown
           R == {p \in S \X S : Browse!Newer(p[1], p[2])}
<1>1. /\ IsFiniteSet(Models) /\ CreatedAt \in [Models -> Int] /\ PlaceOf \in [Models -> Int]
      /\ \A m, n \in Models : PlaceOf[m] = PlaceOf[n] => m = n
  BY StorefrontAssumption DEF Browse!CatalogAssumption, Browse!IsFiniteSet, IsFiniteSet
<1>2. S \subseteq Models BY DEF GridInv, Browse!Shown
<1> HIDE DEF S
<1>3. IsFiniteSet(S) BY <1>1, <1>2, FS_Subset
<1>4. \A m, n \in S : <<m, n>> \in R <=> Browse!Newer(m, n) OBVIOUS
<1>5. \A m \in S : CreatedAt[m] \in Int /\ PlaceOf[m] \in Int BY <1>1, <1>2
<1>6. \A m \in S : ~Browse!Newer(m, m) BY <1>5 DEF Browse!Newer
<1>7. \A l, m, n \in S : Browse!Newer(l, m) /\ Browse!Newer(m, n) => Browse!Newer(l, n)
  BY <1>5 DEF Browse!Newer
<1>8. \A m, n \in S : m = n \/ Browse!Newer(m, n) \/ Browse!Newer(n, m)
  BY <1>1, <1>2, <1>5 DEF Browse!Newer
<1>9. Orders(R, S)
  <2> HIDE DEF R
  <2>1. QED BY <1>4, <1>6, <1>7, <1>8 DEF Orders
<1>10. Browse!sortedModels = Browse!Sorted(S, R) BY DEF Browse!sortedModels, S
<1> HIDE DEF R
<1>11. /\ Cardinality(S) \in Nat
       /\ DOMAIN Browse!sortedModels = 1..Cardinality(S)
       /\ \A i \in 1..Cardinality(S) : Browse!sortedModels[i] \in S
       /\ \A m \in S : \E i \in 1..Cardinality(S) : Browse!sortedModels[i] = m
       /\ \A i, j \in 1..Cardinality(S) :
            i < j => <<Browse!sortedModels[i], Browse!sortedModels[j]>> \in R
  BY <1>3, <1>9, <1>10, Sorting
<1>12. \A i, j \in 1..Cardinality(S) :
            i < j => Browse!Newer(Browse!sortedModels[i], Browse!sortedModels[j])
  BY <1>4, <1>11
<1>13. QED BY <1>2, <1>3, <1>11, <1>12 DEF S

(* The place of a group is that of its newest model.                       *)
LEMMA Firsts ==
    ASSUME GridInv
    PROVE  /\ IsFiniteSet(Browse!Groups)
           /\ \A key \in Browse!Groups :
                /\ Browse!FirstOf[key] \in 1..Cardinality(Browse!Shown)
                /\ Browse!FirstOf[key] \in Int
                /\ GroupOf[Browse!sortedModels[Browse!FirstOf[key]]] = key
                /\ \A i \in 1..Cardinality(Browse!Shown) :
                     GroupOf[Browse!sortedModels[i]] = key => Browse!FirstOf[key] <= i
<1> DEFINE S == Browse!Shown
           models == Browse!sortedModels
           N == Cardinality(S)
           At(key) == {i \in 1..N : GroupOf[models[i]] = key}
<1>1. /\ IsFiniteSet(S) /\ N \in Nat /\ DOMAIN models = 1..N
      /\ \A m \in S : \E i \in 1..N : models[i] = m
  BY ShownSorted
<1>2. IsFiniteSet(Browse!Groups)
  <2>1. Browse!Groups = {GroupOf[m] : m \in S} BY DEF Browse!Groups
  <2> HIDE DEF S
  <2>2. QED BY <1>1, <2>1, FiniteImage
<1>3. Browse!FirstOf = [key \in Browse!Groups |-> Browse!Min(At(key))]
  <2>1. Browse!FirstOf = [key \in Browse!Groups |->
                            Browse!Min({i \in DOMAIN models : GroupOf[models[i]] = key})]
    BY DEF Browse!FirstOf
  <2> HIDE DEF models, N
  <2>2. QED BY <1>1, <2>1
<1>4. ASSUME NEW key \in Browse!Groups
      PROVE  Browse!FirstOf[key] \in At(key) /\ \A i \in At(key) : Browse!FirstOf[key] <= i
  <2>1. PICK m \in S : GroupOf[m] = key BY DEF Browse!Groups
  <2> HIDE DEF S, models, N
  <2>2. At(key) # {} BY <1>1, <2>1
  <2>3. At(key) \subseteq 1..N OBVIOUS
  <2>4. At(key) \subseteq Int /\ IsFiniteSet(At(key))
    BY <1>1, <2>3, FS_Interval, FS_Subset
  <2>5. Browse!FirstOf[key] = Browse!Min(At(key)) BY <1>3
  <2> HIDE DEF At
  <2>6. QED BY <2>2, <2>4, <2>5, LeastIsMin
<1>5. \A key \in Browse!Groups : Browse!FirstOf[key] \in Int
  <2> HIDE DEF N, models
  <2>1. QED BY <1>1, <1>4
<1>6. QED BY <1>2, <1>4, <1>5

(* Groups in the order of their first models.                              *)
LEMMA Insertion ==
    ASSUME GridInv, NEW keys, keys \subseteq Browse!Groups
    PROVE  /\ Browse!InsertionOrder(keys) \in Seq(keys)
           /\ \A key \in keys : \E i \in DOMAIN Browse!InsertionOrder(keys) :
                                  Browse!InsertionOrder(keys)[i] = key
           /\ \A i, j \in DOMAIN Browse!InsertionOrder(keys) :
                i < j => Browse!FirstOf[Browse!InsertionOrder(keys)[i]]
                           < Browse!FirstOf[Browse!InsertionOrder(keys)[j]]
<1> DEFINE first == Browse!FirstOf
           R == {p \in keys \X keys : first[p[1]] < first[p[2]]}
           s == Browse!InsertionOrder(keys)
<1>1. IsFiniteSet(keys) BY Firsts, FS_Subset
<1>2. \A key \in keys : first[key] \in Int BY Firsts
<1>3. \A a, b \in keys : first[a] = first[b] => a = b BY Firsts
<1>4. s = Browse!Sorted(keys, R) BY DEF Browse!InsertionOrder
<1>5. \A a, b \in keys : <<a, b>> \in R <=> first[a] < first[b] OBVIOUS
<1> HIDE DEF first, R, s
<1>6. Orders(R, keys) BY <1>2, <1>3, <1>5 DEF Orders
<1>7. /\ Cardinality(keys) \in Nat
      /\ DOMAIN s = 1..Cardinality(keys) /\ s \in Seq(keys)
      /\ \A i \in 1..Cardinality(keys) : s[i] \in keys
      /\ \A m \in keys : \E i \in 1..Cardinality(keys) : s[i] = m
      /\ \A i, j \in 1..Cardinality(keys) : i < j => <<s[i], s[j]>> \in R
  BY <1>1, <1>4, <1>6, Sorting
<1>8. \A i, j \in DOMAIN s : i < j => first[s[i]] < first[s[j]] BY <1>5, <1>7
<1>9. QED BY <1>7, <1>8 DEF s, first

(* What was heard of the models: numbers, and finitely many of them.       *)
LEMMA ChipsAreNumbers ==
    ASSUME GridInv
    PROVE  IsFiniteSet(Browse!Chips) /\ \A c \in Browse!Chips : c.distance \in Int
<1>1. \A chips \in ChipLists :
        chips \in Seq(Browse!ToSet(chips)) /\ \A c \in Browse!ToSet(chips) : c.distance \in Int
  BY StorefrontAssumption DEF Browse!CatalogAssumption
<1>2. \A s \in Browse!Scopes : lanes[s].chips \in ChipLists \cup {<<>>} BY DEF GridInv, Lane
<1>3. ASSUME NEW s \in Browse!Scopes
      PROVE  /\ IsFiniteSet(Browse!ToSet(lanes[s].chips))
             /\ \A c \in Browse!ToSet(lanes[s].chips) : c.distance \in Int
  <2> DEFINE chips == lanes[s].chips
  <2>1. CASE chips = <<>>
    <3>1. Browse!ToSet(chips) = {} BY <2>1 DEF Browse!ToSet
    <3>2. QED BY <3>1, FS_EmptySet
  <2>2. CASE chips \in ChipLists
    <3>1. chips \in Seq(Browse!ToSet(chips)) BY <1>1, <2>2
    <3> HIDE DEF chips
    <3>2. Len(chips) \in Nat /\ DOMAIN chips = 1..Len(chips) BY <3>1
    <3>3. IsFiniteSet(DOMAIN chips) BY <3>2, FS_Interval
    <3>4. Browse!ToSet(chips) = {chips[i] : i \in DOMAIN chips} BY DEF Browse!ToSet
    <3>5. IsFiniteSet(Browse!ToSet(chips)) BY <3>3, <3>4, FiniteImage
    <3>6. QED BY <1>1, <2>2, <3>5 DEF chips
  <2>3. QED BY <1>2, <2>1, <2>2
<1>4. Browse!Chips = Browse!ToSet(lanes["personal"].chips) \cup Browse!ToSet(lanes["global"].chips)
  BY DEF Browse!Chips, Browse!Scopes
<1>5. "personal" \in Browse!Scopes /\ "global" \in Browse!Scopes BY DEF Browse!Scopes
<1>6. IsFiniteSet(Browse!Chips) BY <1>3, <1>4, <1>5, FS_Union
<1>7. QED BY <1>3, <1>4, <1>5, <1>6

(* A match is as close as the closest distance heard of the group, and a   *)
(* group nothing valid was heard of is no match.                           *)
LEMMA Matching ==
    ASSUME GridInv
    PROVE  /\ DOMAIN Browse!cardMatches \subseteq Browse!Groups
           /\ \A key \in DOMAIN Browse!cardMatches :
                /\ Browse!cardMatches[key] \in Int
                /\ Browse!cardMatches[key] \in Browse!Heard(key)
                /\ \A d \in Browse!Heard(key) : d \in Int /\ Browse!cardMatches[key] <= d
           /\ \A key \in Browse!Groups \ DOMAIN Browse!cardMatches : Browse!Heard(key) = {}
<1> DEFINE S == Browse!Shown
           D(m) == Browse!Distances(m)
           best == Browse!Best(S)
           B == {m \in S : D(m) # {}}
           K == {GroupOf[m] : m \in B}
           Of(key) == {best[m] : m \in {n \in B : GroupOf[n] = key}}
           near == Browse!cardMatches
<1>1. /\ \A m : D(m) \subseteq Int /\ IsFiniteSet(D(m))
      /\ \A m, d : d \in D(m) <=>
           \E c \in Browse!Chips : c.model = m /\ c.distance >= 0 /\ d = c.distance
  <2> SUFFICES ASSUME NEW m
               PROVE  /\ D(m) \subseteq Int /\ IsFiniteSet(D(m))
                      /\ \A d : d \in D(m) <=>
                           \E c \in Browse!Chips : c.model = m /\ c.distance >= 0 /\ d = c.distance
    OBVIOUS
  <2> DEFINE C == {c \in Browse!Chips : c.model = m /\ Browse!Valid(c.distance)}
             dist == [c \in C |-> c.distance]
  <2>1. D(m) = {c.distance : c \in C} BY DEF Browse!Distances
  <2>2. IsFiniteSet(C) BY ChipsAreNumbers, FS_Subset
  <2>3. D(m) = {dist[c] : c \in C} BY <2>1
  <2>4. \A c \in C : c.distance \in Int BY ChipsAreNumbers
  <2>5. \A d : d \in D(m) <=>
          \E c \in Browse!Chips : c.model = m /\ c.distance >= 0 /\ d = c.distance
    BY <2>1 DEF Browse!Valid
  <2>6. D(m) \subseteq Int BY <2>1, <2>4
  <2> HIDE DEF C, dist, D
  <2>7. IsFiniteSet(D(m)) BY <2>2, <2>3, FiniteImage
  <2>8. QED BY <2>5, <2>6, <2>7
<1>2. DOMAIN best = B /\ \A m \in B : best[m] = Browse!Min(D(m)) BY DEF Browse!Best
<1>3. IsFiniteSet(B) BY ShownSorted, FS_Subset
<1> HIDE DEF D
<1>4. \A m \in B : best[m] \in D(m) /\ best[m] \in Int /\ \A d \in D(m) : best[m] <= d
  BY <1>1, <1>2, LeastIsMin
<1>5. near = [key \in K |-> Browse!Min(Of(key))]
  <2>1. near = [key \in {GroupOf[m] : m \in DOMAIN best} |->
                  Browse!Min({best[m] : m \in {n \in DOMAIN best : GroupOf[n] = key}})]
    BY DEF Browse!cardMatches
  <2> HIDE DEF best, near, B
  <2>2. QED BY <1>2, <2>1
<1>6. DOMAIN near = K /\ K \subseteq Browse!Groups
  BY <1>5 DEF Browse!Groups
<1>7. \A key, d : d \in Browse!Heard(key) <=> \E m \in B : GroupOf[m] = key /\ d \in D(m)
  <2>1. \A key, d : d \in Browse!Heard(key) <=>
          \E c \in Browse!Chips : /\ c.distance >= 0 /\ c.model \in S /\ GroupOf[c.model] = key
                                  /\ d = c.distance
    BY DEF Browse!Heard
  <2>2. \A m, d : d \in D(m) => (m \in B <=> m \in S) OBVIOUS
  <2> HIDE DEF S, B
  <2>3. QED BY <1>1, <2>1, <2>2
<1>8. ASSUME NEW key \in K
      PROVE  /\ near[key] \in Int /\ near[key] \in Browse!Heard(key)
             /\ \A d \in Browse!Heard(key) : d \in Int /\ near[key] <= d
  <2> DEFINE M == {n \in B : GroupOf[n] = key}
  <2>1. IsFiniteSet(M) BY <1>3, FS_Subset
  <2>2. M # {} OBVIOUS
  <2>3. Of(key) = {best[m] : m \in M} OBVIOUS
  <2>4. \A m \in M : m \in B /\ GroupOf[m] = key OBVIOUS
  <2>5. \A m \in B : GroupOf[m] = key => m \in M OBVIOUS
  <2> HIDE DEF M, Of, near, best, B, K
  <2>6. /\ IsFiniteSet(Of(key)) /\ Of(key) # {} /\ Of(key) \subseteq Int
    BY <1>4, <2>1, <2>2, <2>3, <2>4, FiniteImage
  <2>7. near[key] \in Of(key) /\ \A d \in Of(key) : near[key] <= d
    BY <1>5, <2>6, LeastIsMin
  <2>8. PICK m \in M : near[key] = best[m] BY <2>3, <2>7
  <2>9. near[key] \in Int /\ near[key] \in Browse!Heard(key) BY <1>4, <1>7, <2>4, <2>8
  <2>10. ASSUME NEW d \in Browse!Heard(key) PROVE d \in Int /\ near[key] <= d
    <3>1. PICK n \in B : GroupOf[n] = key /\ d \in D(n) BY <1>7
    <3>2. d \in Int BY <1>1, <3>1
    <3>3. best[n] \in Of(key) /\ best[n] <= d /\ best[n] \in Int BY <1>4, <2>3, <2>5, <3>1
    <3>4. near[key] <= best[n] BY <2>7, <3>3
    <3>5. QED BY <2>9, <3>2, <3>3, <3>4
  <2>11. QED BY <2>9, <2>10
<1>9. ASSUME NEW key \in Browse!Groups \ K PROVE Browse!Heard(key) = {}
  <2>1. \A m \in B : GroupOf[m] \in K OBVIOUS
  <2> HIDE DEF B, K
  <2>2. QED BY <1>7, <2>1
<1> HIDE DEF near, K
<1>10. QED BY <1>6, <1>8, <1>9 DEF near

LEMMA CloserIs ==
    ASSUME GridInv, NEW a \in Browse!Groups, NEW b \in Browse!Groups
    PROVE  Browse!Closer(a, b) <=>
             /\ Browse!searchActive /\ a \in DOMAIN Browse!cardMatches
             /\ b \in DOMAIN Browse!cardMatches => Browse!cardMatches[a] < Browse!cardMatches[b]
<1> DEFINE near == Browse!cardMatches
<1>1. /\ \A key \in DOMAIN near :
           /\ near[key] \in Int /\ near[key] \in Browse!Heard(key)
           /\ \A d \in Browse!Heard(key) : d \in Int /\ near[key] <= d
      /\ \A key \in Browse!Groups \ DOMAIN near : Browse!Heard(key) = {}
  BY Matching
<1> HIDE DEF near
<1>2. Browse!Closer(a, b) <=>
        Browse!searchActive /\ \E d \in Browse!Heard(a) : \A e \in Browse!Heard(b) : d < e
  BY DEF Browse!Closer
<1>3. CASE a \notin DOMAIN near
  <2>1. Browse!Heard(a) = {} BY <1>1, <1>3
  <2>2. QED BY <1>2, <1>3, <2>1 DEF near
<1>4. CASE a \in DOMAIN near /\ b \notin DOMAIN near
  <2>1. Browse!Heard(b) = {} /\ near[a] \in Browse!Heard(a) BY <1>1, <1>4
  <2>2. QED BY <1>2, <1>4, <2>1 DEF near
<1>5. CASE a \in DOMAIN near /\ b \in DOMAIN near
  <2>1. ASSUME NEW d \in Browse!Heard(a), \A e \in Browse!Heard(b) : d < e PROVE near[a] < near[b]
    <3>1. d < near[b] /\ near[a] <= d /\ d \in Int /\ near[a] \in Int /\ near[b] \in Int
      BY <1>1, <1>5, <2>1
    <3>2. QED BY <3>1
  <2>2. ASSUME near[a] < near[b], NEW e \in Browse!Heard(b) PROVE near[a] < e
    <3>1. near[b] <= e /\ e \in Int /\ near[a] \in Int /\ near[b] \in Int BY <1>1, <1>5
    <3>2. QED BY <2>2, <3>1
  <2>3. near[a] \in Browse!Heard(a) BY <1>1, <1>5
  <2>4. (\E d \in Browse!Heard(a) : \A e \in Browse!Heard(b) : d < e) <=> near[a] < near[b]
    BY <2>1, <2>2, <2>3
  <2>5. QED BY <1>2, <1>5, <2>4 DEF near
<1>6. QED BY <1>3, <1>4, <1>5

(* A group that comes later in the grid's own order has no newer model.    *)
LEMMA NotFresher ==
    ASSUME GridInv, NEW a \in Browse!Groups, NEW b \in Browse!Groups,
           Browse!FirstOf[a] < Browse!FirstOf[b]
    PROVE  ~Browse!Fresher(b, a)
<1> SUFFICES ASSUME NEW m \in Browse!Shown, GroupOf[m] = b,
                    \A n \in Browse!Shown : GroupOf[n] = a => CreatedAt[m] > CreatedAt[n]
             PROVE  FALSE
  BY DEF Browse!Fresher
<1> DEFINE models == Browse!sortedModels
           N == Cardinality(Browse!Shown)
           i == Browse!FirstOf[a]
<1>1. /\ N \in Nat /\ Browse!Shown \subseteq Models
      /\ \A k \in 1..N : models[k] \in Browse!Shown
      /\ \A n \in Browse!Shown : \E k \in 1..N : models[k] = n
      /\ \A k, l \in 1..N : k < l => Browse!Newer(models[k], models[l])
  BY ShownSorted
<1>2. i \in 1..N /\ GroupOf[models[i]] = a BY Firsts
<1> HIDE DEF models, N, i
<1>3. PICK j \in 1..N : models[j] = m BY <1>1
<1>4. Browse!FirstOf[b] <= j /\ Browse!FirstOf[b] \in Int BY <1>3, Firsts DEF models, N
<1>5. i < j
  <2>1. i < Browse!FirstOf[b] BY DEF i
  <2>2. i \in Int /\ j \in Int BY <1>1, <1>2
  <2>3. QED BY <1>4, <2>1, <2>2
<1>6. Browse!Newer(models[i], m) BY <1>1, <1>2, <1>3, <1>5
<1>7. CreatedAt[m] > CreatedAt[models[i]] BY <1>1, <1>2
<1>8. CreatedAt \in [Models -> Int] BY StorefrontAssumption DEF Browse!CatalogAssumption
<1>9. CreatedAt[m] \in Int /\ CreatedAt[models[i]] \in Int BY <1>1, <1>2, <1>8
<1>10. QED BY <1>6, <1>7, <1>9 DEF Browse!Newer

(* The matches, closest first, and as close as each other in grid order.   *)
NearerFirst ==
  {p \in (DOMAIN Browse!cardMatches) \X (DOMAIN Browse!cardMatches) :
     \/ Browse!cardMatches[p[1]] < Browse!cardMatches[p[2]]
     \/ /\ Browse!cardMatches[p[1]] = Browse!cardMatches[p[2]]
        /\ Browse!FirstOf[p[1]] < Browse!FirstOf[p[2]]}

LEMMA Lexical ==
    ASSUME NEW K, NEW f, NEW g
    PROVE  \A a, b \in K :
             <<a, b>> \in {p \in K \X K : \/ f[p[1]] < f[p[2]]
                                          \/ f[p[1]] = f[p[2]] /\ g[p[1]] < g[p[2]]}
               <=> f[a] < f[b] \/ (f[a] = f[b] /\ g[a] < g[b])
<1> SUFFICES ASSUME NEW a \in K, NEW b \in K
             PROVE  <<a, b>> \in {p \in K \X K : \/ f[p[1]] < f[p[2]]
                                                 \/ f[p[1]] = f[p[2]] /\ g[p[1]] < g[p[2]]}
                      <=> f[a] < f[b] \/ (f[a] = f[b] /\ g[a] < g[b])
  OBVIOUS
<1>1. <<a, b>> \in K \X K /\ <<a, b>>[1] = a /\ <<a, b>>[2] = b OBVIOUS
<1> DEFINE p == <<a, b>>
<1> HIDE DEF p
<1>2. p \in {q \in K \X K : \/ f[q[1]] < f[q[2]]
                            \/ f[q[1]] = f[q[2]] /\ g[q[1]] < g[q[2]]}
        <=> /\ p \in K \X K
            /\ f[p[1]] < f[p[2]] \/ (f[p[1]] = f[p[2]] /\ g[p[1]] < g[p[2]])
  OBVIOUS
<1>3. QED BY <1>1, <1>2, Zenon DEF p

LEMMA NearerIs ==
  \A a, b \in DOMAIN Browse!cardMatches :
    <<a, b>> \in NearerFirst <=>
      \/ Browse!cardMatches[a] < Browse!cardMatches[b]
      \/ /\ Browse!cardMatches[a] = Browse!cardMatches[b]
         /\ Browse!FirstOf[a] < Browse!FirstOf[b]
  BY Lexical, Zenon DEF NearerFirst

LEMMA Nearest ==
    ASSUME GridInv
    PROVE  LET matched == DOMAIN Browse!cardMatches
               s == Browse!Sorted(matched, NearerFirst)
           IN  /\ s \in Seq(matched)
               /\ \A key \in matched : \E i \in DOMAIN s : s[i] = key
               /\ \A i, j \in DOMAIN s : i < j => <<s[i], s[j]>> \in NearerFirst
<1> DEFINE near == Browse!cardMatches
           first == Browse!FirstOf
           matched == DOMAIN near
           R == NearerFirst
           s == Browse!Sorted(matched, R)
<1>1. matched \subseteq Browse!Groups /\ \A key \in matched : near[key] \in Int BY Matching
<1>2. IsFiniteSet(matched) BY <1>1, Firsts, FS_Subset
<1>3. /\ \A key \in matched : first[key] \in Int
      /\ \A a, b \in matched : first[a] = first[b] => a = b
  BY <1>1, Firsts
<1>4. \A a, b \in matched : <<a, b>> \in R <=>
        near[a] < near[b] \/ (near[a] = near[b] /\ first[a] < first[b])
  BY NearerIs
<1> HIDE DEF near, first, R, s
<1>5. Orders(R, matched)
  <2>1. \A a, b \in matched : /\ near[a] \in Int /\ near[b] \in Int
                              /\ first[a] \in Int /\ first[b] \in Int
    BY <1>1, <1>3
  <2>2. \A a \in matched : <<a, a>> \notin R BY <1>4, <2>1
  <2>3. \A a, b, c \in matched : <<a, b>> \in R /\ <<b, c>> \in R => <<a, c>> \in R
    <3> SUFFICES ASSUME NEW a \in matched, NEW b \in matched, NEW c \in matched,
                        <<a, b>> \in R, <<b, c>> \in R
                 PROVE  <<a, c>> \in R
      OBVIOUS
    <3>1. /\ near[a] < near[b] \/ (near[a] = near[b] /\ first[a] < first[b])
          /\ near[b] < near[c] \/ (near[b] = near[c] /\ first[b] < first[c])
      BY <1>4
    <3>2. near[a] \in Int /\ near[b] \in Int /\ near[c] \in Int
          /\ first[a] \in Int /\ first[b] \in Int /\ first[c] \in Int
      BY <2>1
    <3>3. near[a] < near[c] \/ (near[a] = near[c] /\ first[a] < first[c]) BY <3>1, <3>2
    <3>4. QED BY <1>4, <3>3
  <2>4. \A a, b \in matched : a = b \/ <<a, b>> \in R \/ <<b, a>> \in R
    <3> SUFFICES ASSUME NEW a \in matched, NEW b \in matched, a # b
                 PROVE  <<a, b>> \in R \/ <<b, a>> \in R
      OBVIOUS
    <3>1. first[a] # first[b] BY <1>3
    <3>2. /\ near[a] < near[b] \/ near[a] = near[b] \/ near[b] < near[a]
          /\ first[a] < first[b] \/ first[b] < first[a]
      BY <2>1, <3>1
    <3>3. QED BY <1>4, <3>2
  <2> HIDE DEF matched
  <2>5. QED BY <2>2, <2>3, <2>4 DEF Orders
<1>6. /\ Cardinality(matched) \in Nat
      /\ DOMAIN s = 1..Cardinality(matched) /\ s \in Seq(matched)
      /\ \A m \in matched : \E i \in 1..Cardinality(matched) : s[i] = m
      /\ \A i, j \in 1..Cardinality(matched) : i < j => <<s[i], s[j]>> \in R
  BY <1>2, <1>5, Sorting DEF s
<1>7. QED BY <1>6 DEF s, R, near

(* With a query the grid holds the matches and then the other groups.      *)
LEMMA Reordered ==
    ASSUME GridInv
    PROVE  /\ Browse!ToSet(Browse!orderedKeys) = Browse!Groups
           /\ \A i, j \in DOMAIN Browse!orderedKeys : i < j =>
                LET a == Browse!orderedKeys[i]
                    b == Browse!orderedKeys[j]
                    near == Browse!cardMatches
                IN  /\ a \in Browse!Groups /\ b \in Browse!Groups
                    /\ \/ a \in DOMAIN near /\ b \in DOMAIN near /\ <<a, b>> \in NearerFirst
                       \/ a \in DOMAIN near /\ b \notin DOMAIN near
                       \/ /\ a \notin DOMAIN near /\ b \notin DOMAIN near
                          /\ Browse!FirstOf[a] < Browse!FirstOf[b]
<1> DEFINE matched == DOMAIN Browse!cardMatches
           rest == Browse!Groups \ matched
           s == Browse!Sorted(matched, NearerFirst)
           t == Browse!InsertionOrder(rest)
           u == Browse!orderedKeys
<1>1. u = s \o t BY DEF Browse!orderedKeys, NearerFirst
<1>2. /\ s \in Seq(matched)
      /\ \A key \in matched : \E i \in DOMAIN s : s[i] = key
      /\ \A i, j \in DOMAIN s : i < j => <<s[i], s[j]>> \in NearerFirst
  BY Nearest
<1>3. /\ t \in Seq(rest)
      /\ \A key \in rest : \E i \in DOMAIN t : t[i] = key
      /\ \A i, j \in DOMAIN t : i < j => Browse!FirstOf[t[i]] < Browse!FirstOf[t[j]]
  BY Insertion
<1>4. matched \subseteq Browse!Groups BY Matching
<1> HIDE DEF matched, s, t, u
<1> DEFINE m == Len(s)
           n == Len(t)
<1>5. m \in Nat /\ n \in Nat /\ DOMAIN s = 1..m /\ DOMAIN t = 1..n BY <1>2, <1>3
<1>6. u \in Seq(Browse!Groups) /\ Len(u) = m + n
  <2>1. s \in Seq(Browse!Groups) /\ t \in Seq(Browse!Groups) BY <1>2, <1>3, <1>4, SeqDef
  <2>2. QED BY <1>1, <2>1
<1>7. \A k \in 1..(m + n) : u[k] = IF k <= m THEN s[k] ELSE t[k - m]
  <2>1. s \in Seq(Browse!Groups) /\ t \in Seq(Browse!Groups) BY <1>2, <1>3, <1>4, SeqDef
  <2>2. QED BY <1>1, <2>1, ConcatProperties
<1>8. DOMAIN u = 1..(m + n) BY <1>6
<1> HIDE DEF m, n
<1>9. \A k \in 1..m : k \in 1..(m + n) /\ u[k] = s[k] /\ u[k] \in matched BY <1>2, <1>5, <1>7
<1>10. \A k \in 1..n : m + k \in 1..(m + n) /\ u[m + k] = t[k] /\ u[m + k] \in rest
  <2> SUFFICES ASSUME NEW k \in 1..n
               PROVE  m + k \in 1..(m + n) /\ u[m + k] = t[k] /\ u[m + k] \in rest
    OBVIOUS
  <2>1. m + k \in 1..(m + n) /\ ~(m + k <= m) /\ (m + k) - m = k BY <1>5
  <2>2. u[m + k] = t[k] BY <1>7, <2>1
  <2>3. t[k] \in rest BY <1>3, <1>5
  <2>4. QED BY <2>1, <2>2, <2>3
<1>11. Browse!ToSet(u) = Browse!Groups
  <2>1. Browse!ToSet(u) = {u[k] : k \in DOMAIN u} BY DEF Browse!ToSet
  <2>2. Browse!ToSet(u) \subseteq Browse!Groups BY <1>6, <2>1
  <2>3. ASSUME NEW key \in Browse!Groups PROVE \E k \in DOMAIN u : u[k] = key
    <3>1. CASE key \in matched BY <1>2, <1>5, <1>8, <1>9, <3>1
    <3>2. CASE key \in rest BY <1>3, <1>5, <1>8, <1>10, <3>2
    <3>3. QED BY <3>1, <3>2
  <2>4. QED BY <2>1, <2>2, <2>3
<1>12. ASSUME NEW i \in DOMAIN u, NEW j \in DOMAIN u, i < j
       PROVE  \/ u[i] \in matched /\ u[j] \in matched /\ <<u[i], u[j]>> \in NearerFirst
              \/ u[i] \in matched /\ u[j] \in rest
              \/ u[i] \in rest /\ u[j] \in rest /\ Browse!FirstOf[u[i]] < Browse!FirstOf[u[j]]
  <2>0. i \in 1..(m + n) /\ j \in 1..(m + n) BY <1>8
  <2>1. CASE j <= m
    <3>1. i \in 1..m /\ j \in 1..m BY <1>5, <1>12, <2>0, <2>1
    <3>2. QED BY <1>2, <1>5, <1>9, <1>12, <3>1
  <2>2. CASE i <= m /\ ~(j <= m)
    <3>1. i \in 1..m /\ j - m \in 1..n /\ m + (j - m) = j BY <1>5, <2>0, <2>2
    <3>2. u[j] \in rest BY <1>10, <3>1
    <3>3. QED BY <1>9, <3>1, <3>2
  <2>3. CASE ~(i <= m)
    <3>1. /\ i - m \in 1..n /\ m + (i - m) = i /\ j - m \in 1..n /\ m + (j - m) = j
          /\ i - m < j - m
      BY <1>5, <1>12, <2>0, <2>3
    <3>2. u[i] = t[i - m] /\ u[i] \in rest BY <1>10, <3>1
    <3>3. u[j] = t[j - m] /\ u[j] \in rest BY <1>10, <3>1
    <3>4. QED BY <1>3, <1>5, <3>1, <3>2, <3>3
  <2>4. QED BY <1>5, <2>0, <2>1, <2>2, <2>3
<1>13. QED BY <1>4, <1>11, <1>12 DEF u, matched

LEMMA GridHolds == GridInv => Browse!GridIsHonest
<1> SUFFICES ASSUME GridInv PROVE Browse!GridIsHonest
  OBVIOUS
<1> DEFINE g == Browse!gridKeys
           near == Browse!cardMatches
<1>1. {GroupOf[m] : m \in {n \in allModels : n \notin Private
                             /\ (tagFilter = NoTag \/ tagFilter \in TagsOf[n])}} = Browse!Groups
  BY DEF Browse!Groups, Browse!Shown
<1>2. Browse!ToSet(g) = Browse!Groups
  <2>1. CASE Browse!searchActive BY <2>1, Reordered DEF Browse!gridKeys
  <2>2. CASE ~Browse!searchActive
    <3> DEFINE h == Browse!InsertionOrder(Browse!Groups)
    <3>1. g = h BY <2>2 DEF Browse!gridKeys, Browse!GroupKeys
    <3>2. h \in Seq(Browse!Groups) /\ \A key \in Browse!Groups : \E i \in DOMAIN h : h[i] = key
      BY Insertion
    <3> HIDE DEF g, h
    <3>3. \A i \in DOMAIN h : h[i] \in Browse!Groups BY <3>2
    <3>4. QED BY <3>1, <3>2, <3>3 DEF Browse!ToSet
  <2>3. QED BY <2>1, <2>2
<1>3. ASSUME NEW i \in DOMAIN g, NEW j \in DOMAIN g, i < j
      PROVE  /\ g[i] # g[j] /\ ~Browse!Closer(g[j], g[i])
             /\ Browse!Closer(g[i], g[j]) \/ ~Browse!Fresher(g[j], g[i])
  <2> DEFINE a == g[i]
             b == g[j]
  <2>0. \A key \in Browse!Groups : Browse!FirstOf[key] \in Int BY Firsts
  <2>1. CASE Browse!searchActive
    <3>1. /\ a \in Browse!Groups /\ b \in Browse!Groups
          /\ \/ a \in DOMAIN near /\ b \in DOMAIN near /\ <<a, b>> \in NearerFirst
             \/ a \in DOMAIN near /\ b \notin DOMAIN near
             \/ /\ a \notin DOMAIN near /\ b \notin DOMAIN near
                /\ Browse!FirstOf[a] < Browse!FirstOf[b]
      BY <1>3, <2>1, Reordered DEF Browse!gridKeys
    <3> HIDE DEF a, b, g, near
    <3>2. /\ Browse!Closer(a, b) <=>
               a \in DOMAIN near /\ (b \in DOMAIN near => near[a] < near[b])
          /\ Browse!Closer(b, a) <=>
               b \in DOMAIN near /\ (a \in DOMAIN near => near[b] < near[a])
      BY <2>1, <3>1, CloserIs DEF near
    <3>3. CASE a \in DOMAIN near /\ b \in DOMAIN near /\ <<a, b>> \in NearerFirst
      <4>1. near[a] \in Int /\ near[b] \in Int BY <3>3, Matching DEF near
      <4>2. near[a] < near[b] \/ (near[a] = near[b] /\ Browse!FirstOf[a] < Browse!FirstOf[b])
        BY <3>3, NearerIs DEF near
      <4>3. CASE near[a] < near[b]
        <5>1. ~(near[b] < near[a]) /\ near[a] # near[b] BY <4>1, <4>3
        <5>2. QED BY <3>2, <3>3, <4>3, <5>1 DEF a, b
      <4>4. CASE near[a] = near[b] /\ Browse!FirstOf[a] < Browse!FirstOf[b]
        <5>1. ~(near[b] < near[a]) BY <4>1, <4>4
        <5>2. ~Browse!Fresher(b, a) BY <3>1, <4>4, NotFresher
        <5>3. a # b BY <2>0, <3>1, <4>4
        <5>4. QED BY <3>2, <3>3, <5>1, <5>2, <5>3 DEF a, b
      <4>5. QED BY <4>2, <4>3, <4>4
    <3>4. CASE a \in DOMAIN near /\ b \notin DOMAIN near BY <3>2, <3>4 DEF a, b
    <3>5. CASE a \notin DOMAIN near /\ b \notin DOMAIN near /\ Browse!FirstOf[a] < Browse!FirstOf[b]
      <4>1. ~Browse!Fresher(b, a) BY <3>1, <3>5, NotFresher
      <4>2. a # b BY <2>0, <3>1, <3>5
      <4>3. QED BY <3>2, <3>5, <4>1, <4>2 DEF a, b
    <3>6. QED BY <3>1, <3>3, <3>4, <3>5
  <2>2. CASE ~Browse!searchActive
    <3>1. g = Browse!InsertionOrder(Browse!Groups)
      BY <2>2 DEF Browse!gridKeys, Browse!GroupKeys
    <3>2. /\ g \in Seq(Browse!Groups)
          /\ Browse!FirstOf[a] < Browse!FirstOf[b]
      BY <1>3, <3>1, Insertion
    <3>3. ~Browse!Closer(a, b) /\ ~Browse!Closer(b, a) BY <2>2 DEF Browse!Closer
    <3> HIDE DEF g
    <3>4. a \in Browse!Groups /\ b \in Browse!Groups BY <3>2
    <3> HIDE DEF a, b
    <3>5. ~Browse!Fresher(b, a) BY <3>2, <3>4, NotFresher
    <3>6. a # b BY <2>0, <3>2, <3>4
    <3>7. QED BY <3>3, <3>5, <3>6 DEF a, b
  <2>3. QED BY <2>1, <2>2
<1>4. Browse!searchShowingAll =>
        \A s \in Browse!Scopes : ~lanes[s].degraded /\ lanes[s].status # "loading"
  BY DEF Browse!searchShowingAll, Browse!searchDegraded, Browse!searchLoading
<1> HIDE DEF g
<1>5. QED BY <1>1, <1>2, <1>3, <1>4 DEF g, Browse!GridIsHonest

-----------------------------------------------------------------------------
(* The board.  It lists open collections with counts of the registrations, *)
(* and the scan has the names of the pages it has read.                    *)
LastPage == IF Len(TokenPages) < MAX_PAGES THEN Len(TokenPages) ELSE MAX_PAGES
NamedBy(n) == UNION {TokenPages[k] : k \in 1..n}
Tallies == [Open -> [count : Nat, latest : Nat]]

BoardInv ==
  /\ board = {None} \/ board \subseteq Open
  /\ counts \in Tallies
  /\ scan.page \in Nat
  /\ scan.state = "scanning" => scan.page < LastPage
  /\ scan.state = "done" => scan.page = LastPage
  /\ scan.state # "failed" => scan.named = NamedBy(scan.page)

LEMMA BoardConstants ==
  /\ IsFiniteSet(Open) /\ None \notin Open
  /\ PublishTimeOf \in [Open -> Int] /\ IdRankOf \in [Open -> Int]
  /\ \A c, d \in Open : IdRankOf[c] = IdRankOf[d] => c = d
  /\ Len(TokenPages) \in Nat /\ DOMAIN TokenPages = 1..Len(TokenPages)
  /\ LastPage \in Nat /\ 0 < LastPage /\ LastPage <= Len(TokenPages) /\ LastPage <= MAX_PAGES
  /\ LastPage = Len(TokenPages) \/ LastPage = MAX_PAGES
  /\ MAX_PAGES \in Nat
<1>1. /\ IsFiniteSet(Open) /\ None \notin Open
      /\ PublishTimeOf \in [Open -> Int] /\ IdRankOf \in [Open -> Int]
      /\ \A c, d \in Open : IdRankOf[c] = IdRankOf[d] => c = d
      /\ TokenPages \in Seq(SUBSET Open) \ {<<>>} /\ MAX_PAGES \in Nat \ {0}
  BY StorefrontAssumption
  DEF Integration!IntegrateAssumption, Open, Integration!IsFiniteSet, IsFiniteSet
<1>2. TokenPages \in Seq(SUBSET Open) /\ TokenPages # <<>> BY <1>1
<1>3. Len(TokenPages) \in Nat /\ Len(TokenPages) # 0 /\ DOMAIN TokenPages = 1..Len(TokenPages)
  BY <1>2, EmptySeq
<1>4. QED BY <1>1, <1>3 DEF LastPage

LEMMA BoardInit == Integration!Init => BoardInv
<1> SUFFICES ASSUME Integration!Init PROVE BoardInv
  OBVIOUS
<1>1. board = {None} /\ counts = Integration!Zero
      /\ scan = [page |-> 0, named |-> {}, state |-> "scanning"]
  BY DEF Integration!Init
<1>2. counts \in Tallies BY <1>1 DEF Integration!Zero, Tallies, Open
<1>3. NamedBy(0) = {}
  <2>1. 1..0 = {} OBVIOUS
  <2>2. QED BY <2>1 DEF NamedBy
<1>4. QED BY <1>1, <1>2, <1>3, BoardConstants DEF BoardInv

(* The greatest of finitely many numbers, and of none of them 0.           *)
LEMMA GreatestIsMax ==
    ASSUME NEW n \in Nat, NEW S, S \subseteq 1..n
    PROVE  Integration!Max(S \cup {0}) \in Nat
<1> DEFINE T == S \cup {0}
           U == {n - k : k \in T}
<1>1. T \subseteq 0..n /\ T # {} OBVIOUS
<1>2. U \in SUBSET Nat /\ U # {} BY <1>1
<1>3. PICK x \in U : \A y \in U : x <= y BY <1>2, LeastOne
<1>4. PICK k \in T : x = n - k OBVIOUS
<1>5. \A j \in T : k >= j
  <2> SUFFICES ASSUME NEW j \in T PROVE k >= j
    OBVIOUS
  <2>1. n - j \in U OBVIOUS
  <2> HIDE DEF T, U
  <2>2. n - k <= n - j /\ j \in Int /\ k \in Int BY <1>1, <1>3, <1>4, <2>1
  <2>3. QED BY <2>2
<1>6. Integration!Max(T) = CHOOSE a \in T : \A b \in T : a >= b BY DEF Integration!Max
<1> HIDE DEF T
<1>7. Integration!Max(T) \in T BY <1>5, <1>6
<1>8. Integration!Max(T) \in 0..n BY <1>1, <1>7
<1>9. QED BY <1>8 DEF T

LEMMA Counting ==
    ASSUME IntegrateInv, NEW c
    PROVE  Integration!CountOf(c) \in Nat /\ Integration!LatestOf(c) \in Nat
<1> DEFINE S == Integration!IntegrationsOf(c)
<1>1. registered \in Seq(Registrations) BY DEF IntegrateInv, Quoted
<1>2. Len(registered) \in Nat /\ DOMAIN registered = 1..Len(registered) BY <1>1
<1>3. S \subseteq 1..Len(registered) BY <1>2 DEF Integration!IntegrationsOf
<1>4. Integration!LatestOf(c) \in Nat BY <1>2, <1>3, GreatestIsMax DEF Integration!LatestOf
<1>5. IsFiniteSet(1..Len(registered)) BY <1>2, FS_Interval
<1>6. IsFiniteSet(S) BY <1>3, <1>5, FS_Subset
<1>7. Cardinality(S) \in Nat BY <1>6, FS_CardinalityType
<1>8. Integration!CountOf(c) = Cardinality(S)
  BY DEF Integration!CountOf, Integration!Cardinality, Cardinality
<1>9. QED BY <1>4, <1>7, <1>8

LEMMA BoardStep == IntegrateInv /\ BoardInv /\ [Integration!Next]_(Integration!vars) => BoardInv'
<1> SUFFICES ASSUME IntegrateInv, BoardInv, [Integration!Next]_(Integration!vars) PROVE BoardInv'
  OBVIOUS
<1>0. ASSUME UNCHANGED <<board, counts, scan>> PROVE BoardInv' BY <1>0 DEF BoardInv
<1>1. CASE Integration!BoardLoads
  <2>1. open \subseteq Open BY DEF IntegrateInv, Quoted
  <2>2. board' \subseteq Open /\ UNCHANGED <<counts, scan>>
    BY <1>1, <2>1 DEF Integration!BoardLoads
  <2>3. QED BY <2>2 DEF BoardInv
<1>2. CASE Integration!CountsLoad
  <2>1. Integration!Zero \in Tallies BY DEF Integration!Zero, Tallies, Open
  <2>2. [c \in Open |-> [count |-> Integration!CountOf(c), latest |-> Integration!LatestOf(c)]]
          \in Tallies
    BY Counting DEF Tallies
  <2>3. counts' \in Tallies /\ UNCHANGED <<board, scan>>
    BY <1>2, <2>1, <2>2 DEF Integration!CountsLoad, Open
  <2>4. QED BY <2>3 DEF BoardInv
<1>3. CASE Integration!NamesPage
  <2>1. UNCHANGED <<board, counts>> /\ scan.state = "scanning"
    BY <1>3 DEF Integration!NamesPage
  <2>2. CASE scan' = [page |-> 0, named |-> {}, state |-> "failed"]
    BY <2>1, <2>2 DEF BoardInv
  <2>3. CASE scan' = [page |-> scan.page + 1, named |-> scan.named \cup TokenPages[scan.page + 1],
                      state |-> IF scan.page + 1 = Len(TokenPages) \/ scan.page + 1 = MAX_PAGES
                                THEN "done" ELSE "scanning"]
    <3>1. scan.page \in Nat /\ scan.page < LastPage /\ scan.named = NamedBy(scan.page)
      BY <2>1 DEF BoardInv
    <3>2. NamedBy(scan.page + 1) = NamedBy(scan.page) \cup TokenPages[scan.page + 1]
      <4>1. \A k : k \in 1..(scan.page + 1) <=> k \in 1..scan.page \/ k = scan.page + 1 BY <3>1
      <4>2. QED BY <4>1 DEF NamedBy
    <3>3. /\ scan'.page = scan.page + 1 /\ scan'.named = NamedBy(scan.page + 1)
          /\ scan'.state = IF scan.page + 1 = Len(TokenPages) \/ scan.page + 1 = MAX_PAGES
                           THEN "done" ELSE "scanning"
      BY <2>3, <3>1, <3>2
    <3>4. /\ scan'.state = "scanning" => scan'.page < LastPage
          /\ scan'.state = "done" => scan'.page = LastPage
          /\ scan'.page \in Nat
      BY <3>1, <3>3, BoardConstants
    <3>5. scan'.named = NamedBy(scan'.page) BY <3>3
    <3>6. QED BY <2>1, <3>4, <3>5 DEF BoardInv, NamedBy, LastPage, Tallies
  <2>4. QED BY <1>3, <2>2, <2>3 DEF Integration!NamesPage
<1>4. QED
  BY <1>0, <1>1, <1>2, <1>3
  DEF Integration!Next, Integration!vars, Integration!boardVars, Integration!SetPolicy,
      Integration!ChooseRow, Integration!SetFee, Integration!Connect, Integration!CollectionsLoad,
      Integration!Pick, Integration!Type, Integration!Register, Integration!LiveRead,
      Integration!Rejected, Integration!Sign

(* The order of the rows, key by key.                                      *)
LEMMA AboveIs ==
    ASSUME BoardInv, NEW c \in Open, NEW d \in Open
    PROVE  /\ Integration!Above(c, d) <=>
                \/ counts[c].count > counts[d].count
                \/ /\ counts[c].count = counts[d].count
                   /\ \/ counts[c].latest > counts[d].latest
                      \/ /\ counts[c].latest = counts[d].latest
                         /\ \/ PublishTimeOf[c] > PublishTimeOf[d]
                            \/ /\ PublishTimeOf[c] = PublishTimeOf[d]
                               /\ IdRankOf[c] < IdRankOf[d]
           /\ counts[c].count \in Int /\ counts[c].latest \in Int
           /\ PublishTimeOf[c] \in Int /\ IdRankOf[c] \in Int
<1> DEFINE x == Integration!Keys(c)
           y == Integration!Keys(d)
<1>1. /\ counts[c].count \in Int /\ counts[c].latest \in Int
      /\ counts[d].count \in Int /\ counts[d].latest \in Int
  <2>1. counts[c] \in [count : Nat, latest : Nat] /\ counts[d] \in [count : Nat, latest : Nat]
    BY DEF BoardInv, Tallies
  <2>2. QED BY <2>1
<1>2. /\ PublishTimeOf[c] \in Int /\ IdRankOf[c] \in Int
      /\ PublishTimeOf[d] \in Int /\ IdRankOf[d] \in Int
  BY BoardConstants
<1>3. /\ x[1] = counts[c].count /\ x[2] = counts[c].latest
      /\ x[3] = PublishTimeOf[c] /\ x[4] = -IdRankOf[c]
  BY DEF Integration!Keys
<1>4. /\ y[1] = counts[d].count /\ y[2] = counts[d].latest
      /\ y[3] = PublishTimeOf[d] /\ y[4] = -IdRankOf[d]
  BY DEF Integration!Keys
<1>5. Integration!Above(c, d) <=> \E k \in 1..4 : x[k] > y[k] /\ \A j \in 1..(k - 1) : x[j] = y[j]
  BY DEF Integration!Above
<1> HIDE DEF x, y
<1>6. Integration!Above(c, d) <=>
        \/ x[1] > y[1]
        \/ x[2] > y[2] /\ x[1] = y[1]
        \/ x[3] > y[3] /\ x[1] = y[1] /\ x[2] = y[2]
        \/ x[4] > y[4] /\ x[1] = y[1] /\ x[2] = y[2] /\ x[3] = y[3]
  <2>1. 1..4 = {1, 2, 3, 4} /\ 1..(1 - 1) = {} /\ 1..(2 - 1) = {1} /\ 1..(3 - 1) = {1, 2}
        /\ 1..(4 - 1) = {1, 2, 3}
    OBVIOUS
  <2>2. QED BY <1>5, <2>1
<1>7. x[4] > y[4] <=> IdRankOf[c] < IdRankOf[d] BY <1>2, <1>3, <1>4
<1>8. QED BY <1>1, <1>2, <1>3, <1>4, <1>6, <1>7

LEMMA BoardHolds == BoardInv => Integration!BoardIsWhole
<1> SUFFICES ASSUME BoardInv, board # {None}, ~countsLoading
             PROVE  /\ Integration!ToSet(Integration!rows) = board
                    /\ Len(Integration!rows) = Integration!Cardinality(board)
                    /\ \A i, j \in DOMAIN Integration!rows :
                         i < j => counts[Integration!rows[i]].count >= counts[Integration!rows[j]].count
                    /\ scan.state = "done" =>
                         \A c \in board : Integration!NameOf(c) = "its creator's" <=>
                           \E n \in DOMAIN TokenPages : n <= MAX_PAGES /\ c \in TokenPages[n]
  BY DEF Integration!BoardIsWhole
<1> DEFINE R == {p \in Open \X Open : Integration!Above(p[1], p[2])}
           N == Cardinality(board)
           s == Integration!rows
<1>1. board \subseteq Open BY DEF BoardInv
<1>2. IsFiniteSet(board) BY <1>1, BoardConstants, FS_Subset
<1>3. \A c, d \in Open : <<c, d>> \in R <=> Integration!Above(c, d) OBVIOUS
<1> HIDE DEF R
<1>4. Orders(R, board)
  <2>1. \A c \in board : ~Integration!Above(c, c) BY <1>1, AboveIs
  <2>2. \A b, c, d \in board : Integration!Above(b, c) /\ Integration!Above(c, d) => Integration!Above(b, d)
    <3> SUFFICES ASSUME NEW b \in board, NEW c \in board, NEW d \in board,
                        Integration!Above(b, c), Integration!Above(c, d)
                 PROVE  Integration!Above(b, d)
      OBVIOUS
    <3>1. b \in Open /\ c \in Open /\ d \in Open BY <1>1
    <3>2. QED BY <3>1, AboveIs
  <2>3. \A c, d \in board : c = d \/ Integration!Above(c, d) \/ Integration!Above(d, c)
    <3> SUFFICES ASSUME NEW c \in board, NEW d \in board, c # d
                 PROVE  Integration!Above(c, d) \/ Integration!Above(d, c)
      OBVIOUS
    <3>1. c \in Open /\ d \in Open /\ IdRankOf[c] # IdRankOf[d] BY <1>1, BoardConstants
    <3>2. QED BY <3>1, AboveIs
  <2>4. \A c, d \in board : <<c, d>> \in R <=> Integration!Above(c, d) BY <1>1, <1>3
  <2>5. QED BY <2>1, <2>2, <2>3, <2>4 DEF Orders
<1>5. /\ N \in Nat
      /\ \A m \in board : Rank(m, R, board) \in 0..(N - 1)
      /\ \A k \in 0..(N - 1) : \E m \in board : Rank(m, R, board) = k
      /\ \A m, n \in board : <<m, n>> \in R <=> Rank(m, R, board) < Rank(n, R, board)
      /\ \A m, n \in board : Rank(m, R, board) = Rank(n, R, board) => m = n
  BY <1>2, <1>4, Ranks
<1>6. \A S : Integration!Cardinality(S) = Cardinality(S)
  BY DEF Integration!Cardinality, Cardinality
<1>7. s = [k \in 1..N |-> CHOOSE c \in board : Rank(c, R, board) = k - 1]
  <2>1. s = [k \in 1..Integration!Cardinality(board) |->
               CHOOSE c \in board :
                 Integration!Cardinality({d \in board : Integration!Above(d, c)}) = k - 1]
    BY DEF Integration!rows, Integration!Joined
  <2>2. \A c \in board :
          Integration!Cardinality({d \in board : Integration!Above(d, c)}) = Rank(c, R, board)
    <3> SUFFICES ASSUME NEW c \in board
                 PROVE  Integration!Cardinality({d \in board : Integration!Above(d, c)})
                          = Rank(c, R, board)
      OBVIOUS
    <3>1. {d \in board : Integration!Above(d, c)} = {d \in board : <<d, c>> \in R}
      BY <1>1, <1>3
    <3>2. QED BY <1>6, <3>1 DEF Rank
  <2>3. Integration!Cardinality(board) = N BY <1>6
  <2> HIDE DEF s, N
  <2>4. QED BY <2>1, <2>2, <2>3
<1> HIDE DEF s, N
<1>8. \A k \in 1..N : s[k] \in board /\ Rank(s[k], R, board) = k - 1
  <2> SUFFICES ASSUME NEW k \in 1..N PROVE s[k] \in board /\ Rank(s[k], R, board) = k - 1
    OBVIOUS
  <2>1. k - 1 \in 0..(N - 1) BY <1>5
  <2>2. \E m \in board : Rank(m, R, board) = k - 1 BY <1>5, <2>1
  <2>3. s[k] = CHOOSE m \in board : Rank(m, R, board) = k - 1 BY <1>7
  <2>4. QED BY <2>2, <2>3
<1>9. s \in [1..N -> board] BY <1>7, <1>8
<1>10. DOMAIN s = 1..N /\ Len(s) = N BY <1>5, <1>9
<1>11. Integration!ToSet(s) = board
  <2>1. ASSUME NEW m \in board PROVE \E i \in 1..N : s[i] = m
    <3> DEFINE i == Rank(m, R, board) + 1
    <3>1. i \in 1..N /\ i - 1 = Rank(m, R, board)
      <4>1. Rank(m, R, board) \in 0..(N - 1) BY <1>5
      <4>2. QED BY <1>5, <4>1
    <3> HIDE DEF i
    <3>2. s[i] \in board /\ Rank(s[i], R, board) = Rank(m, R, board) BY <1>8, <3>1
    <3>3. QED BY <1>5, <3>1, <3>2
  <2>2. QED BY <1>8, <1>10, <2>1 DEF Integration!ToSet
<1>12. ASSUME NEW i \in DOMAIN s, NEW j \in DOMAIN s, i < j
       PROVE  counts[s[i]].count >= counts[s[j]].count
  <2>1. s[i] \in board /\ s[j] \in board /\ i \in 1..N /\ j \in 1..N BY <1>8, <1>10
  <2>2. i - 1 < j - 1 BY <1>12, <2>1
  <2>3. <<s[i], s[j]>> \in R BY <1>5, <1>8, <2>1, <2>2
  <2>4. s[i] \in Open /\ s[j] \in Open BY <1>1, <2>1
  <2>5. Integration!Above(s[i], s[j]) BY <1>3, <2>3, <2>4
  <2>6. QED BY <2>4, <2>5, AboveIs
<1>13. ASSUME scan.state = "done", NEW c \in board
       PROVE  Integration!NameOf(c) = "its creator's" <=>
                \E n \in DOMAIN TokenPages : n <= MAX_PAGES /\ c \in TokenPages[n]
  <2>1. scan.named = NamedBy(LastPage) BY <1>13 DEF BoardInv
  <2>2. \A n : n \in 1..LastPage <=> n \in DOMAIN TokenPages /\ n <= MAX_PAGES
    <3>1. DOMAIN TokenPages = 1..Len(TokenPages) BY BoardConstants
    <3>2. /\ Len(TokenPages) \in Nat /\ MAX_PAGES \in Nat /\ LastPage \in Nat
          /\ LastPage <= Len(TokenPages) /\ LastPage <= MAX_PAGES
          /\ LastPage = Len(TokenPages) \/ LastPage = MAX_PAGES
      BY BoardConstants
    <3> DEFINE len == Len(TokenPages)
    <3> HIDE DEF len, LastPage
    <3>3. \A n : n \in 1..LastPage <=> n \in 1..len /\ n <= MAX_PAGES BY <3>2 DEF len
    <3>4. QED BY <3>1, <3>3 DEF len
  <2>3. c \in scan.named <=> \E n \in 1..LastPage : c \in TokenPages[n] BY <2>1 DEF NamedBy
  <2>4. Integration!NameOf(c) = "its creator's" <=> c \in scan.named
    BY <1>13 DEF Integration!NameOf
  <2>5. QED BY <2>2, <2>3, <2>4
<1>14. Len(s) = Integration!Cardinality(board) BY <1>6, <1>10 DEF N
<1>15. QED BY <1>11, <1>12, <1>13, <1>14 DEF s

-----------------------------------------------------------------------------
(* Numerals.  A digit is what one cut takes off, and cuts keep the order.  *)
LEMMA UploadConstants ==
  /\ Digits \in Nat /\ Digits > 1 /\ PadWidth \in Nat \ {0}
  /\ \A plan \in Plans : plan[1] \in Nat \ {0} /\ plan[2] \in Nat \ {0}
  BY StorefrontAssumption DEF Upload!UploadAssumption

LEMMA Dividing ==
    ASSUME NEW d \in Nat, d > 1, NEW a \in Nat
    PROVE  /\ a \div d \in Nat /\ a % d \in 0..(d - 1)
           /\ a = d * (a \div d) + (a % d)
           /\ a \div d <= a /\ (a > 0 => a \div d < a)
<1>1. a \div d \in Int /\ a % d \in 0..(d - 1) /\ a = d * (a \div d) + (a % d)
  <2>1. a \div d \in Int OBVIOUS
  <2>2. a % d \in 0..(d - 1) OBVIOUS
  <2>3. a = d * (a \div d) + (a % d) OBVIOUS
  <2>4. QED BY <2>1, <2>2, <2>3
<1> DEFINE q == a \div d
           r == a % d
<1>2. q \in Int /\ r \in Int /\ 0 <= r /\ r < d /\ a = d * q + r BY <1>1
<1> HIDE DEF q, r
<1>3. q >= 0
  <2> SUFFICES ASSUME q <= 0 - 1 PROVE FALSE
    BY <1>2
  <2>1. d * q <= d * (0 - 1) BY <1>2
  <2>2. d * (0 - 1) = 0 - d OBVIOUS
  <2>3. QED BY <1>2, <2>1, <2>2
<1>4. d * q >= 2 * q BY <1>2, <1>3
<1>5. q <= a /\ (a > 0 => q < a) BY <1>2, <1>3, <1>4
<1>6. QED BY <1>1, <1>3, <1>5 DEF q, r

LEMMA DividingKeepsOrder ==
    ASSUME NEW d \in Nat, d > 1, NEW a \in Nat, NEW b \in Nat, a <= b
    PROVE  a \div d <= b \div d /\ (a \div d = b \div d => a % d <= b % d)
<1> DEFINE q == a \div d
           r == a % d
           s == b \div d
           t == b % d
<1>1. q \in Nat /\ r \in 0..(d - 1) /\ a = d * q + r BY Dividing
<1>2. s \in Nat /\ t \in 0..(d - 1) /\ b = d * s + t BY Dividing
<1> HIDE DEF q, r, s, t
<1>3. q <= s
  <2> SUFFICES ASSUME q >= s + 1 PROVE FALSE
    BY <1>1, <1>2
  <2>1. d * q >= d * (s + 1) BY <1>1, <1>2
  <2>2. d * (s + 1) = d * s + d BY <1>2
  <2>3. QED BY <1>1, <1>2, <2>1, <2>2
<1>4. q = s => r <= t BY <1>1, <1>2
<1>5. QED BY <1>3, <1>4 DEF q, r, s, t

CutsTo(n, m) ==
    {f \in [0..m -> Nat] : f[0] = n /\ \A i \in 1..m : f[i] = f[i - 1] \div Digits}

LEMMA CutsExist == ASSUME NEW n \in Nat, NEW m \in Nat PROVE CutsTo(n, m) # {}
<1> DEFINE S == {k \in Nat : CutsTo(n, k) # {}}
<1>1. 0 \in S
  <2>1. [i \in 0..0 |-> n] \in CutsTo(n, 0) BY DEF CutsTo
  <2>2. QED BY <2>1
<1>2. ASSUME NEW k \in 0..m - 1, k \in S PROVE k + 1 \in S
  <2>1. k \in Nat /\ k + 1 \in Nat OBVIOUS
  <2>2. PICK f : f \in CutsTo(n, k) BY <1>2
  <2>3. f \in [0..k -> Nat] /\ f[0] = n /\ \A i \in 1..k : f[i] = f[i - 1] \div Digits
    BY <2>2 DEF CutsTo
  <2> DEFINE last == f[k] \div Digits
             g == [i \in 0..k + 1 |-> IF i <= k THEN f[i] ELSE last]
  <2>4. last \in Nat
    <3>1. f[k] \in Nat BY <2>1, <2>3
    <3>2. QED BY <3>1, Dividing, UploadConstants
  <2> HIDE DEF last
  <2>5. g \in [0..k + 1 -> Nat] BY <2>1, <2>3, <2>4
  <2>6. g[0] = n /\ g[k + 1] = last /\ \A i \in 0..k : g[i] = f[i] BY <2>1, <2>3
  <2>7. \A i \in 1..k + 1 : g[i] = g[i - 1] \div Digits
    <3> HIDE DEF g
    <3>1. ASSUME NEW i \in 1..k PROVE g[i] = g[i - 1] \div Digits
      <4>1. i \in 0..k /\ i - 1 \in 0..k OBVIOUS
      <4>2. QED BY <4>1, <2>3, <2>6
    <3>2. (k + 1) - 1 = k /\ g[k] = f[k] BY <2>1, <2>6
    <3>3. g[k + 1] = g[(k + 1) - 1] \div Digits BY <3>2, <2>6 DEF last
    <3>4. \A i \in 1..k + 1 : i \in 1..k \/ i = k + 1 BY <2>1
    <3>5. QED BY <3>1, <3>3, <3>4
  <2>8. g \in CutsTo(n, k + 1)
    <3> HIDE DEF g
    <3>1. QED BY <2>5, <2>6, <2>7 DEF CutsTo
  <2>9. QED BY <2>1, <2>8
<1> HIDE DEF S
<1>3. m \in S BY <1>1, <1>2, CountUp
<1>4. QED BY <1>3 DEF S

LEMMA CutIsThis ==
    ASSUME NEW n \in Nat, NEW m \in Nat
    PROVE  \E f \in CutsTo(n, m) : Upload!Cut(n, m) = f[m]
<1> DEFINE A(f) == f = [i \in 0..m |-> IF i = 0 THEN n ELSE f[i - 1] \div Digits]
           h == CHOOSE g : A(g)
           S == {k \in Nat : k <= m => h[k] \in Nat}
<1>1. PICK f : f \in CutsTo(n, m) BY CutsExist
<1>2. A(f)
  <2>1. f \in [0..m -> Nat] /\ f[0] = n /\ \A i \in 1..m : f[i] = f[i - 1] \div Digits
    BY <1>1 DEF CutsTo
  <2>2. \A i \in 0..m : i = 0 \/ i \in 1..m OBVIOUS
  <2>3. \A i \in 0..m : f[i] = IF i = 0 THEN n ELSE f[i - 1] \div Digits BY <2>1, <2>2
  <2>4. QED BY <2>1, <2>3
<1>3. Upload!Cut(n, m) = h[m] BY DEF Upload!Cut
<1>4. A(h) BY <1>2
<1> HIDE DEF h
<1>5. h[0] = n /\ \A i \in 1..m : h[i] = h[i - 1] \div Digits
  <2>1. 0 \in 0..m /\ \A i \in 1..m : i \in 0..m /\ i # 0 OBVIOUS
  <2>2. QED BY <1>4, <2>1
<1>6. 0 \in S BY <1>5
<1>7. ASSUME NEW k \in 0..m - 1, k \in S PROVE k + 1 \in S
  <2>1. k \in Nat /\ k <= m /\ k + 1 \in 1..m /\ (k + 1) - 1 = k OBVIOUS
  <2>2. h[k] \in Nat /\ h[k + 1] = h[k] \div Digits BY <1>5, <1>7, <2>1
  <2>3. h[k + 1] \in Nat BY <2>2, Dividing, UploadConstants
  <2>4. QED BY <2>1, <2>3
<1>8. 0..m \subseteq S
  <2> HIDE DEF S
  <2>1. QED BY <1>6, <1>7, CountUp
<1>9. h \in [0..m -> Nat]
  <2>1. \A k \in 0..m : h[k] \in Nat BY <1>8
  <2>2. QED BY <1>4, <2>1
<1>10. h \in CutsTo(n, m) BY <1>5, <1>9 DEF CutsTo
<1>11. QED BY <1>3, <1>10

LEMMA Cutting ==
    ASSUME NEW n \in Nat, NEW k \in Nat
    PROVE  /\ Upload!Cut(n, 0) = n /\ Upload!Cut(n, k) \in Nat
           /\ Upload!Cut(n, k + 1) = Upload!Cut(n, k) \div Digits
<1>1. PICK f \in CutsTo(n, k) : Upload!Cut(n, k) = f[k] BY CutIsThis
<1>2. PICK g \in CutsTo(n, k + 1) : Upload!Cut(n, k + 1) = g[k + 1] BY CutIsThis
<1>3. PICK h \in CutsTo(n, 0) : Upload!Cut(n, 0) = h[0] BY CutIsThis
<1>4. f \in [0..k -> Nat] /\ f[0] = n /\ \A i \in 1..k : f[i] = f[i - 1] \div Digits
  BY <1>1 DEF CutsTo
<1>5. g \in [0..k + 1 -> Nat] /\ g[0] = n /\ \A i \in 1..k + 1 : g[i] = g[i - 1] \div Digits
  BY <1>2 DEF CutsTo
<1> DEFINE S == {i \in Nat : i <= k => f[i] = g[i]}
<1>6. 0 \in S BY <1>4, <1>5
<1>7. ASSUME NEW i \in 0..k - 1, i \in S PROVE i + 1 \in S
  <2>1. i \in Nat /\ i <= k /\ i + 1 \in 1..k /\ i + 1 \in 1..k + 1 /\ (i + 1) - 1 = i OBVIOUS
  <2>2. f[i] = g[i] BY <1>7, <2>1
  <2>3. f[i + 1] = f[i] \div Digits /\ g[i + 1] = g[i] \div Digits BY <1>4, <1>5, <2>1
  <2>4. QED BY <2>1, <2>2, <2>3
<1> HIDE DEF S
<1>8. k \in S BY <1>6, <1>7, CountUp
<1>9. f[k] = g[k] BY <1>8 DEF S
<1>10. k + 1 \in 1..k + 1 /\ (k + 1) - 1 = k /\ k \in 0..k OBVIOUS
<1>11. g[k + 1] = g[k] \div Digits BY <1>5, <1>10
<1>12. h[0] = n BY <1>3 DEF CutsTo
<1>13. QED BY <1>1, <1>2, <1>3, <1>4, <1>9, <1>10, <1>11, <1>12

LEMMA CutsKeepOrder ==
    ASSUME NEW m \in Nat, NEW n \in Nat, m <= n, NEW k \in Nat
    PROVE  Upload!Cut(m, k) <= Upload!Cut(n, k)
<1> DEFINE S == {i \in Nat : Upload!Cut(m, i) <= Upload!Cut(n, i)}
<1>1. 0 \in S
  <2>1. Upload!Cut(m, 0) = m /\ Upload!Cut(n, 0) = n BY Cutting
  <2>2. QED BY <2>1
<1>2. ASSUME NEW i \in 0..k - 1, i \in S PROVE i + 1 \in S
  <2>1. i \in Nat /\ i + 1 \in Nat OBVIOUS
  <2>2. /\ Upload!Cut(m, i) \in Nat /\ Upload!Cut(m, i + 1) = Upload!Cut(m, i) \div Digits
        /\ Upload!Cut(n, i) \in Nat /\ Upload!Cut(n, i + 1) = Upload!Cut(n, i) \div Digits
    BY <2>1, Cutting
  <2>3. Upload!Cut(m, i) <= Upload!Cut(n, i) BY <1>2
  <2>4. Upload!Cut(m, i + 1) <= Upload!Cut(n, i + 1)
    BY <2>2, <2>3, DividingKeepsOrder, UploadConstants
  <2>5. QED BY <2>1, <2>4
<1> HIDE DEF S
<1>3. k \in S BY <1>1, <1>2, CountUp
<1>4. QED BY <1>3 DEF S

(* A number has no more digits than its value, and none after its last.    *)
LEMMA CutsVanish == ASSUME NEW n \in Nat PROVE Upload!Cut(n, n + 1) = 0
<1> DEFINE S == {i \in Nat : i <= n => Upload!Cut(n, i) <= n - i}
<1>1. 0 \in S
  <2>1. Upload!Cut(n, 0) = n BY Cutting
  <2>2. QED BY <2>1
<1>2. ASSUME NEW i \in 0..n - 1, i \in S PROVE i + 1 \in S
  <2>1. i \in Nat /\ i + 1 \in Nat /\ i <= n /\ n - i >= 1 OBVIOUS
  <2>2. Upload!Cut(n, i) \in Nat /\ Upload!Cut(n, i + 1) = Upload!Cut(n, i) \div Digits
    BY <2>1, Cutting
  <2>3. Upload!Cut(n, i) <= n - i BY <1>2, <2>1
  <2> DEFINE a == Upload!Cut(n, i)
             b == Upload!Cut(n, i + 1)
  <2>4. b \in Nat /\ b <= a /\ (a > 0 => b < a) BY <2>2, Dividing, UploadConstants
  <2>5. a \in Nat /\ a <= n - i BY <2>2, <2>3
  <2> HIDE DEF a, b
  <2>6. b <= n - (i + 1) BY <2>1, <2>4, <2>5
  <2>7. QED BY <2>1, <2>6 DEF b
<1> HIDE DEF S
<1>3. n \in S BY <1>1, <1>2, CountUp
<1>4. Upload!Cut(n, n) <= 0 /\ Upload!Cut(n, n) \in Nat BY <1>3, Cutting DEF S
<1>5. Upload!Cut(n, n + 1) = 0 \div Digits BY <1>4, Cutting
<1>6. QED BY <1>5, Dividing, UploadConstants

LEMMA CutsStayGone ==
    ASSUME NEW n \in Nat, NEW k \in Nat, NEW l \in Nat, Upload!Cut(n, k) = 0
    PROVE  Upload!Cut(n, k + l) = 0
<1> DEFINE S == {i \in Nat : Upload!Cut(n, k + i) = 0}
<1>1. 0 \in S BY k + 0 = k
<1>2. ASSUME NEW i \in 0..l - 1, i \in S PROVE i + 1 \in S
  <2>1. i \in Nat /\ i + 1 \in Nat /\ k + i \in Nat /\ k + (i + 1) = (k + i) + 1 OBVIOUS
  <2>2. Upload!Cut(n, k + i) = 0 BY <1>2
  <2>3. Upload!Cut(n, (k + i) + 1) = 0 \div Digits BY <2>1, <2>2, Cutting
  <2>4. Upload!Cut(n, k + (i + 1)) = 0 BY <2>1, <2>3, Dividing, UploadConstants
  <2>5. QED BY <2>1, <2>4
<1> HIDE DEF S
<1>3. l \in S BY <1>1, <1>2, CountUp
<1>4. QED BY <1>3 DEF S

(* The greater of two.                                                     *)
LEMMA Greater ==
    ASSUME NEW a \in Int, NEW b \in Int
    PROVE  Upload!Max({a, b}) \in {a, b} /\ Upload!Max({a, b}) >= a /\ Upload!Max({a, b}) >= b
<1>1. \E x \in {a, b} : \A y \in {a, b} : x >= y
  <2>1. CASE a >= b BY <2>1
  <2>2. CASE b >= a BY <2>2
  <2>3. QED BY <2>1, <2>2
<1>2. Upload!Max({a, b}) \in {a, b} /\ \A y \in {a, b} : Upload!Max({a, b}) >= y
  BY <1>1 DEF Upload!Max
<1>3. QED BY <1>2

LEMMA NumberWidths ==
    ASSUME NEW n \in Nat
    PROVE  /\ Upload!NumberWidth(n) \in 1..(n + 1) /\ Upload!Cut(n, Upload!NumberWidth(n)) = 0
           /\ \A w \in 1..(n + 1) : Upload!Cut(n, w) = 0 => Upload!NumberWidth(n) <= w
<1> DEFINE W == {w \in 1..(n + 1) : Upload!Cut(n, w) = 0}
<1>1. n + 1 \in W BY CutsVanish
<1>2. W \in SUBSET Nat /\ W # {} BY <1>1
<1>3. \E x \in W : \A y \in W : x <= y BY <1>2, LeastOne
<1>4. Upload!NumberWidth(n) = Upload!Min(W) BY DEF Upload!NumberWidth
<1>5. Upload!Min(W) \in W /\ \A y \in W : Upload!Min(W) <= y BY <1>3 DEF Upload!Min
<1>6. QED BY <1>4, <1>5

(* An identifier is as wide as those of its quilt, and holds all digits.   *)
LEMMA Identifiers ==
    ASSUME NEW count \in Nat \ {0}, NEW n \in 0..(count - 1)
    PROVE  /\ Upload!WidthOf(count) \in Nat \ {0}
           /\ Upload!Cut(n, Upload!WidthOf(count)) = 0
           /\ Upload!identifier(n, count) =
                [p \in 1..Upload!WidthOf(count) |-> Upload!Cut(n, Upload!WidthOf(count) - p) % Digits]
<1> DEFINE last == count - 1
           v == Upload!NumberWidth(n)
           u == Upload!NumberWidth(last)
           w == Upload!WidthOf(count)
<1>1. last \in Nat /\ n \in Nat /\ n <= last OBVIOUS
<1>2. v \in 1..(n + 1) /\ Upload!Cut(n, v) = 0
      /\ \A x \in 1..(n + 1) : Upload!Cut(n, x) = 0 => v <= x
  BY <1>1, NumberWidths
<1>3. u \in 1..(last + 1) /\ Upload!Cut(last, u) = 0 BY <1>1, NumberWidths
<1>4. w = Upload!Max({PadWidth, u}) BY DEF Upload!WidthOf
<1>5. Upload!identifier(n, count) =
        [p \in 1..Upload!Max({v, w}) |-> Upload!Cut(n, Upload!Max({v, w}) - p) % Digits]
  BY DEF Upload!identifier
<1> HIDE DEF v, u, w, last
<1>6. w \in {PadWidth, u} /\ w >= u /\ u \in Nat \ {0} /\ w \in Nat \ {0}
  <2>1. PadWidth \in Int /\ u \in Int /\ PadWidth \in Nat \ {0} BY <1>1, <1>3, UploadConstants
  <2>2. w \in {PadWidth, u} /\ w >= u BY <1>4, <2>1, Greater
  <2>3. u \in Nat \ {0} BY <1>1, <1>3
  <2>4. QED BY <2>1, <2>2, <2>3
<1>7. Upload!Cut(n, u) = 0
  <2>1. Upload!Cut(n, u) <= Upload!Cut(last, u) BY <1>1, <1>6, CutsKeepOrder
  <2>2. Upload!Cut(n, u) \in Nat BY <1>1, <1>6, Cutting
  <2>3. QED BY <1>3, <2>1, <2>2
<1>8. v <= u
  <2>1. CASE u \in 1..(n + 1) BY <1>2, <1>7, <2>1
  <2>2. CASE u > n + 1 BY <1>1, <1>2, <1>6, <2>2
  <2>3. QED BY <1>1, <1>6, <2>1, <2>2
<1>9. Upload!Max({v, w}) = w
  <2>1. v \in Int /\ w \in Int /\ v <= w BY <1>1, <1>2, <1>6, <1>8
  <2>2. Upload!Max({v, w}) \in {v, w} /\ Upload!Max({v, w}) >= w BY <2>1, Greater
  <2>3. QED BY <2>1, <2>2
<1>10. Upload!Cut(n, w) = 0
  <2>1. w - u \in Nat /\ u + (w - u) = w BY <1>6
  <2>2. QED BY <1>1, <1>6, <1>7, <2>1, CutsStayGone
<1>11. QED BY <1>5, <1>6, <1>9, <1>10 DEF w

(* Of two numbers, the first digit that differs is less in the lesser one. *)
LEMMA FirstDifference ==
    ASSUME NEW m \in Nat, NEW n \in Nat, m < n, NEW w \in Nat \ {0},
           Upload!Cut(m, w) = 0, Upload!Cut(n, w) = 0
    PROVE  \E p \in 1..w :
             /\ Upload!Cut(m, w - p) % Digits < Upload!Cut(n, w - p) % Digits
             /\ \A q \in 1..(p - 1) : Upload!Cut(m, w - q) % Digits = Upload!Cut(n, w - q) % Digits
<1> DEFINE T == {p \in 1..w : Upload!Cut(m, w - p) # Upload!Cut(n, w - p)}
<1>1. w \in T
  <2>1. w - w = 0 /\ w \in 1..w OBVIOUS
  <2>2. Upload!Cut(m, 0) = m /\ Upload!Cut(n, 0) = n BY Cutting
  <2>3. QED BY <2>1, <2>2
<1>2. T \in SUBSET Nat /\ T # {} BY <1>1
<1>3. PICK p \in T : \A q \in T : p <= q BY <1>2, LeastOne
<1>4. p \in 1..w /\ Upload!Cut(m, w - p) # Upload!Cut(n, w - p) OBVIOUS
<1>5. \A q \in 1..(p - 1) : Upload!Cut(m, w - q) = Upload!Cut(n, w - q)
  <2> SUFFICES ASSUME NEW q \in 1..(p - 1), Upload!Cut(m, w - q) # Upload!Cut(n, w - q)
               PROVE  FALSE
    OBVIOUS
  <2>1. q \in 1..w /\ q < p BY <1>4
  <2>2. q \in T BY <2>1
  <2>3. QED BY <1>3, <2>1, <2>2
<1>6. Upload!Cut(m, (w - p) + 1) = Upload!Cut(n, (w - p) + 1)
  <2>1. CASE p = 1
    <3>1. (w - p) + 1 = w BY <2>1
    <3>2. QED BY <3>1
  <2>2. CASE p # 1
    <3>1. p - 1 \in 1..(p - 1) /\ w - (p - 1) = (w - p) + 1 BY <1>4, <2>2
    <3>2. QED BY <1>5, <3>1
  <2>3. QED BY <2>1, <2>2
<1> DEFINE a == Upload!Cut(m, w - p)
           b == Upload!Cut(n, w - p)
<1>7. w - p \in Nat BY <1>4
<1>8. a \in Nat /\ b \in Nat /\ a <= b /\ a # b /\ a \div Digits = b \div Digits
  <2>1. /\ Upload!Cut(m, (w - p) + 1) = a \div Digits /\ a \in Nat
        /\ Upload!Cut(n, (w - p) + 1) = b \div Digits /\ b \in Nat
    BY <1>7, Cutting
  <2>2. a <= b BY <1>7, CutsKeepOrder
  <2>3. QED BY <1>4, <1>6, <2>1, <2>2
<1> HIDE DEF a, b, T
<1>9. a % Digits < b % Digits
  <2>1. a % Digits <= b % Digits BY <1>8, DividingKeepsOrder, UploadConstants
  <2>2. /\ a = Digits * (a \div Digits) + (a % Digits) /\ a % Digits \in 0..(Digits - 1)
        /\ b = Digits * (b \div Digits) + (b % Digits) /\ b % Digits \in 0..(Digits - 1)
    BY <1>8, Dividing, UploadConstants
  <2>3. a % Digits # b % Digits BY <1>8, <2>2
  <2>4. a % Digits \in Int /\ b % Digits \in Int BY <2>2, UploadConstants
  <2>5. QED BY <2>1, <2>3, <2>4
<1>10. QED BY <1>4, <1>5, <1>9 DEF a, b

(* Identifiers of one quilt sort as their numbers do.                      *)
LEMMA IdentifiersSort ==
    ASSUME NEW count \in Nat \ {0}, NEW m \in 0..(count - 1), NEW n \in 0..(count - 1)
    PROVE  Upload!Lexicographic(Upload!identifier(m, count), Upload!identifier(n, count)) <=> m < n
<1> DEFINE w == Upload!WidthOf(count)
           Id(x) == [p \in 1..w |-> Upload!Cut(x, w - p) % Digits]
<1>1. w \in Nat \ {0} BY Identifiers
<1>2. \A x \in 0..(count - 1) : Upload!identifier(x, count) = Id(x) /\ Upload!Cut(x, w) = 0
  BY Identifiers
<1> HIDE DEF w
<1>3. \A x : DOMAIN Id(x) = 1..w /\ \A p \in 1..w : Id(x)[p] = Upload!Cut(x, w - p) % Digits
  OBVIOUS
<1>4. \A x \in 0..(count - 1) : \A p \in 1..w : Id(x)[p] \in Int
  <2> SUFFICES ASSUME NEW x \in 0..(count - 1), NEW p \in 1..w PROVE Id(x)[p] \in Int
    OBVIOUS
  <2>1. x \in Nat /\ w - p \in Nat BY <1>1
  <2>2. Upload!Cut(x, w - p) \in Nat BY <2>1, Cutting
  <2>3. Upload!Cut(x, w - p) % Digits \in 0..(Digits - 1) BY <2>2, Dividing, UploadConstants
  <2>4. QED BY <1>3, <2>3, UploadConstants
<1>5. \A x, y \in 0..(count - 1) : x < y =>
        \E p \in 1..w : Id(x)[p] < Id(y)[p] /\ \A q \in 1..(p - 1) : Id(x)[q] = Id(y)[q]
  <2> SUFFICES ASSUME NEW x \in 0..(count - 1), NEW y \in 0..(count - 1), x < y
               PROVE  \E p \in 1..w : /\ Id(x)[p] < Id(y)[p]
                                      /\ \A q \in 1..(p - 1) : Id(x)[q] = Id(y)[q]
    OBVIOUS
  <2>1. x \in Nat /\ y \in Nat OBVIOUS
  <2>2. PICK p \in 1..w :
          /\ Upload!Cut(x, w - p) % Digits < Upload!Cut(y, w - p) % Digits
          /\ \A q \in 1..(p - 1) : Upload!Cut(x, w - q) % Digits = Upload!Cut(y, w - q) % Digits
    BY <1>1, <1>2, <2>1, FirstDifference
  <2>3. \A q \in 1..(p - 1) : q \in 1..w BY <1>1
  <2>4. QED BY <1>3, <2>2, <2>3
<1>6. \A x, y \in 0..(count - 1) : Upload!IsPrefix(Id(x), Id(y)) => Id(x) = Id(y)
  <2> SUFFICES ASSUME NEW x \in 0..(count - 1), NEW y \in 0..(count - 1),
                      Upload!IsPrefix(Id(x), Id(y))
               PROVE  Id(x) = Id(y)
    OBVIOUS
  <2>1. Id(x) \in Seq(Int) /\ Id(y) \in Seq(Int)
    <3>1. Id(x) \in [1..w -> Int] /\ Id(y) \in [1..w -> Int] BY <1>3, <1>4
    <3> HIDE DEF Id
    <3>2. QED BY <1>1, <3>1
  <2>2. Len(Id(x)) = w /\ Len(Id(y)) = w BY <1>1, <1>3, <2>1
  <2>3. SubSeq(Id(x), 1, w) = SubSeq(Id(y), 1, w) BY <2>2 DEF Upload!IsPrefix
  <2>4. ASSUME NEW s \in Seq(Int), Len(s) = w PROVE SubSeq(s, 1, w) = s
    BY <1>1, <2>4
  <2> HIDE DEF Id
  <2>5. QED BY <2>1, <2>2, <2>3, <2>4
<1> HIDE DEF Id
<1> DEFINE a == Id(m)
           b == Id(n)
<1>7. Upload!Lexicographic(a, b) =>
        \E p \in 1..w : a[p] < b[p] /\ \A q \in 1..(p - 1) : a[q] = b[q]
  BY <1>3, <1>6 DEF Upload!Lexicographic
<1>8. (\E p \in 1..w : a[p] < b[p] /\ \A q \in 1..(p - 1) : a[q] = b[q]) =>
        Upload!Lexicographic(a, b)
  BY <1>3 DEF Upload!Lexicographic
<1>9. CASE m < n BY <1>2, <1>5, <1>8, <1>9
<1>10. CASE m = n
  <2>1. \A p \in 1..w : ~(a[p] < b[p]) BY <1>4, <1>10
  <2>2. QED BY <1>2, <1>7, <1>10, <2>1
<1>11. CASE n < m
  <2>1. PICK p \in 1..w : b[p] < a[p] /\ \A q \in 1..(p - 1) : b[q] = a[q] BY <1>5, <1>11
  <2>2. ASSUME NEW r \in 1..w, a[r] < b[r], \A q \in 1..(r - 1) : a[q] = b[q] PROVE FALSE
    <3>1. a[r] \in Int /\ b[r] \in Int /\ a[p] \in Int /\ b[p] \in Int BY <1>4
    <3>2. r # p BY <2>1, <2>2, <3>1
    <3>3. r \in 1..(p - 1) \/ p \in 1..(r - 1) BY <1>1, <3>2
    <3>4. QED BY <2>1, <2>2, <3>1, <3>3
  <2>3. QED BY <1>2, <1>7, <1>11, <2>2
<1>12. QED BY <1>9, <1>10, <1>11

(* The files of a quilt come back in the order they were given.            *)
LEMMA QuiltInOrder ==
    ASSUME NEW r, r.files \in Nat, r.size \in Nat \ {0}, NEW q \in Nat, q * r.size < r.files
    PROVE  LET first == q * r.size
               count == IF first + r.size > r.files THEN r.files - first ELSE r.size
           IN  count \in Nat \ {0} /\ Upload!listFiles(r, q) = [k \in 1..count |-> first + k]
<1> DEFINE first == q * r.size
           count == IF first + r.size > r.files THEN r.files - first ELSE r.size
           Here == 0..(count - 1)
           Before(m) == {n \in 0..(count - 1) : Upload!Lexicographic(Upload!identifier(n, count),
                                                              Upload!identifier(m, count))}
           packed == [k \in 1..count |->
                        CHOOSE m \in 0..(count - 1) : Upload!Cardinality(Before(m)) = k - 1]
<1>1. first \in Nat
  <2>1. \A x, y \in Nat : x * y \in Nat OBVIOUS
  <2>2. QED BY <2>1
<1>2. first < r.files OBVIOUS
<1>3. Upload!listFiles(r, q) = [k \in 1..count |-> first + packed[k] + 1]
  BY DEF Upload!listFiles
<1> HIDE DEF first
<1>4. count \in Nat \ {0} BY <1>1, <1>2
<1> HIDE DEF count
<1>5. \A m \in Here : Upload!Cardinality(Before(m)) = m
  <2> SUFFICES ASSUME NEW m \in Here PROVE Upload!Cardinality(Before(m)) = m
    OBVIOUS
  <2>1. \A n \in Here : n \in Before(m) <=> n < m BY <1>4, IdentifiersSort
  <2>2. Before(m) = 0..(m - 1)
    <3> HIDE DEF Before
    <3>1. Before(m) \subseteq Here BY DEF Before
    <3>2. \A n : n \in 0..(m - 1) <=> n \in Here /\ n < m BY <1>4
    <3>3. QED BY <2>1, <3>1, <3>2
  <2>3. 0 \in Int /\ m - 1 \in Int /\ m \in Nat BY <1>4
  <2>4. Cardinality(0..(m - 1)) = IF 0 > m - 1 THEN 0 ELSE (m - 1) - 0 + 1 BY <2>3, FS_Interval
  <2>5. Cardinality(0..(m - 1)) = m BY <2>3, <2>4
  <2>6. Upload!Cardinality(Before(m)) = Cardinality(Before(m))
    BY DEF Cardinality, Upload!Cardinality
  <2>7. QED BY <2>2, <2>5, <2>6
<1>6. \A k \in 1..count : packed[k] = k - 1
  <2> SUFFICES ASSUME NEW k \in 1..count PROVE packed[k] = k - 1
    OBVIOUS
  <2>1. packed[k] = CHOOSE m \in Here : Upload!Cardinality(Before(m)) = k - 1 OBVIOUS
  <2>2. k - 1 \in Here BY <1>4
  <2>3. packed[k] \in Here /\ Upload!Cardinality(Before(packed[k])) = k - 1
    <3>1. \E m \in Here : Upload!Cardinality(Before(m)) = k - 1 BY <1>5, <2>2
    <3> HIDE DEF Before, packed
    <3>2. QED BY <2>1, <3>1
  <2> HIDE DEF packed, Before
  <2>4. QED BY <1>5, <2>3
<1>7. \A k \in 1..count : first + packed[k] + 1 = first + k
  <2> HIDE DEF packed
  <2>1. QED BY <1>1, <1>4, <1>6
<1>8. [k \in 1..count |-> first + packed[k] + 1] = [k \in 1..count |-> first + k]
  <2> HIDE DEF packed
  <2>1. QED BY <1>7
<1>9. QED BY <1>3, <1>4, <1>8 DEF first, count

(* What a run has stored before its step: its quilts so far, whole.        *)
LandedBefore(q, step) ==
  ({"register", "certify"} \X (0..(q - 1)))
  \cup (IF step \in {"relay-upload", "awaiting-certify", "listing"} THEN {<<"register", q>>} ELSE {})
  \cup (IF step = "listing" THEN {<<"certify", q>>} ELSE {})

InOrder(n) == [k \in 1..n |-> k]

RunInOrder ==
  run.step # "none" =>
    /\ run.kind \in {"files", "blob"} /\ run.files \in Nat \ {0} /\ run.size \in Nat \ {0}
    /\ run.kind = "blob" => run.files = 1 /\ run.size = 1
    /\ run.quilt * run.size < run.files
    /\ run.ids = InOrder(run.quilt * run.size)
    /\ landed = LandedBefore(run.quilt, run.step)
    /\ stage # "done"

OrderInv == RunInOrder /\ Upload!UploadsInOrder

(* A quilt q begins at file q * s, and the quilts end with the last file.  *)
LEMMA QuiltsCover ==
    ASSUME NEW f \in Nat \ {0}, NEW s \in Nat \ {0}, NEW q \in Nat
    PROVE  q < (f + s - 1) \div s <=> q * s < f
<1> DEFINE t == f + s - 1
           d == t \div s
           r == t % s
<1>1. t \in Nat /\ t = f + s - 1 OBVIOUS
<1> HIDE DEF t
<1>2. d \in Int /\ r \in 0..(s - 1) /\ t = s * d + r
  <2>1. d \in Int BY <1>1
  <2>2. r \in 0..(s - 1) BY <1>1
  <2>3. t = s * d + r BY <1>1
  <2>4. QED BY <2>1, <2>2, <2>3
<1> HIDE DEF d, r
<1>3. q * s \in Nat /\ (q + 1) * s = q * s + s /\ s * d \in Int
  <2>1. \A x, y \in Nat : x * y \in Nat OBVIOUS
  <2>2. \A x, y \in Int : x * y \in Int OBVIOUS
  <2>3. (q + 1) * s = q * s + s OBVIOUS
  <2>4. QED BY <1>2, <2>1, <2>2, <2>3
<1>4. ASSUME q < d PROVE q * s < f
  <2>1. q + 1 <= d BY <1>2, <1>4
  <2>2. (q + 1) * s <= s * d BY <1>2, <2>1
  <2>3. QED BY <1>1, <1>2, <1>3, <2>2
<1>5. ASSUME q >= d PROVE ~(q * s < f)
  <2>1. q * s >= s * d BY <1>2, <1>5
  <2>2. QED BY <1>1, <1>2, <1>3, <2>1
<1>6. q < d \/ q >= d BY <1>2
<1>7. q < d <=> q * s < f BY <1>4, <1>5, <1>6
<1>8. QED BY <1>7 DEF d, t

LEMMA OrderInit == Upload!Init => OrderInv
<1> SUFFICES ASSUME Upload!Init PROVE OrderInv
  OBVIOUS
<1>1. run.step = "none" /\ stage = "idle" BY DEF Upload!Init, Upload!NoRun
<1>2. QED BY <1>1 DEF OrderInv, RunInOrder, Upload!UploadsInOrder

(* A run that goes on within its quilt.                                    *)
SameQuilt ==
  /\ run'.kind = run.kind /\ run'.files = run.files /\ run'.size = run.size
  /\ run'.quilt = run.quilt /\ run'.ids = run.ids

LEMMA OrderGoesOn ==
    ASSUME OrderInv, run.step # "none", SameQuilt, stage' # "done",
           run'.step # "none" => landed' = LandedBefore(run.quilt, run'.step)
    PROVE  OrderInv'
<1>1. RunInOrder' BY DEF OrderInv, RunInOrder, SameQuilt
<1>2. Upload!UploadsInOrder' BY DEF Upload!UploadsInOrder
<1>3. QED BY <1>1, <1>2 DEF OrderInv

LEMMA NextStep ==
    ASSUME UploadInv, NEW s, run' = [run EXCEPT !.step = s]
    PROVE  SameQuilt /\ run'.step = s
<1>1. run = [kind |-> run.kind, files |-> run.files, size |-> run.size, quilt |-> run.quilt,
             step |-> run.step, tries |-> run.tries, ids |-> run.ids]
  BY DEF UploadInv, UploadTyped
<1>2. QED BY <1>1 DEF SameQuilt

LEMMA OrderThrows ==
    ASSUME UploadInv, OrderInv, run.step # "none", Upload!Throw
    PROVE  OrderInv'
<1>1. run' = [run EXCEPT !.step = "none"] /\ stage' = "error" BY DEF Upload!Throw
<1>2. SameQuilt /\ run'.step = "none" BY <1>1, NextStep
<1>3. QED BY <1>1, <1>2, OrderGoesOn

LEMMA OrderEnters ==
    ASSUME UploadInv, OrderInv, run.step # "none", NEW s \in Upload!Working, Upload!Enter(s),
           landed' = LandedBefore(run.quilt, s)
    PROVE  OrderInv'
<1>1. run' = [run EXCEPT !.step = s] /\ stage' = s BY DEF Upload!Enter
<1>2. SameQuilt /\ run'.step = s BY <1>1, NextStep
<1>3. stage' # "done" BY <1>1 DEF Upload!Working
<1>4. QED BY <1>2, <1>3, OrderGoesOn

(* A run that is over.                                                     *)
LEMMA OrderRests ==
    ASSUME run'.step = "none", stage' # "done"
    PROVE  OrderInv'
  BY DEF OrderInv, RunInOrder, Upload!UploadsInOrder

LEMMA OrderBeside ==
    ASSUME OrderInv, UNCHANGED Upload!hookVars, UNCHANGED Upload!runVars
    PROVE  OrderInv'
<1>1. UNCHANGED <<stage, run, landed, returned>> BY DEF Upload!hookVars, Upload!runVars
<1>2. QED BY <1>1 DEF OrderInv, RunInOrder, Upload!UploadsInOrder, Upload!QuiltCount

(* A run that begins.                                                      *)
LEMMA OrderBegins ==
    ASSUME run'.kind \in {"files", "blob"}, run'.files \in Nat \ {0}, run'.size \in Nat \ {0},
           run'.kind = "blob" => run'.files = 1 /\ run'.size = 1,
           run'.quilt = 0, run'.step = "encoding", run'.ids = <<>>,
           landed' = {}, stage' = "encoding"
    PROVE  OrderInv'
<1>1. 0 * run'.size = 0 OBVIOUS
<1>2. <<>> = InOrder(0) BY DEF InOrder
<1>3. LandedBefore(0, "encoding") = {}
  <2>1. 0..(0 - 1) = {} OBVIOUS
  <2>2. QED BY <2>1 DEF LandedBefore
<1>4. RunInOrder' BY <1>1, <1>2, <1>3 DEF RunInOrder
<1>5. Upload!UploadsInOrder' BY DEF Upload!UploadsInOrder
<1>6. QED BY <1>4, <1>5 DEF OrderInv

(* Counting on is counting.                                                *)
LEMMA CountingOn ==
    ASSUME NEW m \in Nat, NEW n \in Nat
    PROVE  InOrder(m) \o [k \in 1..n |-> m + k] = InOrder(m + n)
<1> DEFINE a == InOrder(m)
           b == [k \in 1..n |-> m + k]
           c == InOrder(m + n)
<1>1. a \in Seq(Nat) /\ Len(a) = m /\ \A k \in 1..m : a[k] = k BY DEF InOrder
<1>2. b \in Seq(Nat) /\ Len(b) = n /\ \A k \in 1..n : b[k] = m + k OBVIOUS
<1>3. c \in Seq(Nat) /\ Len(c) = m + n /\ \A k \in 1..(m + n) : c[k] = k BY DEF InOrder
<1> HIDE DEF a, b, c
<1>4. a \o b \in Seq(Nat) /\ Len(a \o b) = m + n BY <1>1, <1>2
<1>5. \A k \in 1..(m + n) : (a \o b)[k] = IF k <= m THEN a[k] ELSE b[k - m]
  <2>1. \A k \in 1..(Len(a) + Len(b)) :
          (a \o b)[k] = IF k <= Len(a) THEN a[k] ELSE b[k - Len(a)]
    BY <1>1, <1>2, ConcatProperties
  <2>2. QED BY <1>1, <1>2, <2>1
<1>6. \A k \in 1..(m + n) : (a \o b)[k] = k
  <2> SUFFICES ASSUME NEW k \in 1..(m + n) PROVE (a \o b)[k] = k
    OBVIOUS
  <2>1. CASE k <= m
    <3>1. k \in 1..m BY <2>1
    <3>2. QED BY <1>1, <1>5, <2>1, <3>1
  <2>2. CASE ~(k <= m)
    <3>1. k - m \in 1..n /\ m + (k - m) = k BY <2>2
    <3>2. (a \o b)[k] = b[k - m] BY <1>5, <2>2
    <3>3. b[k - m] = m + (k - m) BY <1>2, <3>1
    <3>4. QED BY <3>1, <3>2, <3>3
  <2>3. QED BY <2>1, <2>2, Zenon
<1>7. a \o b = c
  <2>1. m + n \in Nat OBVIOUS
  <2> DEFINE u == a \o b
  <2>2. u \in Seq(Nat) /\ Len(u) = m + n /\ \A k \in 1..(m + n) : u[k] = k BY <1>4, <1>6
  <2> HIDE DEF u
  <2>3. u = [k \in 1..(m + n) |-> u[k]] BY <2>1, <2>2
  <2>4. c = [k \in 1..(m + n) |-> c[k]] BY <2>1, <1>3
  <2>5. u = c BY <1>3, <2>2, <2>3, <2>4
  <2>6. QED BY <2>5 DEF u
<1>8. QED BY <1>7 DEF a, b, c

LEMMA LandedWhole ==
    ASSUME NEW q \in Nat
    PROVE  LandedBefore(q, "listing") = {"register", "certify"} \X (0..q)
<1>1. \A i : i \in 0..q <=> i \in 0..(q - 1) \/ i = q OBVIOUS
<1>2. LandedBefore(q, "listing") =
        ({"register", "certify"} \X (0..(q - 1))) \cup {<<"register", q>>} \cup {<<"certify", q>>}
  BY DEF LandedBefore
<1>3. QED BY <1>1, <1>2

LEMMA OrderCollects ==
    ASSUME UploadInv, OrderInv, Upload!Collect
    PROVE  OrderInv'
<1>1. run.step = "listing" /\ landed' = landed /\ run.step # "none" BY DEF Upload!Collect
<1> DEFINE ids == run.ids \o Upload!listFiles(run, run.quilt)
           q == run.quilt + 1
           f == run.files
           s == run.size
           first == run.quilt * s
           count == IF first + s > f THEN f - first ELSE s
<1>2. /\ run.kind \in {"files", "blob"} /\ f \in Nat \ {0} /\ s \in Nat \ {0}
      /\ run.kind = "blob" => f = 1 /\ s = 1
      /\ first < f /\ run.ids = InOrder(first)
      /\ landed = LandedBefore(run.quilt, "listing") /\ stage # "done"
  BY <1>1 DEF OrderInv, RunInOrder
<1>3. run.quilt \in Nat BY DEF UploadInv, UploadTyped
<1>4. first \in Nat /\ q * s = first + s
  <2>1. \A x, y \in Nat : x * y \in Nat OBVIOUS
  <2>2. \A x, y \in Nat : (x + 1) * y = x * y + y OBVIOUS
  <2>3. QED BY <1>2, <1>3, <2>1, <2>2
<1>5. /\ count \in Nat \ {0}
      /\ Upload!listFiles(run, run.quilt) = [k \in 1..count |-> first + k]
  <2>1. run.files \in Nat BY <1>2
  <2>2. QED BY <1>2, <1>3, <2>1, QuiltInOrder
<1>6. ids = InOrder(first + count)
  <2>1. ids = InOrder(first) \o [k \in 1..count |-> first + k] BY <1>2, <1>5
  <2> HIDE DEF ids, first, count
  <2>2. count \in Nat BY <1>5
  <2>3. QED BY <1>4, <2>1, <2>2, CountingOn
<1>7. q < Upload!QuiltCount(run) <=> q * s < f
  <2>1. q \in Nat BY <1>3
  <2>2. q < (f + s - 1) \div s <=> q * s < f BY <1>2, <2>1, QuiltsCover
  <2>3. QED BY <2>2 DEF Upload!QuiltCount
<1>8. CASE Upload!Throw BY <1>1, <1>8, OrderThrows
<1>9. CASE q = Upload!QuiltCount(run) /\ Upload!Done(ids)
  <2>1. run' = [run EXCEPT !.step = "none", !.ids = ids] /\ stage' = "done" /\ returned' = ids
    BY <1>9 DEF Upload!Done
  <2>2. /\ run'.step = "none" /\ run'.files = f /\ run'.size = s /\ run'.quilt = run.quilt
    BY <2>1 DEF UploadInv, UploadTyped
  <2>3. ~(q * s < f)
    <3>1. ~(q < Upload!QuiltCount(run))
      <4>1. q \in Int BY <1>3
      <4>2. QED BY <1>9, <4>1
    <3>2. QED BY <1>7, <3>1
  <2>4. first + count = f
    <3> HIDE DEF first
    <3>1. QED BY <1>2, <1>4, <2>3
  <2>5. returned' = [k \in 1..run'.files |-> k] BY <1>6, <2>1, <2>2, <2>4 DEF InOrder
  <2>6. Upload!QuiltCount(run') = Upload!QuiltCount(run) BY <2>2 DEF Upload!QuiltCount
  <2>7. landed' = {"register", "certify"} \X (0..(Upload!QuiltCount(run') - 1))
    <3>1. Upload!QuiltCount(run') - 1 = run.quilt BY <1>3, <1>9, <2>6
    <3>2. landed' = {"register", "certify"} \X (0..run.quilt) BY <1>1, <1>2, <1>3, LandedWhole
    <3>3. QED BY <3>1, <3>2
  <2>8. Upload!UploadsInOrder' BY <2>5, <2>7 DEF Upload!UploadsInOrder
  <2>9. RunInOrder' BY <2>2 DEF RunInOrder
  <2>10. QED BY <2>8, <2>9 DEF OrderInv
<1>10. CASE /\ q < Upload!QuiltCount(run) /\ stage' = "encoding"
            /\ run' = [run EXCEPT !.quilt = q, !.step = "encoding", !.tries = 0, !.ids = ids]
  <2>1. /\ run'.step = "encoding" /\ run'.kind = run.kind /\ run'.files = f /\ run'.size = s
        /\ run'.quilt = q /\ run'.ids = ids
    <3> HIDE DEF ids, q
    <3>1. QED BY <1>10 DEF UploadInv, UploadTyped
  <2>2. q * s < f BY <1>7, <1>10
  <2>3. first + count = q * s
    <3> HIDE DEF first
    <3>1. QED BY <1>2, <1>4, <2>2
  <2>4. ids = InOrder(q * s) BY <1>6, <2>3
  <2>5. landed' = LandedBefore(q, "encoding")
    <3>1. LandedBefore(q, "encoding") = {"register", "certify"} \X (0..(q - 1)) BY DEF LandedBefore
    <3>2. q - 1 = run.quilt BY <1>3
    <3>3. QED BY <1>1, <1>2, <1>3, <3>1, <3>2, LandedWhole
  <2> HIDE DEF ids, q
  <2>6. RunInOrder' BY <1>2, <1>10, <2>1, <2>2, <2>4, <2>5 DEF RunInOrder
  <2>7. Upload!UploadsInOrder' BY <1>10 DEF Upload!UploadsInOrder
  <2>8. QED BY <2>6, <2>7 DEF OrderInv
<1>11. QED BY <1>8, <1>9, <1>10 DEF Upload!Collect

LEMMA OrderStep ==
    UploadInv /\ OrderInv /\ [Upload!Next]_(Upload!vars) => OrderInv'
<1> SUFFICES ASSUME UploadInv, OrderInv, [Upload!Next]_(Upload!vars) PROVE OrderInv'
  OBVIOUS
<1>0. run.quilt \in Nat BY DEF UploadInv, UploadTyped
<1>1. CASE Upload!surfaceStaleTrail \/ Upload!BehindWrites \/ Upload!BehindEnds
  <2>1. UNCHANGED Upload!hookVars /\ UNCHANGED Upload!runVars
    BY <1>1 DEF Upload!surfaceStaleTrail, Upload!BehindWrites, Upload!BehindEnds
  <2>2. QED BY <2>1, OrderBeside
<1>2. ASSUME NEW plan \in Plans, Upload!uploadFiles(plan) PROVE OrderInv'
  <2> DEFINE r == [Upload!NoRun EXCEPT !.kind = "files", !.files = plan[1], !.size = plan[2],
                                       !.step = "encoding"]
  <2>1. run' = r /\ landed' = {} /\ stage' = "encoding" BY <1>2 DEF Upload!uploadFiles
  <2>2. r = [kind |-> "files", files |-> plan[1], size |-> plan[2], quilt |-> 0,
             step |-> "encoding", tries |-> 0, ids |-> <<>>]
    BY FilesBegin
  <2>3. plan[1] \in Nat \ {0} /\ plan[2] \in Nat \ {0} BY Limits
  <2>4. /\ run'.kind = "files" /\ run'.files = plan[1] /\ run'.size = plan[2]
        /\ run'.quilt = 0 /\ run'.step = "encoding" /\ run'.ids = <<>>
    BY <2>1, <2>2
  <2> HIDE DEF r
  <2>5. QED BY <2>1, <2>3, <2>4, OrderBegins
<1>3. CASE Upload!uploadBlob
  <2>1. /\ stage' = "encoding" /\ landed' = {}
        /\ run' = [Upload!NoRun EXCEPT !.kind = "blob", !.files = 1, !.step = "encoding"]
    BY <1>3 DEF Upload!uploadBlob
  <2>2. run' = [kind |-> "blob", files |-> 1, size |-> 1, quilt |-> 0,
                step |-> "encoding", tries |-> 0, ids |-> <<>>]
    BY <2>1 DEF Upload!NoRun
  <2>3. /\ run'.kind = "blob" /\ run'.files = 1 /\ run'.size = 1
        /\ run'.quilt = 0 /\ run'.step = "encoding" /\ run'.ids = <<>>
    BY <2>2
  <2>4. QED BY <2>1, <2>3, OrderBegins
<1>4. CASE Upload!encode
  <2>1. run.step = "encoding" /\ run.step # "none" /\ landed' = landed BY <1>4 DEF Upload!encode
  <2>2. CASE Upload!Throw BY <2>1, <2>2, OrderThrows
  <2>3. CASE Upload!Enter("awaiting-register")
    <3>1. landed = LandedBefore(run.quilt, "encoding") BY <2>1 DEF OrderInv, RunInOrder
    <3>2. landed' = LandedBefore(run.quilt, "awaiting-register") BY <2>1, <3>1 DEF LandedBefore
    <3>3. "awaiting-register" \in Upload!Working BY DEF Upload!Working
    <3>4. QED BY <2>1, <2>3, <3>2, <3>3, OrderEnters
  <2>4. QED BY <1>4, <2>2, <2>3 DEF Upload!encode
<1>5. CASE Upload!executeRegister
  <2>1. run.step = "awaiting-register" /\ run.step # "none" BY <1>5 DEF Upload!executeRegister
  <2>2. CASE Upload!Throw BY <2>1, <2>2, OrderThrows
  <2>3. CASE Upload!Signed("register") /\ Upload!Enter("relay-upload")
    <3>1. landed = LandedBefore(run.quilt, "awaiting-register") BY <2>1 DEF OrderInv, RunInOrder
    <3>2. landed' = landed \cup {<<"register", run.quilt>>} BY <2>3 DEF Upload!Signed
    <3>3. landed' = LandedBefore(run.quilt, "relay-upload") BY <3>1, <3>2 DEF LandedBefore
    <3>4. "relay-upload" \in Upload!Working BY DEF Upload!Working
    <3>5. QED BY <2>1, <2>3, <3>3, <3>4, OrderEnters
  <2>4. QED BY <1>5, <2>2, <2>3 DEF Upload!executeRegister
<1>6. CASE Upload!upload
  <2>1. run.step = "relay-upload" /\ run.step # "none" /\ landed' = landed BY <1>6 DEF Upload!upload
  <2>2. landed = LandedBefore(run.quilt, "relay-upload") /\ stage # "done"
    BY <2>1 DEF OrderInv, RunInOrder
  <2>3. CASE Upload!Throw BY <2>1, <2>3, OrderThrows
  <2>4. CASE Upload!Enter("awaiting-certify")
    <3>1. landed' = LandedBefore(run.quilt, "awaiting-certify") BY <2>1, <2>2 DEF LandedBefore
    <3>2. "awaiting-certify" \in Upload!Working BY DEF Upload!Working
    <3>3. QED BY <2>1, <2>4, <3>1, <3>2, OrderEnters
  <2>5. CASE run' = [run EXCEPT !.tries = @ + 1] /\ UNCHANGED Upload!hookVars
    <3>1. run = [kind |-> run.kind, files |-> run.files, size |-> run.size, quilt |-> run.quilt,
                 step |-> run.step, tries |-> run.tries, ids |-> run.ids]
      BY DEF UploadInv, UploadTyped
    <3>2. SameQuilt /\ run'.step = "relay-upload" BY <2>1, <2>5, <3>1 DEF SameQuilt
    <3>3. stage' = stage BY <2>5 DEF Upload!hookVars
    <3>4. QED BY <2>1, <2>2, <3>2, <3>3, OrderGoesOn
  <2>6. QED BY <1>6, <2>3, <2>4, <2>5 DEF Upload!upload
<1>7. CASE Upload!executeCertify
  <2>1. run.step = "awaiting-certify" /\ run.step # "none" BY <1>7 DEF Upload!executeCertify
  <2>2. landed = LandedBefore(run.quilt, "awaiting-certify") /\ stage # "done"
    BY <2>1 DEF OrderInv, RunInOrder
  <2>3. CASE Upload!Throw BY <2>1, <2>3, OrderThrows
  <2>4. ASSUME Upload!Signed("certify") PROVE landed' = LandedBefore(run.quilt, "listing")
    <3>1. landed' = landed \cup {<<"certify", run.quilt>>} BY <2>4 DEF Upload!Signed
    <3>2. QED BY <2>2, <3>1 DEF LandedBefore
  <2>5. CASE /\ Upload!Signed("certify") /\ UNCHANGED Upload!hookVars
             /\ run' = [run EXCEPT !.step = "listing"]
    <3>1. SameQuilt /\ run'.step = "listing" BY <2>5, NextStep
    <3>2. stage' = stage BY <2>5 DEF Upload!hookVars
    <3>3. QED BY <2>1, <2>2, <2>4, <2>5, <3>1, <3>2, OrderGoesOn
  <2>6. CASE run.kind = "blob" /\ Upload!Signed("certify") /\ Upload!Done(<<1>>)
    <3>1. run' = [run EXCEPT !.step = "none", !.ids = <<1>>] /\ stage' = "done" /\ returned' = <<1>>
      BY <2>6 DEF Upload!Done
    <3>2. run.files = 1 /\ run.size = 1 /\ run.quilt * run.size < run.files
      BY <2>1, <2>6 DEF OrderInv, RunInOrder
    <3>3. run.quilt = 0 BY <1>0, <3>2
    <3>4. run'.step = "none" /\ run'.files = 1 /\ run'.size = 1
      BY <3>1, <3>2 DEF UploadInv, UploadTyped
    <3>5. returned' = [k \in 1..run'.files |-> k] BY <3>1, <3>4
    <3>6. Upload!QuiltCount(run') - 1 = 0
      <4>1. (1 + 1 - 1) \div 1 = 1 OBVIOUS
      <4>2. QED BY <3>4, <4>1 DEF Upload!QuiltCount
    <3>7. landed' = {"register", "certify"} \X (0..0) BY <1>0, <2>4, <2>6, <3>3, LandedWhole
    <3>8. Upload!UploadsInOrder' BY <3>5, <3>6, <3>7 DEF Upload!UploadsInOrder
    <3>9. RunInOrder' BY <3>4 DEF RunInOrder
    <3>10. QED BY <3>8, <3>9 DEF OrderInv
  <2>7. QED BY <1>7, <2>3, <2>5, <2>6 DEF Upload!executeCertify
<1>8. CASE Upload!Collect BY <1>8, OrderCollects
<1>9. CASE Upload!Leave \/ Upload!PageDies
  <2>1. Upload!Idle BY <1>9 DEF Upload!Leave, Upload!PageDies
  <2>2. run'.step = "none" /\ stage' = "idle" BY <2>1 DEF Upload!Idle, Upload!NoRun
  <2>3. QED BY <2>2, OrderRests
<1>10. CASE UNCHANGED Upload!vars
  <2>1. UNCHANGED Upload!hookVars /\ UNCHANGED Upload!runVars BY <1>10 DEF Upload!vars
  <2>2. QED BY <2>1, OrderBeside
<1>11. QED
  BY <1>1, <1>2, <1>3, <1>4, <1>5, <1>6, <1>7, <1>8, <1>9, <1>10 DEF Upload!Next

-----------------------------------------------------------------------------
(* Together: the lists of the three pages.                                 *)
ListsInv == BrowseInv /\ GridInv /\ IntegrateInv /\ BoardInv /\ UploadInv /\ OrderInv

(* Every group of models on show has one card, the closest of a search     *)
(* first and then the newest (BrowsePage); every open collection that was  *)
(* read has its row, the most integrated first, under the name its creator *)
(* gave it once the scan has met it (buildLeaderboardRows); and the files  *)
(* of an upload come back in their order (useWalrusUpload), for every      *)
(* index, answer of the relayer, registration and number of files.         *)
THEOREM ListsHonest == CatalogSpec => []ListsAreHonest
<1>1. CatalogInit => ListsInv
  BY BrowseInit, GridInit, IntegrateInit, BoardInit, UploadInit, OrderInit
  DEF CatalogInit, ListsInv
<1>2. ListsInv /\ [CatalogNext]_catalogVars => ListsInv'
  <2> SUFFICES ASSUME ListsInv, [CatalogNext]_catalogVars PROVE ListsInv'
    OBVIOUS
  <2>1. BrowseInv' /\ GridInv' BY BrowseStep, GridStep, StorefrontSteps DEF ListsInv
  <2>2. IntegrateInv' /\ BoardInv' BY IntegrateStep, BoardStep, StorefrontSteps DEF ListsInv
  <2>3. UploadInv' /\ OrderInv' BY UploadStep, OrderStep, StorefrontSteps DEF ListsInv
  <2>4. QED BY <2>1, <2>2, <2>3 DEF ListsInv
<1>3. ListsInv => ListsAreHonest
  BY GridHolds, BoardHolds DEF ListsInv, ListsAreHonest, OrderInv
<1>4. QED BY <1>1, <1>2, <1>3, PTL DEF CatalogSpec
-----------------------------------------------------------------------------
(* The types of the five parts, besides what their invariants hold.        *)

(* The grid: tickets within their bound, a tag of some model.              *)
TagChoices == {NoTag} \cup UNION {TagsOf[m] : m \in Models}

BrowseBounds ==
  /\ reqCounter \in 1..MaxTickets /\ tagFilter \in TagChoices
  /\ browser \in Browse!Viewers \cup {0} /\ query \in {"short", "long"}

LEMMA BrowseBoundsInit == Browse!Init => BrowseBounds
  BY StorefrontAssumption
  DEF Browse!CatalogAssumption, Browse!Init, BrowseBounds, TagChoices

LEMMA BrowseBoundsStep ==
    ASSUME BrowseBounds, GridInv, [Browse!Next]_(Browse!vars)
    PROVE  BrowseBounds'
<1>0. MaxTickets \in Nat \ {0} BY StorefrontAssumption DEF Browse!CatalogAssumption
<1>1. CASE Browse!refetch
  <2>1. reqCounter < MaxTickets /\ reqCounter' = reqCounter + 1
        /\ UNCHANGED <<tagFilter, browser, query>>
    BY <1>1 DEF Browse!refetch, Browse!searchVars
  <2>2. QED BY <1>0, <2>1 DEF BrowseBounds
<1>2. ASSUME NEW t \in Browse!allTags \cup {NoTag}, Browse!setTagFilter(t) PROVE BrowseBounds'
  <2>1. t \in TagChoices
    BY DEF Browse!allTags, Browse!Shown, GridInv, TagChoices
  <2>2. tagFilter' = t /\ UNCHANGED <<reqCounter, browser, query>>
    BY <1>2 DEF Browse!setTagFilter, Browse!indexVars, Browse!searchVars
  <2>3. QED BY <2>1, <2>2 DEF BrowseBounds
<1>3. ASSUME NEW q \in {"short", "long"}, Browse!setSearchQuery(q) PROVE BrowseBounds'
  BY <1>3 DEF Browse!setSearchQuery, Browse!indexVars, BrowseBounds
<1>4. ASSUME NEW a \in Browse!Viewers \cup {0}, Browse!SessionChanges(a) PROVE BrowseBounds'
  BY <1>4 DEF Browse!SessionChanges, Browse!indexVars, BrowseBounds
<1>5. CASE UNCHANGED <<reqCounter, tagFilter, browser, query>>
  BY <1>5 DEF BrowseBounds
<1>6. QED
  BY <1>1, <1>2, <1>3, <1>4, <1>5
  DEF Browse!Next, Browse!vars, Browse!indexVars, Browse!searchVars, Browse!Publish,
      Browse!IndexReads, Browse!IndexAnswers, Browse!IndexFails, Browse!LaneAnswers,
      Browse!LaneFails

LEMMA BrowseIsTyped == BrowseInv /\ GridInv /\ BrowseBounds => Browse!TypeOK
<1> SUFFICES ASSUME BrowseInv, GridInv, BrowseBounds PROVE Browse!TypeOK
  OBVIOUS
<1>1. /\ {onChain, cache, allModels} \subseteq SUBSET Models
      /\ \A r \in requests : r.answer \in {Browse!NotYet} \cup SUBSET Models
  BY DEF GridInv
<1>2. /\ from \in 0..reqCounter /\ {loading, error} \subseteq BOOLEAN
      /\ \A r \in requests : r.ticket \in 1..reqCounter
  BY DEF BrowseInv, Ticketed, LastIsAwaited
<1>3. \A r \in requests : r.ticket \in 1..MaxTickets
  BY <1>2, StorefrontAssumption DEF Browse!CatalogAssumption, BrowseBounds
<1>4. \A s \in Browse!Scopes : /\ lanes[s].chips \in ChipLists \cup {<<>>}
                               /\ lanes[s].status \in {"idle", "loading", "ready", "empty"}
  BY DEF GridInv, Lane
<1>5. QED BY <1>1, <1>2, <1>3, <1>4 DEF BrowseBounds, TagChoices, Browse!TypeOK

(* The reads: each is of a collection, or of the list.                     *)
Known == Collections \cup {None}
ReadOf(runs) == \A r \in runs : r.of \in Known

ReadsBounds ==
  /\ launched \subseteq Collections /\ shownCollection \in Known /\ usedBy \in Known
  /\ ReadOf(reads) /\ ReadOf(usedReads) /\ ReadOf(listReads)

LEMMA CancelledOf ==
    ASSUME NEW runs, Shaped(runs), ReadOf(runs)
    PROVE  ReadOf(Reads!Cancel(runs)) /\ \A c \in Known : ReadOf(Reads!Cancel(runs) \cup {Reads!Run(c)})
<1>1. \A r \in runs : [r EXCEPT !.cancelled = TRUE].of = r.of BY DEF Shaped
<1>2. ReadOf(Reads!Cancel(runs)) BY <1>1 DEF Reads!Cancel, ReadOf
<1>3. \A c : Reads!Run(c).of = c BY DEF Reads!Run
<1>4. QED BY <1>2, <1>3 DEF ReadOf

LEMMA ReadsBoundsInit == Reads!Init => ReadsBounds
<1> SUFFICES ASSUME Reads!Init PROVE ReadsBounds
  OBVIOUS
<1>1. Reads!Run(slug).of = slug BY DEF Reads!Run
<1>2. QED BY <1>1 DEF Reads!Init, ReadsBounds, ReadOf, Known

LEMMA ReadsBoundsStep ==
    ASSUME ReadsInv, ReadsBounds, [Reads!Next]_(Reads!vars)
    PROVE  ReadsBounds'
<1>0. Shaped(reads) /\ Shaped(usedReads) /\ Shaped(listReads) BY DEF ReadsInv, ReadsTyped
<1>1. ASSUME NEW c \in Collections, Reads!Launch(c) PROVE ReadsBounds'
  BY <1>1 DEF Reads!Launch, Reads!pageVars, Reads!usedVars, Reads!listVars, ReadsBounds, ReadOf
<1>2. ASSUME NEW c \in Collections, Reads!Navigate(c) PROVE ReadsBounds'
  <2>1. /\ reads' = Reads!Cancel(reads) \cup {Reads!Run(c)} /\ usedReads' = Reads!Cancel(usedReads)
        /\ UNCHANGED <<launched, shownCollection, usedBy, listReads>>
    BY <1>2 DEF Reads!Navigate, Reads!listVars
  <2>2. ReadOf(reads)' /\ ReadOf(usedReads)'
    BY <1>0, <2>1, CancelledOf DEF ReadsBounds, ReadOf, Known
  <2>3. QED BY <2>1, <2>2 DEF ReadsBounds, ReadOf
<1>3. ASSUME NEW r \in reads, Reads!CollectionRead(r) PROVE ReadsBounds'
  <2>1. r.of \in Known /\ reads' \subseteq reads /\ UNCHANGED <<launched, listReads>>
    BY <1>3 DEF Reads!CollectionRead, Reads!listVars, ReadsBounds, ReadOf
  <2>2. CASE UNCHANGED <<shownCollection, usedBy, usedReads>>
    BY <2>1, <2>2 DEF ReadsBounds, ReadOf
  <2>3. CASE shownCollection' = r.of /\ Reads!MountUsedBy(r.of)
    <3>1. usedBy' = None /\ (\/ usedReads' = Reads!Cancel(usedReads)
                             \/ usedReads' = Reads!Cancel(usedReads) \cup {Reads!Run(r.of)})
      BY <2>3 DEF Reads!MountUsedBy
    <3>2. ReadOf(usedReads)' BY <1>0, <2>1, <3>1, CancelledOf DEF ReadsBounds, ReadOf
    <3>3. QED BY <2>1, <2>3, <3>1, <3>2 DEF ReadsBounds, ReadOf, Known
  <2>4. QED BY <1>3, <2>2, <2>3 DEF Reads!CollectionRead, Reads!usedVars
<1>4. ASSUME NEW r \in reads, Reads!CollectionFails(r) PROVE ReadsBounds'
  BY <1>4 DEF Reads!CollectionFails, Reads!usedVars, Reads!listVars, ReadsBounds, ReadOf
<1>5. ASSUME NEW r \in usedReads, Reads!UsedByAnswers(r) PROVE ReadsBounds'
  <2>1. /\ usedReads' \subseteq usedReads /\ usedBy' \in {usedBy, r.of} /\ r.of \in Known
        /\ UNCHANGED <<launched, shownCollection, reads, listReads>>
    BY <1>5 DEF Reads!UsedByAnswers, Reads!pageVars, Reads!listVars, ReadsBounds, ReadOf
  <2>2. QED BY <2>1 DEF ReadsBounds, ReadOf
<1>6. CASE Reads!ToggleView
  <2>1. /\ \/ listReads' = Reads!Cancel(listReads)
           \/ listReads' = Reads!Cancel(listReads) \cup {Reads!Run(None)}
        /\ UNCHANGED <<launched, shownCollection, usedBy, reads, usedReads>>
    BY <1>6 DEF Reads!ToggleView, Reads!pageVars, Reads!usedVars
  <2>2. ReadOf(listReads)' BY <1>0, <2>1, CancelledOf DEF ReadsBounds, ReadOf, Known
  <2>3. QED BY <2>1, <2>2 DEF ReadsBounds, ReadOf
<1>7. ASSUME NEW r \in listReads, Reads!ListAnswers(r) PROVE ReadsBounds'
  BY <1>7 DEF Reads!ListAnswers, Reads!pageVars, Reads!usedVars, ReadsBounds, ReadOf
<1>8. CASE UNCHANGED Reads!vars
  BY <1>8 DEF Reads!vars, Reads!pageVars, Reads!usedVars, Reads!listVars, ReadsBounds, ReadOf
<1>9. QED BY <1>1, <1>2, <1>3, <1>4, <1>5, <1>6, <1>7, <1>8 DEF Reads!Next

LEMMA ReadsAreTyped == ReadsInv /\ ReadsBounds => Reads!TypeOK
<1> SUFFICES ASSUME ReadsInv, ReadsBounds PROVE Reads!TypeOK
  OBVIOUS
<1>1. /\ {pageLoading, pageError, usedLoading, usedError, enabled, listLoading, listError}
           \subseteq BOOLEAN
      /\ slug \in Collections
  BY DEF ReadsInv, ReadsTyped
<1>2. \A r \in reads \cup usedReads \cup listReads : r.cancelled \in BOOLEAN
  BY DEF ReadsInv, ReadsTyped, Shaped
<1>3. list \subseteq Collections BY DEF ReadsInv, ListReads, ReadsBounds
<1>4. \A r \in reads \cup usedReads \cup listReads : r.of \in Collections \cup {None}
  BY DEF ReadsBounds, ReadOf, Known
<1>5. \A r \in reads \cup usedReads \cup listReads :
        r.of \in Collections \cup {None} /\ r.cancelled \in BOOLEAN
  BY <1>2, <1>4, Zenon
<1>6. QED BY <1>1, <1>3, <1>5 DEF ReadsBounds, Known, Reads!TypeOK
-----------------------------------------------------------------------------
(* The integration page: it is busy while and only while a task awaits.    *)
BusyWithTask ==
  /\ phase \in {"idle", "signing", "success", "error"}
  /\ task.step \in {"none", "read", "sign"}
  /\ task = [step |-> task.step, of |-> task.of, form |-> task.form, fee |-> task.fee,
             at |-> task.at, click |-> task.click]
  /\ phase = "signing" <=> task # Integration!NoTask

FormBounds ==
  /\ moves <= MaxMoves /\ connected \in BOOLEAN /\ countsLoading \in BOOLEAN
  /\ param \in Open \cup {None}
  /\ scan.state \in {"scanning", "done", "failed"} /\ (scan.state = "failed" => scan.page = 0)
  /\ BusyWithTask

LEMMA FormBoundsInit == Integration!Init => FormBounds
<1> SUFFICES ASSUME Integration!Init PROVE FormBounds
  OBVIOUS
<1>1. MaxMoves \in Nat BY StorefrontAssumption DEF Integration!IntegrateAssumption
<1>2. moves = 0 /\ connected = TRUE /\ countsLoading = TRUE /\ param \in Open \cup {None}
      /\ scan = [page |-> 0, named |-> {}, state |-> "scanning"]
      /\ phase = "idle" /\ task = Integration!NoTask
  BY DEF Integration!Init, Open
<1>3. BusyWithTask BY <1>2 DEF BusyWithTask, Integration!NoTask
<1>4. QED BY <1>1, <1>2, <1>3 DEF FormBounds

(* What the effect on the param leaves in the address.                     *)
LEMMA SeedsParam ==
    ASSUME NEW p \in Open \cup {None}, NEW choices, Integration!Seed(p, choices)
    PROVE  param' \in Open \cup {None}
  BY DEF Integration!Seed

LEMMA FormBoundsStep ==
    ASSUME IntegrateInv, BoardInv, FormBounds, [Integration!Next]_(Integration!vars)
    PROVE  FormBounds'
<1>0. moves \in Nat /\ MaxMoves \in Nat
  BY StorefrontAssumption DEF Integration!IntegrateAssumption, IntegrateInv, Quoted
<1> DEFINE still == UNCHANGED <<phase, task>>
           rest == UNCHANGED <<connected, countsLoading, param, scan>>
<1>1. ASSUME moves' <= MaxMoves, rest, still PROVE FormBounds'
  BY <1>1 DEF FormBounds, BusyWithTask
<1>2. ASSUME NEW c \in Open, NEW f \in Fees, Integration!SetFee(c, f) PROVE FormBounds'
  <2>1. moves < MaxMoves /\ moves' = moves + 1 /\ rest /\ still
    BY <1>2 DEF Integration!SetFee, Integration!boardVars, Integration!formVars
  <2>2. moves' <= MaxMoves BY <1>0, <2>1
  <2>3. QED BY <1>1, <2>1, <2>2
<1>3. ASSUME NEW c \in Open, Integration!SetPolicy(c) PROVE FormBounds'
  <2>1. moves < MaxMoves /\ moves' = moves + 1 /\ rest /\ still
    BY <1>3 DEF Integration!SetPolicy, Integration!boardVars, Integration!formVars
  <2>2. moves' <= MaxMoves BY <1>0, <2>1
  <2>3. QED BY <1>1, <2>1, <2>2
<1>4. CASE Integration!Connect
  <2>1. connected' = ~connected /\ still /\ UNCHANGED <<moves, countsLoading, param, scan>>
    BY <1>4 DEF Integration!Connect, Integration!chainVars, Integration!boardVars, Integration!formVars
  <2>2. connected' \in BOOLEAN BY <2>1
  <2>3. QED BY <2>1, <2>2 DEF FormBounds, BusyWithTask
<1>5. CASE Integration!CollectionsLoad
  <2>1. Integration!Seed(param, offered') /\ still /\ UNCHANGED <<moves, connected, countsLoading, scan>>
    BY <1>5 DEF Integration!CollectionsLoad, Integration!chainVars, Integration!boardVars
  <2>2. param' \in Open \cup {None} BY <2>1, SeedsParam DEF FormBounds
  <2>3. QED BY <2>1, <2>2 DEF FormBounds, BusyWithTask
<1>6. CASE Integration!BoardLoads
  <2>1. moves' = moves /\ rest /\ still
    BY <1>6 DEF Integration!BoardLoads, Integration!chainVars, Integration!formVars
  <2>2. QED BY <1>1, <2>1 DEF FormBounds
<1>7. CASE Integration!CountsLoad
  <2>1. countsLoading' = FALSE /\ still /\ UNCHANGED <<moves, connected, param, scan>>
    BY <1>7 DEF Integration!CountsLoad, Integration!chainVars, Integration!formVars
  <2>2. QED BY <2>1 DEF FormBounds, BusyWithTask
<1>8. CASE Integration!NamesPage
  <2>1. still /\ UNCHANGED <<moves, connected, countsLoading, param>>
    BY <1>8 DEF Integration!NamesPage, Integration!chainVars, Integration!formVars
  <2>2. scan'.state \in {"scanning", "done", "failed"} /\ (scan'.state = "failed" => scan'.page = 0)
    BY <1>8 DEF Integration!NamesPage
  <2>3. QED BY <2>1, <2>2 DEF FormBounds, BusyWithTask
<1>9. ASSUME NEW c \in Open, Integration!ChooseRow(c) PROVE FormBounds'
  <2>1. /\ \/ param' = param
           \/ Integration!Seed(c, Integration!registerable)
        /\ still /\ UNCHANGED <<moves, connected, countsLoading, scan>>
    BY <1>9 DEF Integration!ChooseRow, Integration!chainVars, Integration!boardVars
  <2>2. param' \in Open \cup {None} BY <2>1, SeedsParam DEF FormBounds
  <2>3. QED BY <2>1, <2>2 DEF FormBounds, BusyWithTask
<1>10. ASSUME NEW o, Integration!Pick(o) PROVE FormBounds'
  <2>1. moves' = moves /\ rest /\ still
    BY <1>10 DEF Integration!Pick, Integration!chainVars, Integration!boardVars
  <2>2. QED BY <1>1, <2>1 DEF FormBounds
<1>11. ASSUME NEW f, Integration!Type(f) PROVE FormBounds'
  <2>1. moves' = moves /\ rest /\ still
    BY <1>11 DEF Integration!Type, Integration!chainVars, Integration!boardVars
  <2>2. QED BY <1>1, <2>1 DEF FormBounds
<1>12. ASSUME moves' = moves, rest, BusyWithTask' PROVE FormBounds'
  BY <1>12 DEF FormBounds
<1>13. CASE Integration!Register
  <2>1. /\ moves' = moves /\ rest /\ phase' = "signing"
        /\ task' = [step |-> "read", of |-> selected.id, form |-> form, fee |-> selected.fee,
                    at |-> 0, click |-> [of |-> selected.id, form |-> form]]
    BY <1>13 DEF Integration!Register, Integration!chainVars, Integration!boardVars, Integration!formVars
  <2>2. BusyWithTask'
    <3>1. task'.step = "read" BY <2>1
    <3>2. task' # Integration!NoTask BY <3>1 DEF Integration!NoTask
    <3>3. QED BY <2>1, <3>1, <3>2 DEF BusyWithTask
  <2>3. QED BY <1>12, <2>1, <2>2
<1>14. CASE Integration!LiveRead
  <2>1. /\ moves' = moves /\ rest /\ phase' = phase /\ task.step = "read"
        /\ task' = [task EXCEPT !.step = "sign", !.fee = Integration!Quoted(task), !.at = moves]
    BY <1>14 DEF Integration!LiveRead, Integration!chainVars, Integration!boardVars, Integration!formVars
  <2>2. BusyWithTask'
    <3>1. /\ task = [step |-> task.step, of |-> task.of, form |-> task.form, fee |-> task.fee,
                     at |-> task.at, click |-> task.click]
          /\ task # Integration!NoTask
      BY <2>1 DEF FormBounds, BusyWithTask, Integration!NoTask
    <3>2. task' = [step |-> "sign", of |-> task.of, form |-> task.form,
                   fee |-> Integration!Quoted(task), at |-> moves, click |-> task.click]
      BY <2>1, <3>1
    <3>3. task'.step = "sign" /\ task' # Integration!NoTask BY <3>2 DEF Integration!NoTask
    <3>4. phase' = "signing" BY <2>1, <3>1 DEF FormBounds, BusyWithTask
    <3>5. task' = [step |-> task'.step, of |-> task'.of, form |-> task'.form, fee |-> task'.fee,
                   at |-> task'.at, click |-> task'.click]
      BY <3>2
    <3>6. QED BY <3>3, <3>4, <3>5 DEF BusyWithTask
  <2>3. QED BY <1>12, <2>1, <2>2
<1>15. ASSUME phase' \in {"error", "success"}, task' = Integration!NoTask, moves' = moves, rest
       PROVE  FormBounds'
  <2>1. BusyWithTask' BY <1>15 DEF BusyWithTask, Integration!NoTask
  <2>2. QED BY <1>12, <1>15, <2>1
<1>16. CASE Integration!Rejected
  <2>1. phase' = "error" /\ task' = Integration!NoTask /\ moves' = moves /\ rest
    BY <1>16 DEF Integration!Rejected, Integration!Ends, Integration!chainVars, Integration!boardVars,
                Integration!formVars
  <2>2. QED BY <1>15, <2>1
<1>17. CASE Integration!Sign
  <2>1. phase' \in {"error", "success"} /\ task' = Integration!NoTask /\ moves' = moves /\ rest
    BY <1>17 DEF Integration!Sign, Integration!Ends, Integration!boardVars, Integration!formVars
  <2>2. QED BY <1>15, <2>1
<1>18. CASE UNCHANGED Integration!vars
  <2>1. moves' = moves /\ rest /\ still
    BY <1>18 DEF Integration!vars, Integration!chainVars, Integration!boardVars, Integration!formVars
  <2>2. QED BY <1>1, <2>1 DEF FormBounds
<1>19. QED
  BY <1>2, <1>3, <1>4, <1>5, <1>6, <1>7, <1>8, <1>9, <1>10, <1>11, <1>13, <1>14, <1>16, <1>17, <1>18
  DEF Integration!Next, Open

LEMMA FormIsTyped == IntegrateInv /\ BoardInv /\ FormBounds => Integration!TypeOK
<1> SUFFICES ASSUME IntegrateInv, BoardInv, FormBounds PROVE Integration!TypeOK
  OBVIOUS
<1>1. /\ fee \in [Open -> Fees] /\ moves \in Nat /\ open \subseteq Open /\ form \in Forms
      /\ selected = Integration!NoPick \/ selected.id \in Open
  BY DEF IntegrateInv, Quoted
<1>2. moves \in 0..MaxMoves
  BY <1>1, StorefrontAssumption DEF Integration!IntegrateAssumption, FormBounds
<1>3. selected.id \in Open \cup {None} BY <1>1 DEF Integration!NoPick
<1>4. counts \in [Open -> [count : Nat, latest : Nat]] BY DEF BoardInv, Tallies
<1>5. scan.page \in 0..MAX_PAGES
  <2>1. scan.page \in Nat /\ (scan.state = "scanning" => scan.page < LastPage)
        /\ (scan.state = "done" => scan.page = LastPage)
        /\ (scan.state = "failed" => scan.page = 0)
        /\ scan.state \in {"scanning", "done", "failed"}
    BY DEF BoardInv, FormBounds
  <2>2. LastPage \in Nat /\ LastPage <= MAX_PAGES /\ MAX_PAGES \in Nat BY BoardConstants
  <2>3. QED BY <2>1, <2>2
<1>6. Integration!busy <=> task # Integration!NoTask
  BY DEF Integration!busy, FormBounds, BusyWithTask
<1>7. connected \in BOOLEAN BY DEF FormBounds
<1>8. countsLoading \in BOOLEAN BY DEF FormBounds
<1>9. /\ param \in Open \cup {None} /\ phase \in {"idle", "signing", "success", "error"}
      /\ task.step \in {"none", "read", "sign"} /\ scan.state \in {"scanning", "done", "failed"}
  BY DEF FormBounds, BusyWithTask
<1>10. QED
  BY <1>1, <1>2, <1>3, <1>4, <1>5, <1>6, <1>7, <1>8, <1>9 DEF Integration!TypeOK, Open, Forms
-----------------------------------------------------------------------------
(* The bake: it has as many meshes as the editor has variants, once it is  *)
(* over.                                                                   *)
BakeBounds ==
  /\ session \in {"valid", "expired", "none"}
  /\ bakeStep \in {"idle", "names", "sent", "cap", "bake", "answered"}
  /\ glbs = <<>> \/ Len(glbs) = Variants

LEMMA BakeBoundsInit == Bake!Init => BakeBounds
  BY DEF Bake!Init, BakeBounds

LEMMA BakeBoundsStep ==
    ASSUME BakeInv, BakeBounds, [Bake!Next]_(Bake!vars)
    PROVE  BakeBounds'
<1>1. CASE Bake!Receive
  <2>1. /\ bakeStep = "answered" /\ bakeStep' = "idle" /\ session' \in {"none", session}
        /\ glbs' = IF request.from = "page" /\ answer = "ok"
                   THEN [v \in DOMAIN request.variants |-> Bake!swapMaterial(base, request.variants[v])]
                   ELSE glbs
    BY <1>1 DEF Bake!Receive
  <2>2. CASE request.from = "page" /\ answer = "ok"
    <3>1. request.variants = [v \in 1..Variants |-> Bake!PartColors(v, request.lacks)]
      BY <2>1, <2>2 DEF BakeInv, RequestInv
    <3>2. DOMAIN request.variants = 1..Variants BY <3>1
    <3>3. glbs' = [v \in 1..Variants |-> Bake!swapMaterial(base, request.variants[v])]
      BY <2>1, <2>2, <3>2
    <3>4. Variants \in Nat BY StorefrontAssumption DEF Bake!BakeAssumption
    <3>5. Len(glbs') = Variants BY <3>3, <3>4
    <3>6. QED BY <2>1, <3>5 DEF BakeBounds
  <2>3. CASE ~(request.from = "page" /\ answer = "ok")
    BY <2>1, <2>3 DEF BakeBounds
  <2>4. QED BY <2>2, <2>3
<1>2. ASSUME glbs' = glbs, session' \in {session, "expired", "valid"},
             bakeStep' \in {bakeStep, "names", "sent", "cap", "bake", "answered"}
      PROVE  BakeBounds'
  BY <1>2 DEF BakeBounds
<1>3. CASE Bake!Expire \/ Bake!SignIn \/ UNCHANGED Bake!vars
  BY <1>2, <1>3 DEF Bake!Expire, Bake!SignIn, Bake!vars
<1>4. CASE Bake!runBuildVariants \/ Bake!Post \/ Bake!OtherPosts
  BY <1>2, <1>4 DEF Bake!runBuildVariants, Bake!Post, Bake!OtherPosts
<1>5. CASE Bake!Refuse \/ Bake!Authorized \/ Bake!CheckCap \/ Bake!Bake
  BY <1>2, <1>5 DEF Bake!Refuse, Bake!Authorized, Bake!CheckCap, Bake!Bake, Bake!Reply
<1>6. QED BY <1>1, <1>3, <1>4, <1>5 DEF Bake!Next

LEMMA BakeIsTyped == BakeInv /\ BakeBounds => Bake!TypeOK
  BY DEF BakeInv, BakeBounds, Bake!TypeOK

(* The upload: the hook counts the quilts of its files, and the trail keeps*)
(* no more than its newest breadcrumbs.                                    *)
CountsQuilts ==
  /\ batchTotal \in Nat \ {0} /\ batchIndex \in 0..(batchTotal - 1)
  /\ run.tries \in 0..(Attempts - 1)
  /\ run.step = "listing" => run.kind = "files"
  /\ FilesRun => batchTotal = Upload!QuiltCount(run)

TrailBounds == Len(trail) <= MaxEntries
BehindBounds == behind <= MaxBehind /\ shared \in BOOLEAN /\ surfaced \in BOOLEAN

LEMMA UploadBoundsInit == Upload!Init => CountsQuilts /\ TrailBounds /\ BehindBounds
<1> SUFFICES ASSUME Upload!Init PROVE CountsQuilts /\ TrailBounds /\ BehindBounds
  OBVIOUS
<1>1. Attempts \in Nat \ {0} /\ MaxBehind \in Nat /\ MaxEntries \in Nat
  BY StorefrontAssumption DEF Upload!UploadAssumption
<1>2. /\ batchIndex = 0 /\ batchTotal = 1 /\ run = Upload!NoRun /\ trail = <<>>
      /\ surfaced = FALSE /\ behind = 0 /\ shared = FALSE
  BY DEF Upload!Init
<1>3. run.tries = 0 /\ run.step = "none" BY <1>2 DEF Upload!NoRun
<1>4. CountsQuilts BY <1>1, <1>2, <1>3 DEF CountsQuilts, FilesRun
<1>5. TrailBounds BY <1>1, <1>2 DEF TrailBounds
<1>6. BehindBounds
  <2>1. behind <= MaxBehind BY <1>1, <1>2
  <2>2. shared \in BOOLEAN /\ surfaced \in BOOLEAN BY <1>2
  <2>3. QED BY <2>1, <2>2 DEF BehindBounds
<1>7. QED BY <1>4, <1>5, <1>6

LEMMA TrailWithin ==
    ASSUME UploadInv, NEW c, NEW d, NEW crumbs, crumbs = <<c>> \/ crumbs = <<c, d>>,
           Upload!Write(crumbs)
    PROVE  TrailBounds'
<1> DEFINE S == Crumbs \cup {c, d}
           t == trail \o crumbs
<1>1. trail \in Seq(Crumbs) BY DEF UploadInv, UploadTyped
<1>2. trail \in Seq(S) BY <1>1
<1>3. crumbs \in Seq(S) BY DEF S
<1>4. t \in Seq(S)
  <2> HIDE DEF S
  <2>1. QED BY <1>2, <1>3
<1>5. trail' = Upload!NewestOf(t) BY DEF Upload!Write
<1> HIDE DEF S, t
<1>6. MaxEntries \in Nat /\ MaxEntries >= 1 BY Limits
<1>7. Len(t) \in Nat BY <1>4
<1>8. CASE Len(t) > MaxEntries
  <2>1. trail' = SubSeq(t, Len(t) - MaxEntries + 1, Len(t)) BY <1>5, <1>8 DEF Upload!NewestOf
  <2>2. /\ Len(t) - MaxEntries + 1 \in 1..Len(t) + 1
        /\ Len(t) \in Len(t) - MaxEntries + 1 - 1..Len(t)
    BY <1>6, <1>7, <1>8
  <2>3. Len(trail') = Len(t) - (Len(t) - MaxEntries + 1) + 1
    BY <1>4, <2>1, <2>2, SubSeqProperties
  <2>4. Len(trail') = MaxEntries BY <1>6, <1>7, <2>3
  <2>5. QED BY <1>6, <2>4 DEF TrailBounds
<1>9. CASE ~(Len(t) > MaxEntries)
  <2>1. trail' = t BY <1>5, <1>9 DEF Upload!NewestOf
  <2>2. QED BY <1>6, <1>7, <1>9, <2>1 DEF TrailBounds
<1>10. QED BY <1>8, <1>9

LEMMA TrailBoundsStep ==
    ASSUME UploadInv, TrailBounds, [Upload!Next]_(Upload!vars)
    PROVE  TrailBounds'
<1>1. ASSUME trail' = <<>> PROVE TrailBounds'
  <2>1. MaxEntries \in Nat BY Limits
  <2>2. QED BY <1>1, <2>1 DEF TrailBounds
<1>2. ASSUME trail' = trail PROVE TrailBounds' BY <1>2 DEF TrailBounds
<1>3. ASSUME NEW c, NEW d, NEW crumbs, crumbs = <<c>> \/ crumbs = <<c, d>>,
             Upload!writeDiag(run, crumbs)
      PROVE  TrailBounds'
  BY <1>2, <1>3, TrailWithin DEF Upload!writeDiag
<1>4. ASSUME Upload!clearTrail(run) PROVE TrailBounds'
  BY <1>1, <1>2, <1>4 DEF Upload!clearTrail
<1>5. ASSUME Upload!Throw PROVE TrailBounds' BY <1>4, <1>5 DEF Upload!Throw
<1>6. ASSUME NEW s, Upload!Enter(s) PROVE TrailBounds'
  <2> DEFINE c == Upload!Crumb("post", stage, run.quilt)
             d == Upload!Crumb("pre", s, run.quilt)
  <2>1. Upload!writeDiag(run, <<c, d>>) BY <1>6 DEF Upload!Enter
  <2> HIDE DEF c, d
  <2>2. QED BY <1>3, <2>1
<1>7. ASSUME NEW ids, Upload!Done(ids) PROVE TrailBounds' BY <1>4, <1>7 DEF Upload!Done
<1>8. ASSUME NEW plan, Upload!uploadFiles(plan) PROVE TrailBounds'
  <2> DEFINE c == Upload!Crumb("pre", "encoding", 0)
  <2>1. Upload!Write(<<c, c>>) BY <1>8 DEF Upload!uploadFiles
  <2> HIDE DEF c
  <2>2. QED BY <2>1, TrailWithin
<1>9. CASE Upload!BehindWrites
  <2> DEFINE c == Upload!Crumb("pre", "of another", 0)
  <2>1. Upload!Write(<<c>>) BY <1>9 DEF Upload!BehindWrites
  <2> HIDE DEF c
  <2>2. QED BY <2>1, TrailWithin
<1>10. CASE Upload!surfaceStaleTrail \/ Upload!BehindEnds
  BY <1>1, <1>10 DEF Upload!surfaceStaleTrail, Upload!BehindEnds
<1>11. CASE Upload!uploadBlob \/ Upload!Leave \/ UNCHANGED Upload!vars
  BY <1>2, <1>11 DEF Upload!uploadBlob, Upload!Leave, Upload!vars, Upload!trailVars
<1>12. CASE Upload!PageDies
  <2>1. trail' = stored /\ stored = trail
    BY <1>12 DEF Upload!PageDies, UploadInv, UploadTyped
  <2>2. QED BY <1>2, <2>1
<1>13. CASE Upload!encode BY <1>5, <1>6, <1>13 DEF Upload!encode
<1>14. CASE Upload!executeRegister BY <1>5, <1>6, <1>14 DEF Upload!executeRegister
<1>15. CASE Upload!upload
  <2> DEFINE c == Upload!Crumb("retry", "relay-upload", run.quilt)
  <2>1. \/ Upload!Enter("awaiting-certify") \/ Upload!Throw \/ Upload!writeDiag(run, <<c>>)
    BY <1>15 DEF Upload!upload
  <2> HIDE DEF c
  <2>2. QED BY <1>3, <1>5, <1>6, <2>1
<1>16. CASE Upload!executeCertify
  <2> DEFINE c == Upload!Crumb("post", "awaiting-certify", run.quilt)
  <2>1. \/ Upload!writeDiag(run, <<c>>) \/ Upload!Done(<<1>>) \/ Upload!Throw
    BY <1>16 DEF Upload!executeCertify
  <2> HIDE DEF c
  <2>2. QED BY <1>3, <1>5, <1>7, <2>1
<1>17. CASE Upload!Collect
  <2> DEFINE ids == run.ids \o Upload!listFiles(run, run.quilt)
             c == Upload!Crumb("pre", "encoding", run.quilt + 1)
  <2>1. \/ Upload!Done(ids) \/ Upload!writeDiag(run, <<c>>) \/ Upload!Throw
    BY <1>17 DEF Upload!Collect
  <2> HIDE DEF ids, c
  <2>2. QED BY <1>3, <1>5, <1>7, <2>1
<1>18. QED
  BY <1>8, <1>9, <1>10, <1>11, <1>12, <1>13, <1>14, <1>15, <1>16, <1>17 DEF Upload!Next

LEMMA BehindBoundsStep ==
    ASSUME UploadInv, BehindBounds, [Upload!Next]_(Upload!vars)
    PROVE  BehindBounds'
<1>0. behind \in Nat /\ MaxBehind \in Nat
  BY StorefrontAssumption DEF Upload!UploadAssumption, UploadInv, UploadTyped
<1>1. ASSUME UNCHANGED <<surfaced, behind, shared>> PROVE BehindBounds' BY <1>1 DEF BehindBounds
<1>2. CASE Upload!surfaceStaleTrail
  BY <1>2 DEF Upload!surfaceStaleTrail, BehindBounds
<1>3. ASSUME NEW plan, Upload!uploadFiles(plan) PROVE BehindBounds'
  <2>1. shared' = (behind > 0) /\ UNCHANGED <<surfaced, behind>> BY <1>3 DEF Upload!uploadFiles
  <2>2. shared' \in BOOLEAN BY <2>1
  <2>3. QED BY <2>1, <2>2 DEF BehindBounds
<1>4. CASE Upload!Leave
  <2>1. /\ Upload!Running => behind < MaxBehind
        /\ behind' = (IF Upload!Running /\ run.kind = "files" THEN behind + 1 ELSE behind)
        /\ UNCHANGED <<surfaced, shared>>
    BY <1>4 DEF Upload!Leave
  <2>2. behind' <= MaxBehind BY <1>0, <2>1 DEF BehindBounds
  <2>3. QED BY <2>1, <2>2 DEF BehindBounds
<1>5. CASE Upload!BehindEnds
  <2>1. behind' = behind - 1 /\ shared' = (shared \/ Upload!Running) /\ surfaced' = surfaced
    BY <1>5 DEF Upload!BehindEnds
  <2>2. shared' \in BOOLEAN BY <2>1
  <2>3. behind' <= MaxBehind BY <1>0, <2>1 DEF BehindBounds
  <2>4. QED BY <2>1, <2>2, <2>3 DEF BehindBounds
<1>6. CASE Upload!PageDies
  <2>1. behind' = 0 /\ shared' = FALSE /\ surfaced' = FALSE BY <1>6 DEF Upload!PageDies
  <2>2. behind' <= MaxBehind BY <1>0, <2>1
  <2>3. shared' \in BOOLEAN /\ surfaced' \in BOOLEAN BY <2>1
  <2>4. QED BY <2>2, <2>3 DEF BehindBounds
<1>7. CASE Upload!encode \/ Upload!executeRegister \/ Upload!upload \/ Upload!executeCertify
           \/ Upload!Collect
  <2>1. UNCHANGED <<surfaced, behind, shared>>
    BY <1>7
    DEF Upload!encode, Upload!executeRegister, Upload!upload, Upload!executeCertify, Upload!Collect,
        Upload!Enter, Upload!Throw, Upload!Done, Upload!writeDiag, Upload!clearTrail
  <2>2. QED BY <1>1, <2>1
<1>8. CASE Upload!uploadBlob \/ Upload!BehindWrites \/ UNCHANGED Upload!vars
  BY <1>1, <1>8 DEF Upload!uploadBlob, Upload!BehindWrites, Upload!vars, Upload!trailVars
<1>9. QED BY <1>2, <1>3, <1>4, <1>5, <1>6, <1>7, <1>8 DEF Upload!Next
-----------------------------------------------------------------------------
(* A run that goes on, or ends, within its quilt and its attempts.         *)
LEMMA CountsGoOn ==
    ASSUME CountsQuilts, SameQuilt, run'.tries \in 0..(Attempts - 1),
           UNCHANGED <<batchIndex, batchTotal>>, run.step # "none",
           run'.step = "listing" => run.kind = "files"
    PROVE  CountsQuilts'
<1>1. Upload!QuiltCount(run') = Upload!QuiltCount(run) BY DEF SameQuilt, Upload!QuiltCount
<1>2. FilesRun' => FilesRun BY DEF SameQuilt, FilesRun
<1>3. run'.kind = run.kind BY DEF SameQuilt
<1>4. QED BY <1>1, <1>2, <1>3 DEF CountsQuilts

LEMMA CountsStep ==
    ASSUME UploadInv, CountsQuilts, NEW s, run' = [run EXCEPT !.step = s],
           UNCHANGED <<batchIndex, batchTotal>>, run.step # "none",
           s = "listing" => run.kind = "files"
    PROVE  CountsQuilts'
<1>1. SameQuilt /\ run'.step = s BY NextStep
<1>2. run'.tries = run.tries
  <2>1. run = [kind |-> run.kind, files |-> run.files, size |-> run.size, quilt |-> run.quilt,
               step |-> run.step, tries |-> run.tries, ids |-> run.ids]
    BY DEF UploadInv, UploadTyped
  <2>2. QED BY <2>1
<1>3. QED BY <1>1, <1>2, CountsGoOn DEF CountsQuilts

(* A run that is over.                                                     *)
LEMMA CountsRest ==
    ASSUME run'.step = "none", run'.tries \in 0..(Attempts - 1),
           batchTotal' \in Nat \ {0}, batchIndex' \in 0..(batchTotal' - 1)
    PROVE  CountsQuilts'
  BY DEF CountsQuilts, FilesRun

LEMMA CountsQuiltsStep ==
    ASSUME UploadInv, OrderInv, CountsQuilts, [Upload!Next]_(Upload!vars)
    PROVE  CountsQuilts'
<1>0. run.quilt \in Nat /\ Attempts \in Nat \ {0}
  BY StorefrontAssumption DEF Upload!UploadAssumption, UploadInv, UploadTyped
<1>r. run = [kind |-> run.kind, files |-> run.files, size |-> run.size, quilt |-> run.quilt,
             step |-> run.step, tries |-> run.tries, ids |-> run.ids]
  BY DEF UploadInv, UploadTyped
<1>1. ASSUME UNCHANGED <<run, batchIndex, batchTotal>> PROVE CountsQuilts'
  BY <1>1 DEF CountsQuilts, FilesRun, Upload!QuiltCount
<1>2. CASE Upload!surfaceStaleTrail \/ Upload!BehindWrites \/ Upload!BehindEnds \/ UNCHANGED Upload!vars
  <2>1. UNCHANGED <<run, batchIndex, batchTotal>>
    BY <1>2 DEF Upload!surfaceStaleTrail, Upload!BehindWrites, Upload!BehindEnds, Upload!vars,
                Upload!hookVars, Upload!runVars
  <2>2. QED BY <1>1, <2>1
<1>3. ASSUME run.step # "none", Upload!Throw PROVE CountsQuilts'
  BY <1>3, CountsStep DEF Upload!Throw
<1>4. ASSUME run.step # "none", NEW s \in Upload!Working, Upload!Enter(s),
             UNCHANGED <<batchIndex, batchTotal>>
      PROVE  CountsQuilts'
  BY <1>4, CountsStep DEF Upload!Enter, Upload!Working
<1>5. ASSUME NEW ids, Upload!Done(ids) PROVE CountsQuilts'
  <2>1. /\ run' = [run EXCEPT !.step = "none", !.ids = ids] /\ UNCHANGED <<batchIndex, batchTotal>>
    BY <1>5 DEF Upload!Done
  <2>2. run'.step = "none" /\ run'.tries = run.tries BY <1>r, <2>1
  <2>3. QED BY <2>1, <2>2, CountsRest DEF CountsQuilts
<1>6. ASSUME NEW plan \in Plans, Upload!uploadFiles(plan) PROVE CountsQuilts'
  <2> DEFINE r == [Upload!NoRun EXCEPT !.kind = "files", !.files = plan[1], !.size = plan[2],
                                       !.step = "encoding"]
  <2>1. run' = r /\ batchIndex' = 0 /\ batchTotal' = Upload!QuiltCount(r)
    BY <1>6 DEF Upload!uploadFiles
  <2>2. r = [kind |-> "files", files |-> plan[1], size |-> plan[2], quilt |-> 0,
             step |-> "encoding", tries |-> 0, ids |-> <<>>]
    BY FilesBegin
  <2>3. plan[1] \in Nat \ {0} /\ plan[2] \in Nat \ {0} BY Limits
  <2>4. /\ run'.kind = "files" /\ run'.files = plan[1] /\ run'.size = plan[2]
        /\ run'.tries = 0 /\ run'.step = "encoding"
    BY <2>1, <2>2
  <2>5. batchTotal' = (plan[1] + plan[2] - 1) \div plan[2]
    BY <2>1, <2>4 DEF Upload!QuiltCount
  <2> HIDE DEF r
  <2>6. batchTotal' \in Nat \ {0}
    <3>1. 0 < batchTotal' <=> 0 * plan[2] < plan[1] BY <2>3, <2>5, QuiltsCover
    <3>2. 0 * plan[2] = 0 BY <2>3
    <3>3. batchTotal' \in Int BY <2>3, <2>5
    <3>4. QED BY <2>3, <3>1, <3>2, <3>3
  <2>7. batchTotal' = Upload!QuiltCount(run') BY <2>1
  <2>8. run'.tries \in 0..(Attempts - 1) BY <1>0, <2>4
  <2>9. batchIndex' \in 0..(batchTotal' - 1) BY <2>1, <2>6
  <2>10. QED BY <2>4, <2>6, <2>7, <2>8, <2>9 DEF CountsQuilts
<1>7. CASE Upload!uploadBlob
  <2>1. /\ run' = [Upload!NoRun EXCEPT !.kind = "blob", !.files = 1, !.step = "encoding"]
        /\ UNCHANGED <<batchIndex, batchTotal>>
    BY <1>7 DEF Upload!uploadBlob
  <2>2. run' = [kind |-> "blob", files |-> 1, size |-> 1, quilt |-> 0,
                step |-> "encoding", tries |-> 0, ids |-> <<>>]
    BY <2>1 DEF Upload!NoRun
  <2>3. run'.kind = "blob" /\ run'.step = "encoding" /\ run'.tries = 0 BY <2>2
  <2>4. run'.tries \in 0..(Attempts - 1) BY <1>0, <2>3
  <2>5. QED BY <2>1, <2>3, <2>4 DEF CountsQuilts, FilesRun
<1>8. CASE Upload!encode
  <2>1. run.step # "none" BY <1>8 DEF Upload!encode
  <2>2. Upload!Throw \/ (Upload!Enter("awaiting-register") /\ UNCHANGED <<batchIndex, batchTotal>>)
    BY <1>8 DEF Upload!encode
  <2>3. QED BY <1>3, <1>4, <2>1, <2>2 DEF Upload!Working
<1>9. CASE Upload!executeRegister
  <2>1. run.step # "none" BY <1>9 DEF Upload!executeRegister
  <2>2. Upload!Throw \/ (Upload!Enter("relay-upload") /\ UNCHANGED <<batchIndex, batchTotal>>)
    BY <1>9 DEF Upload!executeRegister
  <2>3. QED BY <1>3, <1>4, <2>1, <2>2 DEF Upload!Working
<1>10. CASE Upload!upload
  <2>1. run.step = "relay-upload" /\ run.step # "none" BY <1>10 DEF Upload!upload
  <2>2. \/ Upload!Throw \/ (Upload!Enter("awaiting-certify") /\ UNCHANGED <<batchIndex, batchTotal>>)
        \/ /\ Upload!MayRetry /\ run' = [run EXCEPT !.tries = @ + 1]
           /\ UNCHANGED <<batchIndex, batchTotal>>
    BY <1>10 DEF Upload!upload, Upload!hookVars
  <2>3. CASE /\ Upload!MayRetry /\ run' = [run EXCEPT !.tries = @ + 1]
             /\ UNCHANGED <<batchIndex, batchTotal>>
    <3>1. SameQuilt /\ run'.step = run.step /\ run'.tries = run.tries + 1
      BY <1>r, <2>3 DEF SameQuilt
    <3>2. run'.tries \in 0..(Attempts - 1)
      BY <1>0, <2>3, <3>1 DEF Upload!MayRetry, CountsQuilts
    <3>3. run'.step # "listing" BY <2>1, <3>1
    <3>4. QED BY <2>1, <2>3, <3>1, <3>2, <3>3, CountsGoOn
  <2>4. QED BY <1>3, <1>4, <2>1, <2>2, <2>3 DEF Upload!Working
<1>11. CASE Upload!executeCertify
  <2>1. run.step # "none" BY <1>11 DEF Upload!executeCertify
  <2>2. \/ Upload!Throw \/ Upload!Done(<<1>>)
        \/ /\ run.kind = "files" /\ run' = [run EXCEPT !.step = "listing"]
           /\ UNCHANGED <<batchIndex, batchTotal>>
    BY <1>11 DEF Upload!executeCertify, Upload!hookVars
  <2>3. QED BY <1>3, <1>5, <2>1, <2>2, CountsStep
<1>12. CASE Upload!Collect
  <2> DEFINE ids == run.ids \o Upload!listFiles(run, run.quilt)
             q == run.quilt + 1
  <2>1. run.step = "listing" /\ run.step # "none" BY <1>12 DEF Upload!Collect
  <2>2. \/ Upload!Throw \/ Upload!Done(ids)
        \/ /\ q < Upload!QuiltCount(run)
           /\ run' = [run EXCEPT !.quilt = q, !.step = "encoding", !.tries = 0, !.ids = ids]
           /\ batchIndex' = q /\ batchTotal' = batchTotal
    BY <1>12 DEF Upload!Collect
  <2>3. CASE /\ q < Upload!QuiltCount(run)
             /\ run' = [run EXCEPT !.quilt = q, !.step = "encoding", !.tries = 0, !.ids = ids]
             /\ batchIndex' = q /\ batchTotal' = batchTotal
    <3> HIDE DEF ids
    <3>1. /\ run'.kind = run.kind /\ run'.files = run.files /\ run'.size = run.size
          /\ run'.step = "encoding" /\ run'.tries = 0
      BY <1>r, <2>3
    <3>2. Upload!QuiltCount(run') = Upload!QuiltCount(run) BY <3>1 DEF Upload!QuiltCount
    <3>3. batchTotal = Upload!QuiltCount(run) BY <2>1 DEF CountsQuilts, FilesRun
    <3>4. batchIndex' \in 0..(batchTotal' - 1) /\ batchTotal' \in Nat \ {0}
      BY <1>0, <2>3, <3>3 DEF CountsQuilts
    <3>5. run'.tries \in 0..(Attempts - 1) BY <1>0, <3>1
    <3>6. batchTotal' = Upload!QuiltCount(run') BY <2>3, <3>2, <3>3
    <3>7. run'.step # "listing" BY <3>1
    <3>8. QED BY <3>4, <3>5, <3>6, <3>7 DEF CountsQuilts
  <2> HIDE DEF ids, q
  <2>4. QED BY <1>3, <1>5, <2>1, <2>2, <2>3
<1>13. CASE Upload!Leave \/ Upload!PageDies
  <2>1. Upload!Idle BY <1>13 DEF Upload!Leave, Upload!PageDies
  <2>2. run' = Upload!NoRun /\ batchIndex' = 0 /\ batchTotal' = 1 BY <2>1 DEF Upload!Idle
  <2>3. run'.step = "none" /\ run'.tries = 0 BY <2>2 DEF Upload!NoRun
  <2>4. run'.tries \in 0..(Attempts - 1) BY <1>0, <2>3
  <2>5. QED BY <2>2, <2>3, <2>4, CountsRest
<1>14. QED
  BY <1>2, <1>6, <1>7, <1>8, <1>9, <1>10, <1>11, <1>12, <1>13 DEF Upload!Next

UploadBounds == CountsQuilts /\ TrailBounds /\ BehindBounds

LEMMA UploadIsTyped == UploadInv /\ UploadBounds => Upload!TypeOK
<1> SUFFICES ASSUME UploadInv, UploadBounds PROVE Upload!TypeOK
  OBVIOUS
<1>1. /\ stage \in Upload!Working \cup {"idle", "done", "error"}
      /\ run.step \in Upload!Working \cup {"none", "listing"}
      /\ stored = trail /\ behind \in Nat
  BY DEF UploadInv, UploadTyped, Stages, Steps, Upload!Working
<1>2. /\ batchTotal \in Nat \ {0} /\ batchIndex \in 0..(batchTotal - 1)
      /\ run.tries \in 0..(Attempts - 1)
  BY DEF UploadBounds, CountsQuilts
<1>3. Len(trail) <= MaxEntries BY DEF UploadBounds, TrailBounds
<1>4. behind \in 0..MaxBehind
  BY <1>1, StorefrontAssumption DEF Upload!UploadAssumption, UploadBounds, BehindBounds
<1>5. shared \in BOOLEAN BY DEF UploadBounds, BehindBounds
<1>6. surfaced \in BOOLEAN BY DEF UploadBounds, BehindBounds
<1>7. QED BY <1>1, <1>2, <1>3, <1>4, <1>5, <1>6 DEF Upload!TypeOK

-----------------------------------------------------------------------------
(* Together: what the parts hold, and their bounds.                        *)
PartsInv == ListsInv /\ ReadsInv /\ BakeInv
PartsBounds == BrowseBounds /\ ReadsBounds /\ FormBounds /\ UploadBounds /\ BakeBounds

(* The five parts stay within their types: whatever is published, launched,*)
(* registered, uploaded or baked meanwhile, the index answers with models, *)
(* the pages with collections, the integration form is busy exactly while  *)
(* its transaction awaits, an upload of files is at one of its quilts and  *)
(* within its attempts, its trail keeps to its length, and a bake has the  *)
(* meshes of all variants or none.                                         *)
THEOREM StorefrontStaysTyped == CatalogSpec => []CatalogTypeOK
<1>1. CatalogInit => PartsInv /\ PartsBounds
  <2> SUFFICES ASSUME CatalogInit PROVE PartsInv /\ PartsBounds
    OBVIOUS
  <2>1. Browse!Init /\ Reads!Init /\ Integration!Init /\ Upload!Init /\ Bake!Init
    BY DEF CatalogInit
  <2>2. PartsInv
    BY <2>1, BrowseInit, GridInit, ReadsInit, IntegrateInit, BoardInit, UploadInit, OrderInit,
       BakeInit
    DEF PartsInv, ListsInv
  <2>3. PartsBounds
    BY <2>1, BrowseBoundsInit, ReadsBoundsInit, FormBoundsInit, UploadBoundsInit, BakeBoundsInit
    DEF PartsBounds, UploadBounds
  <2>4. QED BY <2>2, <2>3
<1>2. (PartsInv /\ PartsBounds) /\ [CatalogNext]_catalogVars => (PartsInv /\ PartsBounds)'
  <2> SUFFICES ASSUME PartsInv, PartsBounds, [CatalogNext]_catalogVars
               PROVE  PartsInv' /\ PartsBounds'
    OBVIOUS
  <2> USE DEF PartsInv, PartsBounds, ListsInv
  <2>1. BrowseInv' /\ GridInv' /\ BrowseBounds'
    BY BrowseStep, GridStep, BrowseBoundsStep, StorefrontSteps
  <2>2. ReadsInv' /\ ReadsBounds' BY ReadsStep, ReadsBoundsStep, StorefrontSteps
  <2>3. IntegrateInv' /\ BoardInv' /\ FormBounds'
    BY IntegrateStep, BoardStep, FormBoundsStep, StorefrontSteps
  <2>4. UploadInv' /\ OrderInv' BY UploadStep, OrderStep, StorefrontSteps
  <2>5. UploadBounds'
    BY CountsQuiltsStep, TrailBoundsStep, BehindBoundsStep, StorefrontSteps DEF UploadBounds
  <2>6. BakeInv' /\ BakeBounds' BY BakeStep, BakeBoundsStep, StorefrontSteps
  <2>7. QED BY <2>1, <2>2, <2>3, <2>4, <2>5, <2>6
<1>3. PartsInv /\ PartsBounds => CatalogTypeOK
  BY BrowseIsTyped, ReadsAreTyped, FormIsTyped, UploadIsTyped, BakeIsTyped
  DEF PartsInv, PartsBounds, ListsInv, CatalogTypeOK
<1>4. QED BY <1>1, <1>2, <1>3, PTL DEF CatalogSpec
===============================================================================
