------------------------------ MODULE Storefront ------------------------------
(***************************************************************************)
(* Collections, from their art to the pages that list them, as one model:  *)
(* the bake of their variants, the upload of files to Walrus, the package  *)
(* with its tokens and integrations, the browse page, the page of a        *)
(* collection and the integration page.  None of them shares state with    *)
(* another within a visit, so a behaviour is about one of the six.         *)
(***************************************************************************)
EXTENDS NftCollection

CONSTANTS
  Models, Private, NoTag, GroupOf, TagsOf, CreatedAt, PlaceOf, ChipLists, \* browse
  MaxTickets, MaxRecalls,
  Collections, Closed, None, MaxReads,                               \* the page of a collection
  Fees, PublishTimeOf, IdRankOf, TokenPages, MAX_PAGES, MaxMoves, MaxClicks,  \* the integration page
  Plans, Digits, PadWidth, Attempts, MaxEntries, MaxBehind,          \* the uploads
  Bases, Unnamed, Variants, Incomplete, OtherSpecs                   \* the bake

VARIABLES
  part,
  onChain, cache, allModels, from, requests, reqCounter, loading, error, tagFilter, browser,
  query, lanes, recalls,
  launched, slug, shownCollection, pageLoading, pageError, reads, usedBy, usedLoading, usedError,
  usedReads, enabled, list, listLoading, listError, listReads,
  fee, moves, open, registered, connected, offered, board, counts, countsLoading, scan, param,
  selected, form, phase, task, clicks, lastChoice, outcome,
  stage, batchIndex, batchTotal, txDigests, uploadError, run, landed, returned, trail, stored,
  surfaced, behind, shared, died,
  base, session, creatorCaps, bakeStep, names, request, answer, glbs

browseVars == <<onChain, cache, allModels, from, requests, reqCounter, loading, error, tagFilter,
                browser, query, lanes, recalls>>
readVars == <<launched, slug, shownCollection, pageLoading, pageError, reads, usedBy, usedLoading,
              usedError, usedReads, enabled, list, listLoading, listError, listReads>>
integrateVars == <<fee, moves, open, registered, connected, offered, board, counts,
                   countsLoading, scan, param, selected, form, phase, task, clicks, lastChoice,
                   outcome>>
uploadVars == <<stage, batchIndex, batchTotal, txDigests, uploadError, run, landed, returned,
                trail, stored, surfaced, behind, shared, died>>
bakeVars == <<base, session, creatorCaps, bakeStep, names, request, answer, glbs>>

Browse == INSTANCE Catalog WITH account <- browser

Reads == INSTANCE CollectionPages WITH
  collection <- shownCollection, used <- usedBy, loading <- pageLoading, error <- pageError

(* The integration page offers what is open to it.                         *)
Integration == INSTANCE Integrate WITH
  Collections <- Collections \ Closed, account <- connected

Upload == INSTANCE WalrusUpload WITH error <- uploadError

Bake == INSTANCE VariantBuild WITH token <- session, caps <- creatorCaps, step <- bakeStep

ASSUME StorefrontAssumption ==
  /\ Browse!CatalogAssumption /\ Reads!ReadsAssumption
  /\ Integration!IntegrateAssumption /\ Upload!UploadAssumption /\ Bake!BakeAssumption

CatalogInit ==
  /\ part \in {"chain", "browse", "collection", "integrate", "upload", "bake"}
  /\ Init /\ Browse!Init /\ Reads!Init /\ Integration!Init /\ Upload!Init /\ Bake!Init
  /\ part # "browse" => onChain = {}
  /\ part # "collection" => launched = {} /\ slug = CHOOSE c \in Collections : TRUE
  /\ part # "integrate" =>
       fee = [c \in Collections \ Closed |-> CHOOSE f \in Fees : TRUE] /\ param = None
  /\ part # "bake" => base = (CHOOSE b \in Bases : TRUE) /\ creatorCaps = {}

CatalogNext ==
  /\ UNCHANGED part
  /\ \/ /\ part = "chain" /\ Next
        /\ UNCHANGED <<browseVars, readVars, integrateVars, uploadVars, bakeVars>>
     \/ /\ part = "browse" /\ Browse!Next
        /\ UNCHANGED <<vars, readVars, integrateVars, uploadVars, bakeVars>>
     \/ /\ part = "collection" /\ Reads!Next
        /\ UNCHANGED <<vars, browseVars, integrateVars, uploadVars, bakeVars>>
     \/ /\ part = "integrate" /\ Integration!Next
        /\ UNCHANGED <<vars, browseVars, readVars, uploadVars, bakeVars>>
     \/ /\ part = "upload" /\ Upload!Next
        /\ UNCHANGED <<vars, browseVars, readVars, integrateVars, bakeVars>>
     \/ /\ part = "bake" /\ Bake!Next
        /\ UNCHANGED <<vars, browseVars, readVars, integrateVars, uploadVars>>

catalogVars == <<part, vars, browseVars, readVars, integrateVars, uploadVars, bakeVars>>

CatalogSpec == CatalogInit /\ [][CatalogNext]_catalogVars

-----------------------------------------------------------------------------
(* The type invariants of the pages. *)
CatalogTypeOK ==
  /\ Browse!TypeOK /\ Reads!TypeOK /\ Integration!TypeOK
  /\ Upload!TypeOK /\ Bake!TypeOK

(* What a page lists is what it last asked for, whichever answer came last:*)
(* of the index, of one collection and its integrations, of the open ones. *)
NewestReadWins == Browse!NewestIndexWins /\ Reads!ReadsAreOwn

(* No listing hides or invents an entry, and each is in the order it names:*)
(* the cards of browse, the leaderboard, the files of the quilts uploaded. *)
ListsAreHonest ==
  Browse!GridIsHonest /\ Integration!BoardIsWhole /\ Upload!UploadsInOrder

(* A registration is the one the user made and confirmed.                  *)
RegistersAsClicked ==
  /\ Integration!RegistersAsClicked
  /\ Integration!FeeFailsOnlyIfMoved
  /\ Integration!SelectedIsLastChoice

(* The art a collection is made of is the art designed: a baked mesh has   *)
(* on each part the colour chosen for it, and the user is told of exactly  *)
(* what was stored, after a crash too.                                     *)
ArtArrives ==
  /\ Bake!BakedAsDesigned /\ Bake!PaintsWhatIsNamed
  /\ Upload!PanelIsHonest /\ Upload!DeathIsTold
=============================================================================
