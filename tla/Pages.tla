-------------------------------- MODULE Pages --------------------------------
(***************************************************************************)
(* The pages a signed-in user works on, as one model: the router mounts    *)
(* one of them at a time and its state goes with it, so a behaviour is one *)
(* visit to one page, or to the launch page several in a row: its handlers *)
(* go on to pay after the visit.                                           *)
(***************************************************************************)
EXTENDS LaunchPage

CONSTANTS
  None,                                                   \* no account, model, token or GLB
  Wallets, Tokens, AskingPrices, MaxPolls, MaxMoves,      \* the marketplace
  Cars, DefaultCar, NoCar, MaxLap, MaxBuilds,             \* the race track
  Models, Accounts, CreatorOf, MaxPurchases,              \* the page of a model
  Minters, MaxMints,                                      \* the create page
  Glbs, Parts, MaxViews, MaxViewers,                      \* the 3D viewers
  DesignBases, NoDesignBase, PartLabels, MaxVariants,     \* the variant editor
  Seeds, Schemes, VariantPrices, MaxEdits,
  MaxScenes, MaxUrls                                      \* the landing page

VARIABLES
  page,
  place, index, moves, account, fetches, listings, marketOwned, polls, tx, marketPhase,
  bought, readbacks, confirmed,
  override, carsOwned, chosen, trackPhase, builds, built, scene, error, lap, pb, best,
  lastResult, orbitDone, counted,
  charged, knownEnts, sent, objectId, model, loaded, address, ents, reading, view, fresh, flow,
  mintSession, glb, mode, generating, modelConfirmed, labels, form, caption, status, ask,
  nudge, mintStatus, mints, published,
  viewKind, viewUp, viewGlb, wanted, mounted, isDisposed, viewScene, scenes, viewLoads, token,
  shown, told, meshLoaded, failed, viewMode, solo, painted, material, snapshot,
  designPhase, designBase, rows, globalPrice, perVariant, locked, seed, scheme, selected, art,
  task, rolled, edits,
  liveKind, liveUp, isLive, inView, liveScene, liveScenes, loops, liveLoads, container, ready,
  decorated, source, urls, created, fetching, timer, dwellElapsed

marketVars == <<place, index, moves, account, fetches, listings, marketOwned, polls, tx,
                marketPhase, bought, readbacks, confirmed>>
trackVars == <<override, carsOwned, chosen, trackPhase, builds, built, scene, error, lap, pb,
               best, lastResult, orbitDone, counted>>
detailVars == <<charged, knownEnts, sent, objectId, model, loaded, address, ents, reading, view,
                fresh, flow>>
mintVars == <<mintSession, glb, mode, generating, modelConfirmed, labels, form, caption, status,
              ask, nudge, mintStatus, mints, published>>
viewVars == <<viewKind, viewUp, viewGlb, wanted, mounted, isDisposed, viewScene, scenes,
              viewLoads, token, shown, told, meshLoaded, failed, viewMode, solo, painted,
              material, snapshot>>
editVars == <<designPhase, designBase, rows, globalPrice, perVariant, locked, seed, scheme,
              selected, art, task, rolled, edits>>
liveVars == <<liveKind, liveUp, isLive, inView, liveScene, liveScenes, loops, liveLoads,
              container, ready, decorated, source, urls, created, fetching, timer, dwellElapsed>>

Market == INSTANCE MarketPage WITH
  Prices <- AskingPrices, owned <- marketOwned, phase <- marketPhase

Track == INSTANCE TrackPage WITH owned <- carsOwned, phase <- trackPhase

Detail == INSTANCE ModelDetailPage WITH index <- knownEnts

Mint == INSTANCE MintPage WITH
  Accounts <- Minters, MaxLoads <- MaxMints, session <- mintSession, confirmed <- modelConfirmed

Viewer == INSTANCE ViewerCanvas WITH
  MaxLoads <- MaxViews, MaxScenes <- MaxViewers,
  kind <- viewKind, up <- viewUp, glbUrl <- viewGlb, scene <- viewScene, loads <- viewLoads,
  mode <- viewMode

Design == INSTANCE VariantDesign WITH
  Bases <- DesignBases, NoBase <- NoDesignBase, Prices <- VariantPrices,
  phase <- designPhase, base <- designBase

Live == INSTANCE LiveScene WITH
  kind <- liveKind, up <- liveUp, scene <- liveScene, scenes <- liveScenes, loads <- liveLoads

ASSUME PagesAssumption ==
  /\ Market!MarketAssumption /\ Track!TrackAssumption /\ Detail!DetailAssumption
  /\ Mint!MintAssumption /\ Viewer!ViewerAssumption /\ Design!DesignAssumption
  /\ Live!LiveAssumption

PagesInit ==
  /\ page \in {"launch", "market", "track", "detail", "mint", "viewer", "design", "landing"}
  /\ Init /\ Market!Init /\ Track!Init /\ Detail!Init /\ Mint!Init
  /\ Viewer!Init /\ Design!Init /\ Live!Init
  /\ page # "viewer" => viewKind = "preview" /\ viewMode = "pbr"
  /\ page # "design" => scheme = CHOOSE s \in Schemes : TRUE
  /\ page # "landing" => liveKind = "hero"
  /\ page # "market" => \A t \in Tokens : place[t].owner = CHOOSE w \in Wallets : TRUE
  /\ page # "track" => ~override
  /\ page # "detail" => objectId = CHOOSE m \in Models : TRUE

(* A step of one page: what the other pages hold is not there. *)
PagesNext ==
  /\ UNCHANGED page
  /\ \/ page = "launch" /\ Next
        /\ UNCHANGED <<marketVars, trackVars, detailVars, mintVars, viewVars, editVars, liveVars>>
     \/ page = "market" /\ Market!Next
        /\ UNCHANGED <<vars, trackVars, detailVars, mintVars, viewVars, editVars, liveVars>>
     \/ page = "track" /\ Track!Next
        /\ UNCHANGED <<vars, marketVars, detailVars, mintVars, viewVars, editVars, liveVars>>
     \/ page = "detail" /\ Detail!Next
        /\ UNCHANGED <<vars, marketVars, trackVars, mintVars, viewVars, editVars, liveVars>>
     \/ page = "mint" /\ Mint!Next
        /\ UNCHANGED <<vars, marketVars, trackVars, detailVars, viewVars, editVars, liveVars>>
     \/ page = "viewer" /\ Viewer!Next
        /\ UNCHANGED <<vars, marketVars, trackVars, detailVars, mintVars, editVars, liveVars>>
     \/ page = "design" /\ Design!Next
        /\ UNCHANGED <<vars, marketVars, trackVars, detailVars, mintVars, viewVars, liveVars>>
     \/ page = "landing" /\ Live!Next
        /\ UNCHANGED <<vars, marketVars, trackVars, detailVars, mintVars, viewVars, editVars>>

pagesVars ==
  <<page, vars, marketVars, trackVars, detailVars, mintVars, viewVars, editVars, liveVars>>

PagesSpec == PagesInit /\ [][PagesNext]_pagesVars

-----------------------------------------------------------------------------
(* Every page's type invariant.                                            *)
PagesTypeOK ==
  /\ TypeOK /\ Market!TypeOK /\ Track!TypeOK /\ Detail!TypeOK /\ Mint!TypeOK
  /\ Viewer!TypeOK /\ Design!TypeOK /\ Live!TypeOK

(* The pages' properties, stated in their own modules.                     *)
NeverOlder == Market!NeverOlder
CurrentCardSells == Market!CurrentCardSells
FinishedLapIsALap == Track!FinishedLapIsALap
ViewIsPaidFor == Detail!ViewIsPaidFor
PaysAtMostOnce == Detail!PaysAtMostOnce

(* Every 3D scene shows what its page selected last, in the look it asked  *)
(* for, and runs only while it can be seen.                                *)
ScenesAreCurrent ==
  /\ Track!SceneIsSelected
  /\ Viewer!ViewIsCurrent /\ Viewer!LookIsCurrent
  /\ Live!ModelIsLive /\ Live!NothingIsWasted

(* What is minted is what the page shows: a model with its own words and a *)
(* whole form, a collection with the colors and prices of its rows.        *)
MintsAreWhole ==
  /\ Mint!MintsAreWhole /\ Mint!WordsAreForThisModel
  /\ Design!MintsWhatIsShown /\ Design!RowsAreWhole
=============================================================================
