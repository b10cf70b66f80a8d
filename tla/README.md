# A TLA+ verification project for Model3D

Model3D is a marketplace for generated 3D models on Sui. A creator pays for an AI generation, publishes the
mesh as a *base* (public, or encrypted under Seal), others buy access to it, fork it into NFT *collections*,
mint tokens, race them and plug them into games; agents do the same through an MCP endpoint. The repository has
a Move package (`contracts/model3d`), a Node backend (`backend`), a React frontend (`frontend`), shared code
(`shared`) and a small CDN worker (`cdn-worker`).

This directory holds TLA+ models of that code, the TLC configurations that check them, and TLAPS proofs. Names
in the modules are the source's names where TLA+ allows it.

1. Inventory  2. Modules  3. Runs  4. Findings  5. Proofs  6. Not modelled  7. Plan

## 1. Inventory

Each component with its state, its operations, what is hard about it and what makes it correct. The module that
models it is named in brackets.

### 1.1 The package (`model3d.move`)

**Bases** [`Model3D`]. State: shared `Model3D` objects (creator, visibility, license, fees, `buyers` table,
`seal_id`, `version`), soulbound `AccessEntitlement` objects, the registry of used seal_ids, VERSION, balances.
Operations: `publish`, `publish_encrypted`, `purchase_access`, the two Seal gates, a package upgrade. Hard: a
key server releases a key for an identity when a gate accepts it, and the gate compares *prefixes*
(`is_prefix`, model3d.move:1383); isolation rests on checks spread over the publish entry, the purchase and the
gate, and the charge, the buyer table and the entitlement must agree whatever the order of calls. Correct when
a key for a base reaches only its creator and those charged for that base, and whoever was charged can decrypt.

**Collections, tokens, integrations** [`NftCollection`, `LicensePromise`]. State: `NftCollection` (base, terms,
quilt, register fee, royalty), `CollectionCap`, `NftToken`, `IntegrationRecord`. Operations: four launch entries
(public or encrypted base, with or without tokens), two mints, `set_integration_terms`, `register_integration`,
transfers. Hard: four entries share one core and each carries its own license check; caps are bearer objects; a
fee may change between an integrator's look and its transaction. Correct when no fork escapes its base's
license, only a cap holder mints, a quilt once set stays, and every coin is accounted for.

**Kiosk and transfer policy.** Calls to the Sui framework; the royalty arithmetic is in `MarketPage`.

### 1.2 Paid generation [`PaidGeneration`, `TripoChain`, `BalanceCache`]

State: the page's step and digest, wallet transactions and what the RPC node has indexed, requests in flight,
the durable set of spent digests, the bounded in-memory job store with its TTL, the Tripo tasks, one cached
operator balance with a time. Operations: preflight, pay, wait, dispatch, verify, mark spent, create job, submit
and poll the two tasks, download, finish, poll, sweep, evict, restart. Hard: a check, an `await` and a commit;
two stores of different durability; two clocks; two writers of one balance; a budget of polls that counts waits
only. Correct when one payment funds one generation, the store never sweeps what a page still polls, the page
always stops, a generation settles within its bound and a verdict on the balance is recent.

### 1.3 Sign-in, session, Seal keys, reads of encrypted bases [`SignIn`, `DecryptRead`]

State: single-use nonces, the session and its `localStorage` copy, the connected account, flows that wait for a
signature, cached Seal session keys; the timers of one decryption. Hard: the account, the session or the backend
changes while a flow waits; a stall timer, a hard cap, retries, key-server timeouts and the worker's failover
run together. Correct when a session belongs to the connected account, a challenge buys one token, a key does
not outlive its session, a dead read is given up within its budget and a live one is not killed.

### 1.4 Create page: generate, describe, publish [`MintPage`, `WalrusUpload`, `PromptMemory`]

State: the loaded mesh and its source, tags, caption, license form, the mints under way, the upload's batches
and breadcrumbs. Hard: everything but the button stays editable while a mint or a caption is under way; two
wallet payments with a network upload in between; the tab may die. Correct when what is minted carries its own
words and a whole form, a failure after the first payment does not repeat it, and the panel tells the truth.

### 1.5 Launch page: fork, design, bake, mint [`LaunchPage`, `VariantDesign`, `VariantBuild`]

State: the picked base and its bytes, unlocks, rows of variants with locks, prices and palettes, baked meshes,
the running handlers, those of visits that were left among them. Hard: answers after another pick; a handler whose
page is gone; a launch that is two wallet transactions; rows addressed
by index from five places; two libraries that order the same materials differently. Correct when what is minted
was designed as shown and baked from the base it is launched under, and nothing is paid twice.

### 1.6 Model, market and track pages [`ModelDetailPage`, `MarketPage`, `TrackPage`]

State: purchase and viewing of one model; listings and owned tokens as last read, with reload chains; the car,
its scene and lap, best times. Hard: an index behind the chain, ten reloads after each transaction, account and
route changes under an await, an engine built behind two awaits. Correct when nobody pays twice or sees what
they did not pay for, cards never go back in time, the royalty is exact, a finished lap was driven.

### 1.7 Browse, collection and integration pages [`Catalog`, `CollectionPages`, `Integrate`]

State: the cached index, tag filter, the two lanes of the search, collections and their integrations as read,
the form with its fee. Hard: reads that overtake each other, a cache, two rankings, a fee that moves. Correct
when a list is what was asked last, hides and invents nothing, and a registration is the one confirmed.

### 1.8 3D viewers and landing hero [`ViewerCanvas`, `LiveScene`]

State: engine, scene, the load under way, the modes' baseline, blob URLs, render loops. Hard: React effects that
tear down while a load awaits. Correct when a scene shows what was selected last, in the look asked for, and
nothing runs unseen.

### 1.9 Copilot, captioner and their budget [`Copilot`, `GeminiQuota`]

State: daily usage per user and in total, cooldowns, the conversation. Hard: check, call, record, with calls of
others between; a model call that outlives its timeout; a page that discards a conversation whose answer is on
the way. Correct when the budget is overshot by the calls under way and no more, and reopens; a reply stands
where it belongs; no conversation crosses accounts; the page never thinks for ever.

### 1.10 Prompt memory [`MemoryRecall`, `PromptMemory`]

State: the recall hook's query, timer and chips; the relayer's namespaces. Operations: remember, verified
mirror into the community's pool, recall, an agent's search. Hard: a debounce timer and account changes; writes
that are not waited for; a text format with a trailer; a verdict read from the chain after the claim. Correct
when chips are the account's own, the pool holds what is published by its author, and a chip names its model.

### 1.11 Integration indexer, MCP endpoint [`IntegrationIndexer`, `RateLimiter`, `AgentArc`, `AgentDiscovery`]

State: cursor and records in memory; two tables of windows; an agent's offers, material and files. Hard: partial
pages, restarts, a full table, a lagging replica, a helper that dies between write and rename. Correct when each
registration is served once, the rate holds at the ceiling, an agent never pays for what it holds and a file with the
final name is whole.

### 1.12 How they interact

```
 wallet ──tx──> Model3D package <── dry run of a gate ── Seal key servers
   │  ^           │        │ objects, events                  ^
   │  └─ sign ─┐  │events  └──> GraphQL index ──> pages, MCP  │ SessionKey
   │           │  v                                           │
   │      frontend: create, launch, model, market, track, browse ──> CDN worker ──> Walrus
   │           │ HTTP: challenge/verify, preflight, generate, poll, copilot, caption, memory, bake
   v           v
  RPC node <── backend: verifier, jobs, quotas, indexer, memory, MCP ──> Tripo, Gemini, relayer
                                 ^ MCP
                               agents (agentDecrypt)
```

Calls are HTTP requests and wallet transactions; the shared state is on chain; the callbacks are `await`s in
pages, routes and background loops, and React effects.

## 2. Modules

| module | models | state | actions |
|---|---|---|---|
| `Model3D` | bases | `model`, `buyers`, `used`, `entitlements`, `balance`, `version` | `publish`, `publish_encrypted`, `purchase_access`, `UpgradePackage`; the gates are predicates |
| `LicensePromise` | what a license promises, abstractly | `terms`, `licensed`, `readers`, `forkers` | `Publish`, `Grant`, `Fork`, `Retire` |
| `NftCollection` | the whole package: extends `Model3D` | `collection`, `caps`, `token`, `integrations` | launch entries, mints, cap-gated setters, `register_integration`, `TransferToken` |
| `PaidGeneration` | create page, dispatch route, verifier, job store | `page`, `session`, `tx`, `indexed`, `requests`, `spent`, `jobs`, `running` | page steps, server steps, environment |
| `TripoChain` | the work of one generation | `at`, `elapsed`, `attempt`, `total`, `remote`, `created`, `outcome` | `Submit`, `TaskEnds`, `PollAnswered`, `PollFails`, `Download` |
| `BalanceCache` | preflight and poller | `credit`, `row`, `poll`, `live`, `asks`, clocks | poll and live query in three steps each, `AskWarm`, `AskLive`, `Restart`, `Tick` |
| `SignIn` | challenges, session of a tab, Seal keys | `account`, `session`, `stored`, `sign_ins`, `decrypts`, `cached`, `nonces` | backend, sign-in, tab and key steps |
| `DecryptRead` | one decryption of a base | `phase`, `tries`, the timers, `body`, `left`, the aggregators | `Tick`, key servers, fetch, pieces, failures |
| `MintPage` | create page from mesh to publish | `glb`, `mode`, `form`, `caption`, `ask`, `nudge`, `mints`, `published` | clicks, captioner steps, `MintStep` |
| `WalrusUpload` | upload hook, breadcrumbs, progress panel | the hook's five states, `run`, `landed`, `returned`, `trail`, `stored`, `behind` | the steps of `uploadFiles` and `uploadBlob`, `Leave`, `PageDies`, `surfaceStaleTrail` |
| `LaunchPage` | launch page, its upload, fork transactions | `session`, `owned`, `phase`, `base`, `baseGlb`, `unlocked`, `variantGlbs`, `flows`, `collections` | clicks, one step per `await` of each handler, sign-out, change of route, reload |
| `VariantDesign` | the variant editor, locks, random palettes | `rows`, `globalPrice`, `perVariant`, `locked`, `seed`, `scheme`, `art`, `task` | every control of the editor, bake, upload, pick |
| `VariantBuild` | the bake: page, route, colour swap | `base`, `token`, `caps`, `request`, `answer`, `glbs` | `runBuildVariants`, `Post`, `OtherPosts`, gates, `Bake`, `Receive` |
| `ModelDetailPage` | buy access, decrypt, view | `charged`, `index`, `model`, `ents`, `view`, `fresh`, `flow` | reads, `onBuyAccess`, `onView`, their steps |
| `MarketPage` | market page, reads, kiosk transactions | `place`, `index`, `fetches`, `listings`, `owned`, `polls`, `tx`, `confirmed` | reads, clicks, reload chain, read-back |
| `TrackPage` | garage, scene, lap, best times | `owned`, `chosen`, `builds`, `scene`, `lap`, `pb`, `best` | clicks, scene builds, lap events, countdown |
| `Catalog` | browse page | `cache`, `allModels`, `requests`, `tagFilter`, `lanes` | index reads, filter, search lanes |
| `CollectionPages` | collection page, "Used by", open collections | three reads, each with runs under way | navigation, answers, failures |
| `Integrate` | leaderboard and registration | `fee`, `offered`, `board`, `counts`, `scan`, `selected`, `form`, `task` | loads, picks, `Register`, `LiveRead`, `Sign` |
| `ViewerCanvas` | preview and tagging viewer | scene, `loads`, `shown`, `mode`, `material`, `snapshot` | `SetGlb`, `Loaded`, `dispose`, `remount`, `Commit`, `Restyle` |
| `LiveScene` | hero and wells of the landing page | `scene`, `loops`, `loads`, `container`, `source`, `urls` | going live or static, scroll, loads, unmount |
| `Copilot` | the copilot's hook and route | `account`, `messages`, `status`, `inFlight`, `finished`, `lastArgs`, `calls` | the hook's functions and effects, `Answer`, `Lose` |
| `GeminiQuota` | the budget behind copilot or captioner | `turns`, `cooldown`, `count`, `attempts` | `Admit`, three ends of a call, cooldown, midnight, restart |
| `MemoryRecall` | one scope of the recall hook | `token`, `query`, `timer`, `calls`, `chips`, `status` | `runRecall`, `Fire`, `Answer`, token changes |
| `PromptMemory` | memory routes, record format, readers | `chain`, `session`, `publish`, `requests`, `writes`, `records`, `said` | publish, `rememberCreation`, `remember`, `Mirror`, `Land` |
| `IntegrationIndexer` | the poll loop over events | `log`, `store`, `cursor`, `page`, `skipped` | `Fetch`, `Ingest`, `IngestBlank`, `PollThrows`, `Restart` |
| `RateLimiter` | the MCP endpoint's two window tables | `hits`, `admitted`, `evicted`, `clock` | `Refused`, `Anonymous`, `ToolCall`, `Sweep` |
| `AgentArc` | an agent buys, downloads, decrypts | `ents`, `replica`, `offers`, `material`, `run`, `temp`, `file` | the two tools, the helper's steps, `Crash` |
| `AgentDiscovery` | an agent's reads of models and forks | `launched`, `indexed`, `counts`, `call`, `answer` | `Call`, `ObjectRead`, `QueryAnswers`, `QueryFails`, `NameReads` |
| `Pages`, `Sessions`, `Services`, `Storefront` | compositions of the above, see 2.6 | theirs, and `part` | theirs, one component a behaviour |
| `MCNftCollection`, `MCPages`, `MCSessions`, `MCServices`, `MCCatalog` | values for TLC | | |
| `Model3DProofs`, `NftCollectionProofs`, `PaidGenerationProofs`, `LaunchPageProofs`, `PagesProofs`, `SessionsProofs`, `ServicesProofs`, `StorefrontProofs` | theorems, see 5 | | |

### 2.1 Conventions

*Steps.* A handler is cut where it awaits: what lies between two awaits is one action, with every call it makes
(React's state updates and, where the code relies on it, the effects of a commit). A Move transaction is atomic
and an abort is no step. An answer is computed when a server serves the request and arrives in another step, in
any order.

*External parts.* Wallets, the chain, its indexes, Walrus, Tripo, Gemini, Seal's key servers and the memory
relayer answer, fail, delay or repeat as they like; the map marks those definitions external.

*History variables* (`funded`, `answers`, `generated`, `said`, `registered`, `landed`, `lastChoice`, ...) guard nothing;
they let a property compare what is with what was.

### 2.2 Package

Money is modelled with the coin the caller offers: `Settle` takes the whole coin, pays the fee out of it and
returns the rest, as the `split` and `transfer` calls do. A seal_id is a short sequence of numbers, so the gate's
`is_prefix` runs on real sequences; `SealIds` holds legal and illegal ones (empty, short, long, a prefix of
another), rejected where the code rejects them. `KeyReleased(id, a)` says that *some* call of *some* gate with
objects that exist does not abort, which is what a caller free in its arguments obtains. `UpgradePackage` bumps
VERSION; bases stamped with an older one fail the gates from then on.

`LicensePromise` knows no objects, coins, registries or gates. `NftCollection!Promise` maps `terms` from the
policy byte, `licensed` from creator and entitlements, `readers` from what the gates release for *every* identity
a client may have chosen, `forkers` from the launched collections. `ImplementsLicensePromise` says that each transaction is a
publish, a grant, a licensed fork, a retirement or nothing.

### 2.3 Generation, sign-in, decryption

`PaidGeneration` splits page and route as they suspend: `BeginVerify` up to the RPC lookup, `FinishVerify` with
mark, job and 202, between which no other request can slip. `Restart` empties what is in memory; `spent` is in
SQLite. A tick is longer than the proxy's request timeout; ages saturate one past their limit; a poll and its
answer are one step. `TripoChain` counts `elapsed` as the code does (the waits only) and `total` as a clock does.
`BalanceCache` keeps for each value of the credit the last time it held, which is what "recent" refers to.

In `SignIn` the address a sign-in captures is kept to its end while the wallet signs with the account it has
*then*; the effect that compares session and account is a step of its own. `Owners` are the session a Seal key
was begun under. One tab is modelled. `DecryptRead` has one clock and due timers, and time does not pass a due timer; a body may
be whole, in pieces, stuck after one, or trickle.

### 2.4 Pages

`LaunchPage`: a handler that awaits is a record in `flows`, with the base and mesh its closure had; a mesh is
named by the base it came from. A reload of the tab ends all handlers; a change of route (`Leave`) only unmounts the page:
its handlers stay in `flows`, numbered by the visit (`left`), and run on to their popups and transactions, where
they change the chain and on a 401 the session, but no longer the page (`Shows`). The page that comes back has state and a
`launchingRef` of its own, so it may start another. Leaving and coming back are one step, as nothing of the page
exists in between. `VariantDesign` has the editor that page embeds, with palettes as hues in half
degrees; `VariantBuild` the bake it posts, where base materials and parts are sequences that tagging related.
`MintPage` names a mesh by the load that brought it. In `MarketPage` a kiosk is named by its owner and
an index is a copy of the chain at some move. In `ModelDetailPage` every model is encrypted and for sale.
`TrackPage` lets the scene own the lap and React the last snapshot of it. `ViewerCanvas` and `LiveScene` name a
scene by its number; React runs all cleanups of a commit, then all bodies.

`WalrusUpload` has the breadcrumbs because they are what a user sees after a crash: the module-wide trail, its
`sessionStorage` copy, the capacity, and uploads a change of route left running. Identifiers are padded digits so that
their *lexical* order is what the code sorts by.

### 2.5 Memory and agents

A prompt in `PromptMemory` is a sequence of symbols with the codec's two special ones, so `escape`, `unescape`
and the trailer are computed. The readers have no state: `recall` and `search_models` are the sets of
answers possible now, for the relayer ranks by likeness and may return any records in any order. The rate limit of
that route is a refusal at any time.

`AgentDiscovery` orders forks by count and id with the code's comparison, over any page the index may answer,
nodes repeated. Reads of one model share one action: the three tools differ in the fields they return.

### 2.6 Composition

`NftCollection` extends `Model3D` and is one system. The components of `Pages`, `Sessions`, `Services` and
`Storefront` share no state: the router mounts one page at a time and a page's state goes with it
(what runs on after a visit to the launch page is part of `LaunchPage`); the services are
separate loops over separate stores; what follows the account reads the same token, which each component changes
for itself. So a behaviour picks one component and steps it, and the state space is the sum, not the product.
Each component's assumptions on its constants are operators (`BalanceAssumption`, ...); the composition assumes their
conjunction (`PagesAssumption`, `SessionsAssumption`, `ServicesAssumption`, `StorefrontAssumption`), which TLC evaluates on
the run's values and the proofs use. The MC modules hold those values and nothing else.
What couples components is in the environment of each: `MintPage` lets a paid generation land at any time,
`LaunchPage` a session end, `Copilot` any quota reply, `AgentArc` a lagging replica, `PromptMemory` any publish.

A property of such a run joins the same claim about several components, whose parts keep their names in the modules:

| in the run | parts |
|---|---|
| `ScenesAreCurrent` | `Track!SceneIsSelected`, `Viewer!ViewIsCurrent`, `Viewer!LookIsCurrent`, `Live!ModelIsLive`, `Live!NothingIsWasted` |
| `MintsAreWhole` | `Mint!MintsAreWhole`, `Mint!WordsAreForThisModel`, `Design!MintsWhatIsShown`, `Design!RowsAreWhole` |
| `LateAnswersDropped` | `RepliesBelong`, `Memory!ChipsAreOwn` |
| `SessionIsEarned` | `Auth!SessionFollowsAccount`, `Auth!OneTokenPerChallenge` |
| `MemoryIsHonest` | `Pool!PoolIsPublished`, `Pool!ChipsAreHonest` |
| `ReadIsTimed` | `Read!WedgedReadInBudget`, `Read!LiveReadIsNotKilled` |
| `WaitingEnds` | `ThinkingEnds`, `Memory!LoadingEnds`, `Read!DecryptEnds` |
| `AnswersInTime` | `Chain!SettlesInTime`, `Balance!VerdictIsRecent` |
| `RateHolds` | `Limiter!RateBounded`, `Limiter!OnlyTheStalestEvicted` |
| `ServesTheChain` | `Indexer!ServesTheChain`, `Discovery!ForksAreListed` |
| `ServicesAnswer` | `BudgetReopens`, `Indexer!RegistrationServed`, `Balance!WaitersAreServed`, `Chain!ChainEnds` |
| `NewestReadWins` | `Browse!NewestIndexWins`, `Reads!ReadsAreOwn` |
| `ListsAreHonest` | `Browse!GridIsHonest`, `Integration!BoardIsWhole`, `Upload!UploadsInOrder` |
| `RegistersAsClicked` | `Integration!RegistersAsClicked`, `FeeFailsOnlyIfMoved`, `SelectedIsLastChoice` |
| `ArtArrives` | `Bake!BakedAsDesigned`, `Bake!PaintsWhatIsNamed`, `Upload!PanelIsHonest`, `Upload!DeathIsTold` |

## 3. Runs

`tlc -workers 2 -config X.cfg M` for each; every one ends within five minutes.

| run | question | bounds |
|---|---|---|
| `package` | types, `DecryptIsolation`, `EntitledCanDecrypt`, `LicenseRespected`, `LedgerSettled` and the refinement of `LicensePromise`, under every order of publishes, purchases, an upgrade and a fork | 3 wallets, 2 bases, 2 legal and 3 illegal seal_ids, 1 collection, 1 upgrade, access fee 1, derive fees 0 and 1, 2 coins a wallet |
| `market` | from art to lists: `ArtArrives`, `QuiltWriteOnce`, `NewestReadWins`, `ListsAreHonest`, `RegistersAsClicked` | chain: 2 wallets, 1 base, 2 collections, 1 token; browse: 4 models, 3 answers of a search, 2 index reads and 2 recalls; 3 collections and 2 reads under way; integration: 2 collections, fees 1 and 2, 1 change, 1 click; upload: 5 files in one quilt and 3 in two, 2 relay attempts, a trail of 3; bake: 9 bases, 2 variants, 6 requests of other clients |
| `paid_generation` | `OneDigestOneJob`, `SweepSparesPolling` | 2 users, 2 digests, 2 jobs, room for 1, 2 requests at a time |
| `page_settles` | liveness of the page | 1 user, 2 digests, 2 jobs, all faults but resubmission |
| `pages` | eleven properties of eight pages (`MCPages`) | launch: 1 public and 1 encrypted base (bought), 2 relay attempts, 2 launches, 1 handler left behind at a time; market: 2 wallets, 1 token, 2 moves; track: 1 car and the default, laps of 2, 3 builds; model: 2 models, 3 accounts, 2 purchases; mint: 2 loads; viewer: 2 GLBs, 2 loads, 2 scenes; design: a base without labels and one with a shared label, 3 rows, 4 edits, 2 schemes; landing: 3 scenes, 2 blob URLs |
| `sessions` | seven properties of what follows the account (`MCSessions`) | copilot: 2 accounts, 2 turns, 6 messages, 2 calls; sign-in: 2 accounts, 2 nonces, room for 1, 2 flows; recall: 2 queries, 3 tokens, 2 calls; decryption: units of 3 s, the code's timers, 2 pieces; pool: 2 users of whom one is denylisted, 1 model, 2 prompts (one with the codec's symbols), 2 foreign records, 2 requests |
| `services` | seven properties of services and agents (`MCServices`) | quota: 3 addresses, 3 calls, budget 4, cap 2; indexer: 2 collections, 2 integrators, pages of 3, one throw, one blank read, one crash; balance: poll 1, stale 2, timeout 1, time 4; limiter: room for 2, rates 2 and 1, 5 calls; Tripo: delays 1, 2, 3, budgets 7 and 10, requests up to 2; agents: 2, 3 models, 2 entitlements, 1 crash; discovery: 3 forks of 2 models, a page of 2 |
| `seal_key` | *violated*: a Seal key ends with its session | 2 accounts, 1 flow |
| `stale_mesh` | *violated*: the art is baked from the mesh of the base forked | 1 public, 1 encrypted base |
| `charged_twice` | *violated*: an encrypted fork is charged once | 1 encrypted base, 2 launches |
| `stale_caption` | *violated*: a minted description is of the mesh it is minted with | 1 account, 2 loads |
| `best_is_its_own` | *violated*: a stored best time was driven by that car | 1 car and the default |

Deadlock is not checked where bounded counters make a model stop: the composed runs and the contract. It is checked in the
runs of `PaidGeneration`, `SignIn` and `LaunchPage`, whose pages always have a step.

**Why these bounds are enough.** Isolation is about two bases and a third wallet: an identity of one, an entitlement of
the other; the second base may ask for the first one's seal_id and the illegal ones include a strict prefix of
both legal ones. Fee 0, a coin equal to the fee and one above it occur. Two collections let a cap be
shown to the wrong one. One digest paying twice needs two requests, two jobs, two users and a restart; room for
one job makes the second an eviction. The real TTL (15 min) exceeds the real polling budget (8 min): the model
assumes `PollBudget <= Ttl` and takes equality. Overtaking needs two answers under way, hence two calls, reads, loads, tickets or
flows everywhere; a stale cancel needs a third scene. The budget is overshot by turns admitted together: three slots, with the
budget above the cap of one address and below that of all, so both bind. A full table with room for two needs three
addresses, and five calls fill it and come back to the one evicted. Pages of three and of two are shorter than what there is to read.
Two quilts make an off-by-one in the batch visible, a trail of three overflows in every upload, and two binary digits
have a carry. The nine bases are the ways in which names may be unique, shared, missing or untagged and orders agree or not.
A public mesh can leak into an encrypted base's collection, through the page or between two handlers; a wallet's own base
takes the same steps through another gate, and the theorems are for any bases. With one relay retry a second payment would
show; one handler left behind and one of the page are two under way, each with a collection to launch.
A prompt with ESC and RS in it is what a codec mixes up. Two rows are lost or shared by a lock, a third is added after.

Symmetry is used in the contract's models without liveness: wallets, objects and tokens are interchangeable.

### 3.1 Fairness

`page_settles`: weak fairness of `Tick` (time passes), `PollTimeout` (the loop in `api.ts` looks at its deadline each
round) and `ProxyTimeout`. Nothing is assumed of the user, the RPC node, Tripo or the backend.

`sessions`: React runs a pending effect, a timer fires and a fetch ends, with an answer or an error. `LoadingEnds` is
claimed for users who stop typing at some point: one who retypes for ever makes every answer stale. A decryption ends
because its own timers fire; the network may do nothing for ever.

`services`: a cooldown ends and the UTC day turns; the indexer's interval fires and its node, asked again and again, answers
from its newest state at times (strong fairness of `Fetch(Len(log))`, weak of `Ingest`), with a bounded number of
throws; a query of the balance is answered or aborted; a request of the Tripo chain is answered or times out. Model calls may
run for ever, tasks at Tripo never end.

## 4. Findings

Five runs show a statement of the repository that the code does not keep; PROJECT.json quotes each line.

* `seal_key`: a decrypt that waits for its signature while the session ends caches a Seal key after `clearSession`.
* `stale_mesh`: when the download of a newly picked public base fails, the page keeps the previous base's mesh, and LAUNCH
  accepts the pair.
* `charged_twice`: MINT of an encrypted fork is two transactions; repeating it after the second failed pays the fee again.
* `stale_caption`: a generation that lands while frames are captured leaves a caption of the previous mesh on the next mint.
* `best_is_its_own`: a lap driven with one car while another is being loaded is stored as the other's best.

Also met while modelling; each is a behaviour of the module named, left without a run of its own.

*Package, generation.* A token minted before the quilt is set (`mint_nft_token` on an empty quilt, model3d.move:1229) and
then sold gets its art later (`NftCollection`). `purchase_access` still sells access to a base of an older VERSION, which
no gate opens (model3d.move:930, `Model3D`). `take` deletes the result before the response arrives (generate-jobs.ts:89), and a page whose
`waitForTransaction` times out (CreateModelPage.tsx:908) never dispatches what was paid: the generation is lost
(`PaidGeneration`). `maxWaitMs` of the Tripo client "bounds the whole loop", but request latencies come on top
(`TripoChain`).

*Copilot.* Turns refused for quota leave their message behind; beyond the route's limit (copilot.ts:76) every retry is
refused with 400 although the page offers it. A timeout is answered as quota exhausted whenever another call has set a
cooldown (geminiQuotaGate.ts:67).

*Create page.* CreateModelPage.tsx:845-848 leaves a stale Minted for a new mesh. Stills of an ALLOW_LIST mint are captured
from the live scene, which may show a mesh loaded meanwhile; `sourceMode` may differ from how the mesh was made; a prompt
edited after generating is published (`MintPage`).

*Launch page.* `launchingRef` guards one mount only: after a change of route the handler left behind goes on to its payments,
and the page that comes back lets a second one run beside it (LaunchCollectionPage.tsx:891-899 speaks of concurrent
launches for clicks alone; 903-904 calls the charge of a mint idempotent by that ref). `OneFlowAtATime` is therefore
stated per visit. Phantom locks: the editor's "−" truncates rows and neither drops nor respects locks, past the gate
described at LaunchCollectionPage.tsx:1365, and a row added later is born locked. `collectionName` keeps the first
picked base's name after CHANGE (653-741). The column hover's SOLO sticks when the page becomes busy (545).
`onPartClick` during a download may select a part the new base lacks. `txDigest` (520) is never reset, so in a second launch the panel's launch row
reads ✓ with the previous digest before it is signed; after a failed launch transaction that row stays active (`VariantDesign`, `WalrusUpload`).

*Bake and upload.* `paramsJson` of 1024 bytes rejects palettes of bases with more than about 45 labels although 64
parts are allowed. The positional fallback of the swap may miscolour a base whose orders differ and whose names do
not tell parts apart; `BakedAsDesigned` says when it cannot. `encryptedBase` is never sent by the page. After an
error in the bake of a retry the panel shows the previous upload's rows. The trail's "hydrate so the
first writeDiag of a recovered session appends" is moot, since `surfaceStaleTrail` clears first; uploads left running by a
change of route share one trail. A register or certify whose answer is lost shows ✗ for a transaction that landed.

*Viewers, landing, track.* The preview keeps the old mesh after the load of a new GLB fails or `glbUrl` becomes null;
the tagging overlay sticks after a failed load (`ViewerCanvas`). The hero registers two loop functions when it goes
live in view, and on re-entry tries a revoked blob URL once before it fetches again (`LiveScene`). `orbitDone`, "Reset
on each scene rebuild", is not (`TrackPage`).

*Market, model page.* The double-list filter of MarketPage.tsx:342-343 does not hold for tokens listed meanwhile;
`confirmedToken` survives an account switch; after a failed read the old account's tokens stay. The claim
"the entitlement IS held" after a failed decryption (ModelDetailPage.tsx:423) is not always true; a throw after an executed
purchase shows purchase-failed with no reload; `freshEntitlementRef` survives route and account changes, harmlessly as
`ViewIsPaidFor` shows.

*Browse, integration.* Tag chips shrink to the tags of the filtered set. The collection page says "not found" for any read
error. The form's header promises that abort codes are never shown raw, but ESelfRegistrationNotAllowed is not in
`abortMessages.ts`; the button quotes the fee of the page load while the fee read again is paid; "Register your work" stays
enabled while signing, so the success banner may stand under another selection; a row whose collection the
form's own read lacks does nothing when clicked (`Integrate`).

*Indexer, reads.* A record without bytes, read again after a throw, is appended late (`IntegrationIndexer`).
`fetchWithTimeout` does not classify an abort during `arrayBuffer()`; a trickling read may exceed the 75 s
budget without being wedged (`DecryptRead`).

*Memory, agents.* `rememberCreation` reads its token when the publish has been read back, so after an account switch in that
wait the prompt of one account's publish is stored in the other's namespace. `memoryWrites`' "shared by the live
/remember route" is not so: only the seeding scripts use it. At the ceiling of its table the memory route's limiter
evicts the first key of the `Map`, which a renewed key still is, so a live window may go while expired ones stay; it evicts even when it only
renews. The recall route, unlike `search_models`, shows records whose `m` is no object id (`PromptMemory`).
`list_fork_collections` and `useCollections` read one page of the index, so forks beyond it are missing without a
sign (`AgentDiscovery`: the claim is made while the index fits a page). mcp/server.ts:113 says that every tool
requires a bearer first; since D-111 the discovery tools accept none.

## 5. Proofs

Proved with TLAPS for every value of the constants, under the modules' named assumptions.

* **`Model3DProofs`**. `DecryptIsolation` is not inductive: it says nothing about ids that are not yet used. The
  invariant `ModelInv` adds that encrypted bases have seal_ids of the one legal length (`SealFieldsInv`),
  pairwise different and all in the registry (`UniqueSealIds`), and that receipts and buyer tables agree
  (`ReceiptsMatchBuyers`). The core is `PrefixBinds`: two sequences of one length that are both prefixes of
  one identity are equal. So a gate that lets an identity of `m` through was called with `m`
  (`GateBindsModel`), and the entitlement names a buyer of `m`. `EntitledCanDecrypt` uses the same invariant
  the other way round. Assumptions: `SealAssumption`, `FeeAssumption`, `NoModelAssumption`. Its last part is a small theory of
  sums over finite sets (`SumSplits`, `SumGrows`, `SumChanges`), proved from the definition of `SumFunction` by counting up the
  cardinality.
* **`NftCollectionProofs`**. `Inv` adds that a cap belongs to its collection's creator and that a collection
  records its base's creator. `ForksAreLicensed` holds at a launch by the entry's check and stays because
  licenses are frozen and buyer tables only grow (`ModelStepGrows`). `PackageDecryptIsolation` carries the L1
  result over to the package. `QuiltNeverReplaced` and `OnlyCreatorsMint` are action properties from the same
  invariant.
* **`PackageImplementsPromise`** (in `NftCollectionProofs`): the package implements `LicensePromise`. `PromiseInv` adds to `Inv`
  that stamps are of the past (`StampsArePast`: no base carries a version that was not published yet); with it every step of
  the package, mapped, is a step of the promise or a stutter, entry by entry.
* **`LedgerIsSettled`** (in `NftCollectionProofs`): a wallet's balance is explained by the objects on chain. `LedgerInv` adds to `Inv`
  that the sums range over finite sets and that nothing was sold or registered under an unused id (`FiniteLedger`). Each
  transaction that pays changes two of the six sums of a wallet by the fee it settles, and the others not at all
  (`PurchaseSums`, `LaunchSums`, `RegisterSums`, against `SettleMoves`); a publish and the calls of a creator change none. A
  purchase counts because the buyer was not in the table, a registration because the integrator had no record; a fee that
  is changed later is no part of a sum.
* **`PaidGenerationProofs`**. `OneDigestOneJob` is proved with `PaymentInv`: types, and `FundedAreSpent` (every
  funded digest is spent). Between the first check and `MarkSpent` anything may happen; only the `INSERT OR
  IGNORE` decides. No assumption on store, clock or faults is needed.
  `SweepSparesPolling` needs `PollInv`, which says that what a page polls for, and what the store
  holds, are jobs that were funded, so that the next job is new to both, and that a record is no older than the part of the
  budget used up by the page that polls for it (`PolledSinceCreated`). With `PollBudget <= Ttl` (`BudgetAssumption`) the
  record is fresh as long as budget is left. That the store's deletions keep what they should is `KeepingKeeps`.
* **`LaunchPageProofs`**. `EncryptedForkIsOwnMesh` needs to know why an encrypted base never meets another mesh:
  `PageMesh` says that while the picked base is encrypted the page holds its mesh or none (`onPickBase` clears it at
  once), and `FlowsSound` that handlers carry what the page showed when they began, also when their page is gone: what they go by is their closure and
  their own collection, which the chain keeps (`ChainKept`). `OneFlowAtATime` keeps the page from moving on below a handler of its visit, and a handler left behind
  from moving the page; `MaxLeft`, the number of those, is any. The same invariant gives `StoragePaidOnce` (a run past its registration
  has one) and `SuccessOnChain` (the success screen names a minted collection).
* **`PagesProofs`**. `PageSteps`: a step of the composition is a step or a stutter of each page, so each page has an invariant
  of its own, kept by the others. `ViewsArePaidFor`, `NobodyPaysTwice` from `DetailInv`: what the page takes for an
  entitlement, in `ents`, in `fresh` or with a decryption under way, names a pair of model and account that was charged
  (`EntitlementsArePaid`). `ReadsNeverRegress`, `CurrentCardsSell` from `MarketInv`: at most one read of a kind is under
  way, and its answer is no older than what is shown (`AnswersAreNewer`); and the royalty the page adds is the rule's. `LapsAreDriven` from `TrackInv`: a lap
  that has its checkpoint went through it after its throttle (`LapIsDriven`) and only the build of the selected car may mount (`BuildIsSelected`).
  `ScenesStayCurrent` from `TrackInv`, `ViewInv` (loads that were not cancelled are of the current scene, the baseline of a
  look is the authored one) and `LiveInv` (only a live scene works). `MintsStayWhole` from `MintInv`: a mint has the
  labels of its own mesh and a whole form (`WholeMints`); and from `DesignInv`: every row has a color for each label of the picked
  base (`EditorInv`; `UniqueLabels`: `deriveUniqueLabels` keeps exactly the labels of the parts), a task that bakes holds the rows on
  the page, since nothing is edited while it runs (`TaskInv`), and the minus of the random controls leaves a row since only rows that
  may exist are locked (`LocksInv`). The variants of one roll differ in the hue of some label: N turns `(v - 1) * 720 \div N` are
  distinct below a full circle (`TurnsDiffer`, for at most 720 variants; the code allows 16).
  `PagesStayTyped` from `PagesInv`, all of these with the bounds they leave open: a reset of the captioner keeps the mesh an ask is
  of (`AskBounds`), a flow of the launch page names a collection that is on chain (`LaunchBounds`), a cancelled build keeps its
  number (`TrackBounds`), a scene is built at a place the bound leaves free (`ViewBounds`, `LiveBounds`), and a bake makes of a
  palette's colors those or the gray of a part without an entry (`PartColors`).
* **`SessionsProofs`**. `ConversationIsOwn` is not inductive because `lastArgs` survives an account change. `IInv` says that
  what `retry` would send is the account's own whenever it is offered (`RetryIsOwn`): it is offered after an error only,
  the effect leaves `error`, and only a turn of the current token (`LatestTurn`) brings it back, with `lastArgs` its own.
  `LateAnswersAreDropped`: a turn that is the latest is for the conversation on the page (`PlacedInv`). `SessionsAreEarned`:
  a challenge that is in the store was generated and not traded yet (`ChallengeInv`).
  `ReadsAreTimed`: no timer that is due is passed, and those of a read run from its start and its last byte (`TimersArmed`);
  an attempt on which no byte came ends by its share of the budget (`WithinBudget`). The numbers are parameters: `ReadAssumption` asks only that all attempts, timeouts and
  backoffs fit the budget, as the code's do (2 * 15 s + 0.6 s + 2 * 18 s + 0.8 s within 75 s).
  `MemoryStaysHonest` from `PoolInv`: every request holds what was said, only a prompt with a public policy is on its way to the
  pool (`RequestsMeant`), and every record or write is its user's, or of a model its author has published, or foreign
  (`RecordsBelong`). It needs the codec's promise for every prompt, `ReadsBack`: by counting up the symbols of a prompt, what
  `escape` made so far holds no RS, ends in no ESC and is read back (`Kept`, `KeepsOne`), so that the first RS is the trailer's.
  `SessionsStayTyped` from `TypesInv`, which adds what the bounds rest on. The store of challenges stays within its ceiling since entries
  are numbered apart (`Distinct`) and of any such set at most K have fewer than K younger ones (`YoungestFew`); a copilot in flight has
  one latest turn (`CopilotTypes`); a phase of a decryption has its own bound on the tries, and a read something left to read (`ReadBounds`),
  which needs that a ciphertext is never empty.
* **`ServicesProofs`**. `BudgetOvershoot`: a step either moves a slot out of `Running` as it counts it, or admits one below the
  budget, when one slot at least is free. `AgentsGetWhatTheyPaidFor` from `ArcInv`: an offer was checked against policy and
  creator, which never change, there is one entitlement a pair, and from the key servers' answer on the helper runs with
  the key that owns the one it presents. `AnswersAreInTime`: what a loop of the
  Tripo chain has spent is at most the sum of its sleeps and of its requests' latencies (`ChainInv`, with `SleptAfter`, which
  is recursive, unfolded by `SleepsAddUp`), and a row of the balance cache held a query's timeout before it was written, or since (`BalanceInv`).
  `ListsServeTheChain` from `IndexInv`: what the loop is done with, and all that came before an event that is served, is
  dealt with (`NoGaps`), and what is served is on the chain, once, in order (`OnceEach`, `OnTheChain`, `InOrder`); and from `DiscoveryInv`: a lagging index holds a part of what was launched.
  `RatesHold` from `RateInv`: of a key whose window was never evicted, either all windows are over or the table holds the one
  that runs, which has counted every request since the one that opened it (`Tracked`); the openings of two windows are a window
  apart, so that a span meets two at most. The sweep keeps live entries and the order of the table (`Keeping`).
  `ServicesStayTyped` from `ServicesInv`, all of these together with the bounds they leave open: a page of events ends within the log
  (`IndexBounds`), no query of the balance was asked after now (`BalanceBounds`), sales are numbered as they are counted, so that
  there are no more numbers than sales (`ArcTypes`), and a helper writes for the agent who runs it.
* **`StorefrontProofs`**. `ReadsAreCurrent` from `BrowseInv` (the newest ticket is under way while the page loads) and
  `ReadsInv` (a read that was not cancelled is for the page that is shown). `RegistrationsAreTheUsers` from `IntegrateInv`: while `onRegister`
  awaits its task is its click (`TaskIsClick`), and the fee it read is the chain's unless the chain moved (`LiveFee`). `ArtArrivesAsMade` from `UploadInv`: the
  transactions of the quilts before the current one have landed and none of those after it (`LandedSoFar`), how far the
  current one is follows from its stage (`LandedNow`), and a trail names the step of the one upload that writes it
  (`TrailInv`); and from `BakeInv`: what was sent is what the names at hand made of the palettes, and the answer paints it.
  `ListsHonest` from three invariants: `GridInv` (all that the grid holds are models), `BoardInv` (the board holds open collections with a
  count each, and the scan the names of the pages it has read) and `OrderInv` (the ids so far are `1..n`, and what has landed follows
  from the quilt and its step). A list is sorted by rank: the place of an entry is how many come before it, which for a strict total
  order is a bijection with `1..n`. The files of a quilt come back in order because numerals of one width are ordered as their
  numbers are (`Cut` takes their digits).
  `StorefrontStaysTyped` from `PartsInv`, all of these with the bounds they leave open: a tag is one of a model on show
  (`BrowseBounds`), a read is of a collection or of the list (`ReadsBounds`), the form is busy exactly while its task awaits
  (`BusyWithTask`), a quilt that begins is one of those the hook counted (`CountsQuilts`, with `QuiltsCover`: `n` files in
  quilts of `s` make `(n + s - 1) \div s`), the trail drops its oldest breadcrumbs (`TrailWithin`) and what a page receives was
  sent for all variants (`BakeBounds`).

**Assumptions.** `PagesAssumption`, `SessionsAssumption`, `ServicesAssumption`, `StorefrontAssumption` are the conjunctions of the
components' own (bounds are natural numbers, sentinels are outside the sets they stand beside, timers fit their budgets);
the contract's are `SealAssumption`, `FeeAssumption`, `NoModelAssumption`; `PaidGeneration` has `BudgetAssumption` and
`NameAssumption`. TLC evaluates each on the values of a run. The composed theorems assume nothing of fairness.

**Recursion.** A recursive function over a range of numbers is within reach: it exists, and is what its equation says, by
`LeastOne` (a set of numbers has a least one) and `CountUp`, which replace the induction theorems whose operator
parameter the provers cannot instantiate. `Keeping` (the job store, the limiter's table), `SleptAfter` (the Tripo loops),
`Cut` (the digits of a number) and `deriveUniqueLabels` (the labels of a base) are written as such functions, as the library's
`FlattenSeq` is (`JoinIsFlat`: there is one way to join the pieces of a list); sums over sets go the same way by cardinality, `AgentDiscovery` states its sort as a relation, `Catalog` and `Integrate` sort
by rank, and alternatives that were ordered by a CASE exclude each other, so that the definitions TLC runs are the ones proved about.

**The runs check the same definitions** on small instances: those of `Model3D` and `NftCollection` in `package` and `market`, of
`PaidGeneration` in `paid_generation`, of `LaunchPage` and `Pages` in `pages`, of `Sessions` in `sessions`, of `Services`
in `services`, of `Storefront` in `market`.

**Model-checked only.** Liveness (`PageSettles`, `WaitingEnds`, `ServicesAnswer`), which like ENABLED is out of the prover's
reach. Every other property of a passing run is stated by a theorem.

## 6. Not modelled

* Kiosks and transfer policies: framework code that is not in the repository.
* Names, tags, previews and their length bounds; texts, layout, styles; the token page, the developer viewers, the static
  panels of the landing page, seeding and spike scripts: views of state the other components keep, or tools run by hand.
* Rendering, physics and effects: a mesh is a name, a look a few attributes.
* Seal's cryptography, wallets, Walrus, Tripo, Gemini, the relayer: environments.
* Handlers of the other pages that run on after a change of route: they sign what their closure held and set
  no state of a page that is there. `WalrusUpload` and `LaunchPage` have theirs, whose effects meet those of the next visit.
* Several tabs over one `localStorage` (useSession.ts:82): the session event reaches one window only, so a tab keeps a
  session cleared in another until it is read again.
* The caption route repeats the copilot's gate on a budget of its own; `GeminiQuota` stands for both.
* The limiters of `auth.ts`, `memory.ts`, `copilot.ts` and `preflight.ts` are refusals at any time; `RateLimiter` has the
  endpoint whose table is swept.
* In `WalrusUpload` a full `sessionStorage`, a crash inside a synchronous stretch and `reset()`, which no page
  calls; in `MarketPage` how a listing's kiosk is found; in `VariantBuild` textures and Babylon's default material
  names; in `PromptMemory` ALLOW_LIST and PERMISSIONLESS apart.

## 7. Plan

Done: the package; generation, sign-in and decryption; all pages that write; services and agents; and the theorems of section 5.
Every safety property of the passing runs is proved; what stays with the runs is liveness.
