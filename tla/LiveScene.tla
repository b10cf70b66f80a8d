------------------------------ MODULE LiveScene ------------------------------
(***************************************************************************)
(* The landing page's live 3D: the hero (landing/LedeHero.tsx, which reads *)
(* its model from Walrus and falls back to an embedded one) and the wells  *)
(* (babylon/LiveWell.tsx).  Both build an engine with one scene when the   *)
(* viewport and the browser allow it, load a GLB behind an await, and save *)
(* the GPU while they are scrolled out of view.                            *)
(*                                                                         *)
(* An engine and its scene have one number.  React runs the effects of a   *)
(* change in one go: every cleanup, then every body, in source order.      *)
(***************************************************************************)
EXTENDS Naturals, FiniteSets

CONSTANTS
  MaxScenes,  \* bound: scenes built
  MaxUrls     \* bound: blob URLs created by the hero

LiveAssumption == {MaxScenes, MaxUrls} \subseteq Nat

VARIABLES
  kind,       \* "hero", or a well by its offscreenPolicy: "dispose", "pause"
  up,         \* mounted
  isLive,     \* useLedeRenderMode
  inView,     \* useInView
  scene, scenes,  \* the live scene, 0 for none; scenes built
  loops,      \* render loops running on its engine
  loads,      \* GLB loads that await: scene, source, and whether given up
  container,  \* containerRef: the source and scene of the model shown
  ready,      \* sceneReady, ready: the canvas covers the placeholder
  decorated,  \* the scenes onSceneReady decorated and no cleanup undid
  source,     \* sourceUrl: a number, for none, the embedded GLB or a blob URL
  urls, created,  \* blob URLs not revoked; how many were ever created
  fetching,   \* the hero's fetch of this live entry is under way
  timer, dwellElapsed

vars == <<kind, up, isLive, inView, scene, scenes, loops, loads, container, ready, decorated,
          source, urls, created, fetching, timer, dwellElapsed>>

NoSource == 0
Embedded == 1
Nothing == [of |-> NoSource, scene |-> 0]
hero == kind = "hero"

Init ==
  /\ kind \in {"hero", "dispose", "pause"} /\ up = TRUE
  /\ isLive = FALSE /\ inView = FALSE
  /\ scene = 0 /\ scenes = 0 /\ loops = 0 /\ loads = {} /\ container = Nothing /\ ready = FALSE
  /\ decorated = {}
  /\ source = (IF hero THEN NoSource ELSE Embedded)
  /\ urls = {} /\ created = 0 /\ fetching = FALSE /\ timer = FALSE /\ dwellElapsed = FALSE

-----------------------------------------------------------------------------
(* What the cleanups leave: no load goes on, the model goes with the scene.*)
GivenUp == {[l EXCEPT !.givenUp = TRUE] : l \in loads}

Load(s, of) == IF s = 0 \/ of = NoSource THEN {} ELSE {[scene |-> s, of |-> of, givenUp |-> FALSE]}

(* The load effect's cleanup owns the blob URL. *)
Revoked(kept) == urls \cap {kept}

Teardown ==
  /\ scene' = 0 /\ loops' = 0 /\ container' = Nothing /\ decorated' = {}
  /\ UNCHANGED scenes

Build(running) ==
  /\ scenes < MaxScenes /\ scenes' = scenes + 1 /\ scene' = scenes'
  /\ loops' = running /\ container' = Nothing /\ ready' = FALSE /\ decorated' = {}

(* The hero goes live: the engine starts a loop, the visibility effect     *)
(* starts another or stops it; the last source is loaded again, although a *)
(* blob URL was revoked when the hero went static, and fetched anew.       *)
HeroLive ==
  /\ hero /\ up /\ ~isLive /\ isLive' = TRUE
  /\ Build(IF inView THEN 2 ELSE 0)
  /\ loads' = GivenUp \cup Load(scene', source)
  /\ fetching' = TRUE /\ timer' = TRUE /\ dwellElapsed' = FALSE
  /\ UNCHANGED <<kind, up, inView, source, urls, created>>

HeroStatic ==
  /\ hero /\ up /\ isLive /\ isLive' = FALSE
  /\ Teardown /\ loads' = GivenUp /\ urls' = Revoked(NoSource)
  /\ fetching' = FALSE /\ timer' = FALSE
  /\ UNCHANGED <<kind, up, inView, ready, source, created, dwellElapsed>>

(* The hero keeps its engine warm; only the loop stops. *)
HeroScroll ==
  /\ hero /\ up /\ inView' = ~inView
  /\ loops' = (IF scene # 0 /\ inView' THEN loops + 1 ELSE 0)
  /\ UNCHANGED <<kind, up, isLive, scene, scenes, loads, container, ready, decorated, source,
                 urls, created, fetching, timer, dwellElapsed>>

(* A well: one effect over isLive and inView.                              *)
WellChanges(live, view) ==
  /\ ~hero /\ up /\ <<live, view>> # <<isLive, inView>>
  /\ isLive' = live /\ inView' = view
  /\ CASE ~live \/ (~view /\ scene # 0 /\ kind = "dispose") ->
            Teardown /\ ready' = FALSE /\ loads' = GivenUp
       [] live /\ view /\ scene = 0 ->
            Build(1) /\ loads' = loads \cup Load(scene', source)
       [] live /\ view /\ scene # 0 ->
            loops' = loops + 1 /\ UNCHANGED <<scene, scenes, container, ready, loads, decorated>>
       [] live /\ ~view /\ ~(scene # 0 /\ kind = "dispose") ->
            loops' = 0 /\ UNCHANGED <<scene, scenes, container, ready, loads, decorated>>
  /\ UNCHANGED <<kind, up, source, urls, created, fetching, timer, dwellElapsed>>

Unmount ==
  /\ up /\ up' = FALSE
  /\ Teardown /\ loads' = GivenUp
  /\ urls' = (IF isLive THEN Revoked(NoSource) ELSE urls)
  /\ fetching' = FALSE /\ timer' = FALSE
  /\ UNCHANGED <<kind, isLive, inView, ready, source, created, dwellElapsed>>

-----------------------------------------------------------------------------
(* fetchBlobWithTimeout: which error its caller sees.  An abort by the     *)
(* caller wins over the timeout; past the headers nothing is classified.   *)
classifyAbort(external, timeout, body) ==
  IF body THEN "failed" ELSE IF external THEN "aborted" ELSE IF timeout THEN "timeout" ELSE "failed"

(* The fetch of a live entry ends; one whose entry is over is ignored.     *)
SetSource(s) ==
  /\ source' = s
  /\ IF s = source THEN UNCHANGED <<loads, urls>>
     ELSE /\ loads' = GivenUp \cup Load(scene, s)
          /\ urls' = Revoked(NoSource) \cup ({s} \ {Embedded})

FetchBytes ==
  /\ fetching /\ fetching' = FALSE
  /\ created < MaxUrls /\ created' = created + 1
  /\ SetSource(Embedded + created')
  /\ UNCHANGED <<kind, up, isLive, inView, scene, scenes, loops, container, ready, decorated,
                 timer, dwellElapsed>>

FetchFails ==
  /\ fetching /\ fetching' = FALSE
  /\ \E timeout, body \in BOOLEAN : classifyAbort(FALSE, timeout, body) # "aborted"
  /\ SetSource(Embedded)
  /\ UNCHANGED <<kind, up, isLive, inView, scene, scenes, loops, container, ready, decorated,
                 created, timer, dwellElapsed>>

Dwell ==
  /\ timer /\ timer' = FALSE /\ dwellElapsed' = TRUE
  /\ UNCHANGED <<kind, up, isLive, inView, scene, scenes, loops, loads, container, ready,
                 decorated, source, urls, created, fetching>>

-----------------------------------------------------------------------------
(* A load resolves: into a scene that is gone, or by another's token, it is*)
(* thrown away; a revoked URL does not load.                               *)
Superseded(l) == l.givenUp \/ l.scene # scene

Loaded(l) ==
  /\ l \in loads /\ loads' = loads \ {l}
  /\ l.givenUp \/ l.of = Embedded \/ l.of \in urls
  /\ IF Superseded(l) THEN UNCHANGED <<container, ready, decorated>>
     ELSE /\ container' = [of |-> l.of, scene |-> l.scene] /\ ready' = TRUE
          /\ decorated' = (IF hero THEN {} ELSE decorated \cup {l.scene})
  /\ UNCHANGED <<kind, up, isLive, inView, scene, scenes, loops, source, urls, created, fetching,
                 timer, dwellElapsed>>

LoadFails(l) ==
  /\ l \in loads /\ loads' = loads \ {l}
  /\ UNCHANGED <<kind, up, isLive, inView, scene, scenes, loops, container, ready, decorated,
                 source, urls, created, fetching, timer, dwellElapsed>>

Next ==
  \/ HeroLive \/ HeroStatic \/ HeroScroll \/ Unmount
  \/ \E live, view \in BOOLEAN : WellChanges(live, view)
  \/ FetchBytes \/ FetchFails \/ Dwell
  \/ \E l \in loads : Loaded(l) \/ LoadFails(l)

Spec == Init /\ [][Next]_vars

-----------------------------------------------------------------------------
TypeOK ==
  /\ kind \in {"hero", "dispose", "pause"}
  /\ {up, isLive, inView, ready, fetching, timer, dwellElapsed} \subseteq BOOLEAN
  /\ {scene, scenes, container.scene} \subseteq 0..MaxScenes /\ decorated \subseteq 1..MaxScenes
  /\ \A l \in loads : l.scene \in 1..MaxScenes /\ l.of \in 1..(Embedded + MaxUrls)
  /\ source \in 0..(Embedded + MaxUrls) /\ created \in 0..MaxUrls

(* Across scrolling, resizing and slow loads: a model is never put into a  *)
(* scene that is gone ("bail before mutating a dead render graph",         *)
(* LiveWell.tsx), and the canvas that covers the placeholder shows the     *)
(* model of the scene that is live.                                        *)
ModelIsLive ==
  /\ container # Nothing => container.scene = scene
  /\ up /\ isLive /\ ready => scene # 0 /\ container # Nothing
  /\ decorated \subseteq {scene}

(* Off screen and off the page nothing is spent: no loop runs, a well that *)
(* disposes has no engine, a well never runs two loops, and the only blob  *)
(* URL alive is the hero's source.                                         *)
NothingIsWasted ==
  /\ ~inView => loops = 0
  /\ kind = "dispose" /\ ~inView => scene = 0
  /\ ~hero => loops <= 1
  /\ urls \subseteq {source}
  /\ ~up => scene = 0 /\ loops = 0 /\ urls = {}
=============================================================================
