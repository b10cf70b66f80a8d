---------------------------- MODULE ViewerCanvas ----------------------------
(***************************************************************************)
(* The 3D viewer of a page (babylon/PreviewCanvas.tsx) and the one parts   *)
(* are tagged in (TaggingCanvas.tsx), over applyCanvasMode.ts: one engine  *)
(* per mounted component, one scene at a time in it, GLBs that load behind *)
(* an await, and a mode that repaints the meshes of the loaded one.        *)
(*                                                                         *)
(* The launch page takes the preview's scene away while it uploads         *)
(* (dispose, remount); React commits that change later than it is asked.   *)
(***************************************************************************)
EXTENDS Naturals, FiniteSets

CONSTANTS
  Glbs, None,   \* the GLBs a page shows; no GLB
  Parts,        \* the meshes of a GLB
  MaxLoads,     \* bound: loads begun
  MaxScenes     \* bound: scenes made

ViewerAssumption == MaxLoads \in Nat /\ MaxScenes \in Nat \ {0}

VARIABLES
  kind,       \* "preview" or "tagging"
  up,         \* the component is mounted
  glbUrl,     \* the page's GLB
  wanted,     \* what dispose and remount set mounted to
  mounted,    \* mounted as committed
  isDisposed, \* isDisposedRef
  scene,      \* number of the live scene, 0 for none
  scenes,     \* scenes made
  loads,      \* loads under way: token, GLB, scene and whether cancelled
  token,      \* loadTokenRef
  shown,      \* containerRef: a GLB and the scene it was added to
  told,       \* the GLB whose parts onLoaded reported to the page
  meshLoaded,
  failed,     \* the last load of this GLB failed
  mode, solo, painted,  \* mode, highlightedParts and the parts with a color
  material,   \* part -> what its material looks like
  snapshot    \* part -> its material as first met

vars == <<kind, up, glbUrl, wanted, mounted, isDisposed, scene, scenes, loads, token, shown,
          told, meshLoaded, failed, mode, solo, painted, material, snapshot>>
styleVars == <<mode, solo, painted>>
meshVars == <<material, snapshot>>

Modes == {"pbr", "parts", "solo", "wireframe"}
Nothing == [of |-> None, scene |-> 0]
Authored == [alpha |-> "full", wireframe |-> FALSE, color |-> "authored"]
NoSnapshot == [alpha |-> "none", wireframe |-> FALSE, color |-> "none"]

Init ==
  /\ kind \in {"preview", "tagging"} /\ up = TRUE /\ glbUrl = None
  /\ wanted = TRUE /\ mounted = TRUE /\ isDisposed = FALSE
  /\ scene = 1 /\ scenes = 1 /\ loads = {} /\ token = 0
  /\ shown = Nothing /\ told = None /\ meshLoaded = FALSE /\ failed = FALSE
  /\ mode \in {"pbr", "parts"} /\ solo = {} /\ painted = {}
  /\ material = [i \in Parts |-> Authored] /\ snapshot = [i \in Parts |-> NoSnapshot]

-----------------------------------------------------------------------------
(* getOrCaptureSnapshot: once per mesh.                                    *)
Baseline(mats, snaps) ==
  [i \in Parts |-> IF snaps[i] = NoSnapshot THEN mats[i] ELSE snaps[i]]

(* applyCanvasMode, past the restore: the part colors unless the mode is   *)
(* the diagnostic one, then the mode's own overlay.                        *)
Overlay(base, m, hl, colors) ==
  [i \in Parts |->
     LET tinted == IF m # "parts" /\ i \in colors THEN [base[i] EXCEPT !.color = "picked"] ELSE base[i]
     IN  CASE m = "parts" -> [base[i] EXCEPT !.color = "rainbow"]
           [] m = "solo" /\ i \notin hl -> [tinted EXCEPT !.alpha = "dimmed"]
           [] m = "wireframe" -> [tinted EXCEPT !.wireframe = TRUE]
           [] OTHER -> tinted]

(* The mode effect, over meshes as they are.                               *)
ApplyCanvasMode(mats, snaps, m, hl, colors) ==
  /\ snapshot' = Baseline(mats, snaps)
  /\ material' = Overlay(snapshot', m, hl, colors)

(* The page changes the mode, the highlighted parts or the part colors.    *)
Restyle(m, hl, colors) ==
  /\ up /\ <<m, hl, colors>> # <<mode, solo, painted>>
  /\ kind = "tagging" => colors = {}
  /\ mode' = m /\ solo' = hl /\ painted' = colors
  /\ IF shown = Nothing THEN UNCHANGED meshVars
     ELSE ApplyCanvasMode(material, snapshot, m, hl, colors)
  /\ UNCHANGED <<kind, up, glbUrl, wanted, mounted, isDisposed, scene, scenes, loads, token,
                 shown, told, meshLoaded, failed>>

-----------------------------------------------------------------------------
Cancelled == {[l EXCEPT !.cancelled = TRUE] : l \in loads}

(* The load effect for GLB g in scene s, after the last run's cleanup.     *)
LoadEffect(g, s) ==
  IF g = None \/ s = 0
  THEN loads' = Cancelled /\ UNCHANGED <<token, meshLoaded, failed>>
  ELSE /\ token < MaxLoads /\ token' = token + 1
       /\ loads' = Cancelled \cup {[token |-> token', of |-> g, scene |-> s, cancelled |-> FALSE]}
       /\ meshLoaded' = FALSE /\ failed' = FALSE

SetGlb(g) ==
  /\ up /\ g # glbUrl /\ glbUrl' = g
  /\ LoadEffect(g, scene)
  /\ UNCHANGED <<kind, up, wanted, mounted, isDisposed, scene, scenes, shown, told, styleVars,
                 meshVars>>

(* The handle: the flag at once, the state at the next commit.  The upload *)
(* between the two calls outlasts a commit.                                *)
dispose ==
  /\ kind = "preview" /\ up /\ wanted /\ mounted
  /\ isDisposed' = TRUE /\ wanted' = FALSE
  /\ UNCHANGED <<kind, up, glbUrl, mounted, scene, scenes, loads, token, shown, told, meshLoaded,
                 failed, styleVars, meshVars>>

remount ==
  /\ kind = "preview" /\ up /\ ~wanted /\ ~mounted
  /\ isDisposed' = FALSE /\ wanted' = TRUE
  /\ UNCHANGED <<kind, up, glbUrl, mounted, scene, scenes, loads, token, shown, told, meshLoaded,
                 failed, styleVars, meshVars>>

(* The effects keyed on mounted: a scene goes with all it holds, or a new  *)
(* one comes and the GLB is loaded again.                                  *)
Commit ==
  /\ up /\ wanted # mounted /\ mounted' = wanted
  /\ shown' = Nothing
  /\ IF wanted THEN scenes < MaxScenes /\ scenes' = scenes + 1 /\ scene' = scenes'
     ELSE scene' = 0 /\ UNCHANGED scenes
  /\ LoadEffect(glbUrl, scene')
  /\ UNCHANGED <<kind, up, glbUrl, wanted, isDisposed, told, styleVars, meshVars>>

(* The page goes, or LazyCanvasMount scrolls the card away.                *)
Unmount ==
  /\ up /\ up' = FALSE
  /\ scene' = 0 /\ shown' = Nothing /\ loads' = Cancelled
  /\ UNCHANGED <<kind, glbUrl, wanted, mounted, isDisposed, scenes, token, told, meshLoaded,
                 failed, styleVars, meshVars>>

-----------------------------------------------------------------------------
(* What makes a load dispose what it brings.                               *)
Superseded_faulty(l) == kind = "preview" /\ isDisposed
Superseded(l) ==
  \/ l.cancelled \/ l.token # token
  \/ kind = "preview" /\ (isDisposed \/ l.scene # scene)

(* A load resolves: the last container goes, the new meshes are painted by *)
(* the mode effect (loadEpoch, meshLoaded), the tagging page is told.      *)
Loaded(l) ==
  /\ l \in loads /\ loads' = loads \ {l}
  /\ IF Superseded(l) THEN UNCHANGED <<shown, told, meshLoaded, meshVars>>
     ELSE /\ shown' = [of |-> l.of, scene |-> l.scene]
          /\ told' = (IF kind = "tagging" THEN l.of ELSE told)
          /\ meshLoaded' = TRUE
          /\ ApplyCanvasMode([i \in Parts |-> Authored], [i \in Parts |-> NoSnapshot],
                             mode, solo, painted)
  /\ UNCHANGED <<kind, up, glbUrl, wanted, mounted, isDisposed, scene, scenes, token, failed,
                 styleVars>>

(* A load fails: the preview takes its overlay away, the last mesh stays.  *)
LoadFails(l) ==
  /\ l \in loads /\ loads' = loads \ {l}
  /\ IF l.cancelled \/ l.token # token THEN UNCHANGED <<meshLoaded, failed>>
     ELSE failed' = TRUE /\ meshLoaded' = (meshLoaded \/ (kind = "preview" /\ ~isDisposed))
  /\ UNCHANGED <<kind, up, glbUrl, wanted, mounted, isDisposed, scene, scenes, token, shown, told,
                 styleVars, meshVars>>

Next ==
  \/ \E m \in Modes, hl, colors \in SUBSET Parts : Restyle(m, hl, colors)
  \/ \E g \in Glbs \cup {None} : SetGlb(g)
  \/ dispose \/ remount \/ Commit \/ Unmount
  \/ \E l \in loads : Loaded(l) \/ LoadFails(l)

Spec == Init /\ [][Next]_vars

-----------------------------------------------------------------------------
TypeOK ==
  /\ kind \in {"preview", "tagging"} /\ {up, wanted, mounted, isDisposed, meshLoaded, failed} \subseteq BOOLEAN
  /\ {glbUrl, told, shown.of} \subseteq Glbs \cup {None}
  /\ {scene, scenes, shown.scene} \subseteq 0..MaxScenes /\ token \in 0..MaxLoads
  /\ \A l \in loads : l.token \in 1..MaxLoads /\ l.of \in Glbs /\ l.scene \in 1..MaxScenes
  /\ mode \in Modes /\ solo \subseteq Parts /\ painted \subseteq Parts

Settled == up /\ mounted /\ wanted /\ glbUrl # None /\ \A l \in loads : l.cancelled

(* Whatever was loaded, cancelled, disposed and remounted: once no load is *)
(* under way the live scene shows the page's GLB, unless it failed to load;*)
(* the overlay is gone, and the parts the page was told of are its own.    *)
(* No mesh is ever added to a scene that is gone.                          *)
ViewIsCurrent ==
  /\ shown # Nothing => shown.scene = scene /\ scene # 0
  /\ Settled /\ ~failed =>
       /\ shown.of = glbUrl /\ meshLoaded
       /\ kind = "tagging" => told = glbUrl
  /\ Settled /\ kind = "preview" => meshLoaded

(* The look of a mesh depends on the mode, the highlighted parts and the   *)
(* colors of now, never on those before ("reliably returns to the original *)
(* baseline", applyCanvasMode.ts:27).                                      *)
LookIsCurrent ==
  shown # Nothing => material = Overlay([i \in Parts |-> Authored], mode, solo, painted)
=============================================================================
