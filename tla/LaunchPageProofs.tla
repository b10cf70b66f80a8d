--------------------------- MODULE LaunchPageProofs ---------------------------
(***************************************************************************)
(* For any bases, upload attempts, launches and handlers left behind by a  *)
(* change of route: handlers of one visit to the launch page exclude one   *)
(* another, an encrypted fork is its base's own mesh, storage is paid once *)
(* per run, and success means minted tokens.                               *)
(***************************************************************************)
EXTENDS LaunchPage, TLAPS

Typed ==
    /\ phase \in Phases
    /\ base \in Bases \cup {NoBase}
    /\ baseGlb \in Bases \cup {NoBase}
    /\ flows \subseteq Flow
    /\ collections \in Seq(Collection)

(* The mesh on the page can be stale for a base in the clear, never for an   *)
(* encrypted one.                                                            *)
PageMesh == base \in Encrypted => baseGlb \in {NoBase, base}

(* What a handler of each kind goes by, and what its run has paid so far.    *)
FlowSound(f) ==
    /\ f.kind \in {"pick", "launch"} => f.base \notin Encrypted
    /\ f.kind = "mint" => f.base \in Encrypted /\ f.glb = f.base
    /\ f.registered <= IF f.step \in {"start", "register"} THEN 0 ELSE 1
    /\ f.step = "mint" => /\ f.collection \in DOMAIN collections
                          /\ collections[f.collection].base = f.base

FlowsSound == \A f \in flows : FlowSound(f)

IInv == /\ Typed /\ PageMesh /\ FlowsSound
        /\ OneFlowAtATime /\ EncryptedForkIsOwnMesh /\ SuccessIsMinted

(* What the chain keeps: a collection stays, of its base, with its tokens. *)
ChainKept ==
    \A i \in DOMAIN collections :
        /\ i \in DOMAIN collections'
        /\ collections'[i].base = collections[i].base
        /\ collections[i].tokens => collections'[i].tokens

(* While nothing is busy, no handler of this visit runs. *)
LEMMA IdlePage ==
    ASSUME OneFlowAtATime, phase \notin BusyPhases
    PROVE  \A f \in flows : ~Here(f)
BY DEF OneFlowAtATime

LEMMA NewFlowType ==
    ASSUME NEW kind \in {"pick", "preview", "unlock", "launch", "mint"},
           base \in Bases, baseGlb \in Bases \cup {NoBase}
    PROVE  /\ NewFlow(kind) \in Flow
           /\ NewFlow(kind).kind = kind /\ NewFlow(kind).step = "start"
           /\ NewFlow(kind).base = base /\ NewFlow(kind).glb = baseGlb
           /\ NewFlow(kind).registered = 0 /\ NewFlow(kind).left = 0
BY LaunchAssumption DEF NewFlow, Flow

(* A handler under way stays sound while the chain keeps its collection. *)
LEMMA StaysSound ==
    ASSUME NEW f, FlowSound(f), ChainKept
    PROVE  FlowSound(f)'
BY DEF FlowSound, ChainKept

(* A step that leaves the chain alone. *)
LEMMA SameChain ==
    ASSUME IInv, UNCHANGED collections
    PROVE  ChainKept /\ EncryptedForkIsOwnMesh' /\ collections' \in Seq(Collection)
BY DEF IInv, Typed, EncryptedForkIsOwnMesh, ChainKept

(* A handler started by a click finds none of its visit running. *)
LEMMA BeginKeeps ==
    ASSUME IInv, phase \notin BusyPhases, NEW g \in Flow, flows' = flows \cup {g},
           g.left = 0, g.base = base', FlowSound(g), phase' \in BusyPhases,
           base' \in Bases, baseGlb' \in Bases \cup {NoBase}, PageMesh',
           UNCHANGED collections
    PROVE  IInv'
<1>1. \A f \in flows : ~Here(f) BY IdlePage DEF IInv
<1>2. phase' \in Phases /\ phase' # "success" BY DEF BusyPhases, Phases
<1>3. ChainKept /\ EncryptedForkIsOwnMesh' /\ collections' \in Seq(Collection) BY SameChain
<1>4. Typed' BY <1>2, <1>3 DEF IInv, Typed
<1>5. FlowsSound' BY <1>3, StaysSound DEF IInv, FlowsSound
<1>6. OneFlowAtATime'
  <2>1. \A f \in flows : f.left # 0 BY <1>1 DEF Here
  <2>2. ASSUME NEW f \in flows', NEW h \in flows', f.left = h.left PROVE f = h
    BY <2>1, <2>2 DEF IInv, OneFlowAtATime
  <2>3. ASSUME NEW f \in flows', Here(f) PROVE phase' \in BusyPhases /\ f.base = base'
    BY <2>1, <2>3 DEF Here
  <2>4. BusyPhases' = BusyPhases BY DEF BusyPhases
  <2>5. QED BY <2>2, <2>3, <2>4 DEF OneFlowAtATime, Here
<1>7. SuccessIsMinted' BY <1>2 DEF SuccessIsMinted
<1>8. QED BY <1>3, <1>4, <1>5, <1>6, <1>7 DEF IInv

(* A click keeps the invariant. *)
LEMMA ClickKeeps ==
    ASSUME IInv, Click
    PROVE  IInv'
<1>1. phase \notin BusyPhases
  BY DEF Click, PickBase, onUnlock, onPreview, onLaunch, onMintEncrypted, Offered, Clickable
<1>2. \A f \in flows : ~Here(f) BY <1>1, IdlePage DEF IInv
<1>3. ASSUME UNCHANGED <<flows, collections>>, phase' \in Phases \ {"success"},
             base' \in Bases \cup {NoBase}, baseGlb' \in Bases \cup {NoBase}, PageMesh'
      PROVE  IInv'
  <2>1. ChainKept /\ EncryptedForkIsOwnMesh' /\ collections' \in Seq(Collection)
    BY <1>3, SameChain
  <2>2. Typed' BY <1>3, <2>1 DEF IInv, Typed
  <2>3. FlowsSound' BY <1>3, <2>1, StaysSound DEF IInv, FlowsSound
  <2>4. OneFlowAtATime' BY <1>2, <1>3 DEF IInv, OneFlowAtATime, Here
  <2>5. SuccessIsMinted' BY <1>3 DEF SuccessIsMinted
  <2>6. QED BY <1>3, <2>1, <2>2, <2>3, <2>4, <2>5 DEF IInv
<1>4. ASSUME NEW m \in Bases, PickBase(m) PROVE IInv'
  <2>1. base' = m /\ UNCHANGED collections BY <1>4 DEF PickBase
  <2>2. CASE m \in Encrypted
    <3>1. baseGlb' = NoBase /\ flows' = flows /\ phase' = "editing-variants"
      BY <1>4, <2>2 DEF PickBase
    <3>2. PageMesh' BY <3>1 DEF PageMesh
    <3>3. QED BY <1>3, <2>1, <3>1, <3>2 DEF Phases
  <2>3. CASE m \notin Encrypted
    <3> DEFINE f == [NewFlow("pick") EXCEPT !.base = m]
    <3>1. /\ f \in Flow /\ f.kind = "pick" /\ f.step = "start" /\ f.base = m
          /\ f.registered = 0 /\ f.left = 0
      BY LaunchAssumption DEF NewFlow, Flow, IInv, Typed
    <3>2. flows' = flows \cup {f} /\ baseGlb' = baseGlb /\ phase' \in BusyPhases
      BY <1>4, <2>3 DEF PickBase, BusyPhases
    <3> HIDE DEF f
    <3>3. FlowSound(f) BY <2>3, <3>1 DEF FlowSound
    <3>4. PageMesh' BY <2>1, <2>3 DEF PageMesh
    <3>5. QED BY <1>1, <2>1, <3>1, <3>2, <3>3, <3>4, BeginKeeps DEF IInv, Typed
  <2>4. QED BY <2>2, <2>3
<1>5. CASE onUnlock /\ base \notin Own \cup owned
  <2>1. UNCHANGED <<base, baseGlb, flows, collections>> /\ phase' = "error"
    BY <1>5 DEF onUnlock
  <2>2. QED BY <1>3, <2>1 DEF IInv, Typed, Phases, PageMesh
<1>6. ASSUME NEW kind \in {"preview", "unlock", "launch", "mint"},
             flows' = flows \cup {NewFlow(kind)}, base \in Bases,
             kind = "launch" => base \notin Encrypted,
             kind = "mint" => base \in Encrypted /\ baseGlb # NoBase,
             phase' \in {"decrypting", "building-variants"},
             UNCHANGED <<base, baseGlb, collections>>
      PROVE  IInv'
  <2> DEFINE f == NewFlow(kind)
  <2>1. /\ f \in Flow /\ f.kind = kind /\ f.step = "start" /\ f.base = base
        /\ f.glb = baseGlb /\ f.registered = 0 /\ f.left = 0
    BY <1>6, NewFlowType DEF IInv, Typed
  <2>2. flows' = flows \cup {f} BY <1>6
  <2> HIDE DEF f
  <2>3. kind = "mint" => baseGlb = base BY <1>6 DEF IInv, PageMesh
  <2>4. FlowSound(f) BY <1>6, <2>1, <2>3 DEF FlowSound
  <2>5. phase' \in BusyPhases BY <1>6 DEF BusyPhases
  <2>6. PageMesh' BY <1>6 DEF IInv, PageMesh
  <2>7. QED BY <1>1, <1>6, <2>1, <2>2, <2>4, <2>5, <2>6, BeginKeeps DEF IInv, Typed
<1>7. CASE onUnlock /\ base \in Own \cup owned
  <2>1. /\ flows' = flows \cup {NewFlow("unlock")} /\ phase' = "decrypting"
        /\ UNCHANGED <<base, baseGlb, collections>>
    BY <1>7 DEF onUnlock
  <2>2. base \in Bases BY <1>7, LaunchAssumption DEF onUnlock, needsUnlock
  <2>3. QED BY <1>6, <2>1, <2>2
<1>8. CASE onPreview
  <2>1. base \in Bases BY <1>8 DEF onPreview, IInv, Typed
  <2>2. QED BY <1>6, <1>8, <2>1 DEF onPreview
<1>9. CASE onLaunch
  <2>1. base \in Bases BY <1>9 DEF onLaunch, IInv, Typed
  <2>2. QED BY <1>6, <1>9, <2>1 DEF onLaunch
<1>10. CASE onMintEncrypted
  <2>1. base \in Bases BY <1>10, LaunchAssumption DEF onMintEncrypted
  <2>2. QED BY <1>6, <1>10, <2>1 DEF onMintEncrypted
<1>11. QED BY <1>4, <1>5, <1>7, <1>8, <1>9, <1>10 DEF Click

(* A running handler of this visit is the only one, and the page waits for it. *)
LEMMA RunningFlow ==
    ASSUME IInv, NEW f \in flows
    PROVE  /\ f \in Flow /\ FlowSound(f)
           /\ \A g \in flows : g.left = f.left => g = f
           /\ Here(f) => f.base = base /\ phase \in BusyPhases
BY DEF IInv, Typed, FlowsSound, OneFlowAtATime

(* What is left to show when a handler ends: one whose page is gone leaves   *)
(* the phase as it is.                                                       *)
LEMMA EndKeeps ==
    ASSUME IInv, NEW f \in flows, Ends(f), base' = base,
           NEW p \in Phases, Shows(f, p),
           baseGlb' \in {baseGlb, base}, p = "success" /\ Here(f) => SuccessIsMinted',
           ChainKept, collections' \in Seq(Collection), EncryptedForkIsOwnMesh'
    PROVE  IInv'
<1>1. flows' = flows \ {f} BY DEF Ends
<1>2. phase' = IF Here(f) THEN p ELSE phase BY DEF Shows
<1>3. Typed' BY <1>1, <1>2 DEF IInv, Typed
<1>4. PageMesh' BY DEF IInv, PageMesh
<1>5. FlowsSound' BY <1>1, StaysSound DEF IInv, FlowsSound
<1>6. OneFlowAtATime'
  <2>1. \A g \in flows' : Here(g) => ~Here(f) BY <1>1, RunningFlow DEF Here
  <2>2. QED BY <1>1, <1>2, <2>1 DEF IInv, OneFlowAtATime, Here
<1>7. SuccessIsMinted'
  <2>1. CASE Here(f) BY <1>2, <2>1 DEF SuccessIsMinted
  <2>2. CASE ~Here(f) BY <1>2, <2>2 DEF IInv, SuccessIsMinted, ChainKept
  <2>3. QED BY <2>1, <2>2
<1>8. QED BY <1>3, <1>4, <1>5, <1>6, <1>7 DEF IInv

(* What is left to show when a handler goes on. *)
LEMMA GoOnKeeps ==
    ASSUME IInv, NEW f \in flows, NEW g \in Flow, Becomes(f, g), g.base = f.base,
           g.left = f.left, FlowSound(g)', base' = base, baseGlb' = baseGlb,
           phase' = phase \/ (Here(f) /\ phase' \in BusyPhases),
           ChainKept, collections' \in Seq(Collection), EncryptedForkIsOwnMesh'
    PROVE  IInv'
<1>1. flows' = (flows \ {f}) \cup {g} BY DEF Becomes
<1>2. phase' \in Phases BY DEF BusyPhases, Phases, IInv, Typed
<1>3. Typed' BY <1>1, <1>2 DEF IInv, Typed
<1>4. PageMesh' BY DEF IInv, PageMesh
<1>5. FlowsSound' BY <1>1, StaysSound DEF IInv, FlowsSound
<1>6. OneFlowAtATime'
  <2>1. \A h \in flows \ {f} : h.left # g.left BY RunningFlow
  <2>2. ASSUME NEW h \in flows', NEW k \in flows', h.left = k.left PROVE h = k
    BY <1>1, <2>1, <2>2 DEF IInv, OneFlowAtATime
  <2>3. ASSUME NEW h \in flows', h.left = 0 PROVE phase' \in BusyPhases /\ h.base = base'
    <3>1. PICK k \in flows : k.left = 0 /\ k.base = h.base
      BY <1>1, <2>3
    <3>2. phase \in BusyPhases /\ h.base = base BY <3>1, RunningFlow DEF Here
    <3>3. QED BY <3>2
  <2>4. BusyPhases' = BusyPhases BY DEF BusyPhases
  <2>5. QED BY <2>2, <2>3, <2>4 DEF OneFlowAtATime, Here
<1>7. SuccessIsMinted'
  <2>1. phase' = "success" => phase = "success" BY DEF BusyPhases
  <2>2. QED BY <2>1 DEF IInv, SuccessIsMinted, ChainKept
<1>8. QED BY <1>3, <1>4, <1>5, <1>6, <1>7 DEF IInv

(* A handler that fails changes nothing but its page's phase. *)
LEMMA FailKeeps ==
    ASSUME IInv, NEW f \in flows, Fail(f), UNCHANGED <<base, baseGlb, collections>>
    PROVE  IInv'
<1>1. Ends(f) /\ Shows(f, "error") BY DEF Fail
<1>2. "error" \in Phases BY DEF Phases
<1>3. ChainKept /\ EncryptedForkIsOwnMesh' /\ collections' \in Seq(Collection) BY SameChain
<1>4. QED BY <1>1, <1>2, <1>3, EndKeeps

(* A step of a handler that leaves the chain and the mesh alone. *)
LEMMA AdvanceKeeps ==
    ASSUME IInv, NEW f \in flows, NEW step \in {"register", "relay", "certify", "charge"},
           NEW registered \in Nat, NEW failed \in 0..UploadAttempts,
           Becomes(f, [f EXCEPT !.step = step, !.registered = registered, !.failed = failed]),
           registered <= IF step = "register" THEN 0 ELSE 1,
           phase' = phase \/ (Here(f) /\ phase' \in BusyPhases),
           UNCHANGED <<base, baseGlb, collections>>
    PROVE  IInv'
<1> DEFINE g == [f EXCEPT !.step = step, !.registered = registered, !.failed = failed]
<1>1. f \in Flow /\ FlowSound(f) BY RunningFlow
<1>2. /\ g \in Flow /\ g.kind = f.kind /\ g.base = f.base /\ g.glb = f.glb
      /\ g.step = step /\ g.registered = registered /\ g.left = f.left
  BY <1>1 DEF Flow
<1>3. Becomes(f, g) OBVIOUS
<1> HIDE DEF g
<1>4. FlowSound(g)' BY <1>1, <1>2 DEF FlowSound
<1>5. ChainKept /\ EncryptedForkIsOwnMesh' /\ collections' \in Seq(Collection) BY SameChain
<1>6. QED BY <1>2, <1>3, <1>4, <1>5, GoOnKeeps

(* The uploads keep the invariant: only a first registration is counted. *)
LEMMA UploadKeeps ==
    ASSUME IInv, NEW f \in flows, Register(f) \/ Relay(f) \/ Certify(f)
    PROVE  IInv'
<1>1. f \in Flow /\ FlowSound(f) BY RunningFlow
<1>2. UNCHANGED <<base, baseGlb, collections>> BY DEF Register, Relay, Certify
<1>3. CASE Fail(f) BY <1>2, <1>3, FailKeeps
<1>4. CASE Register(f) /\ ~Fail(f)
  <2>1. /\ f.registered = 0 /\ f.failed \in 0..UploadAttempts /\ phase' = phase
        /\ f.registered + 1 \in Nat /\ f.registered + 1 <= 1
    BY <1>1, <1>4 DEF Register, FlowSound, Flow
  <2>2. [f EXCEPT !.step = "relay", !.registered = f.registered + 1, !.failed = f.failed]
            = [f EXCEPT !.step = "relay", !.registered = @ + 1]
    BY <1>1 DEF Flow
  <2>3. Becomes(f, [f EXCEPT !.step = "relay", !.registered = f.registered + 1,
                             !.failed = f.failed])
    BY <1>4, <2>2 DEF Register
  <2>4. QED BY <1>1, <1>2, <2>1, <2>3, AdvanceKeeps
<1>5. CASE Relay(f) /\ ~Fail(f)
  <2>1. f.registered \in Nat /\ f.registered <= 1 /\ f.failed \in 0..UploadAttempts /\ phase' = phase
    BY <1>1, <1>5 DEF Relay, FlowSound, Flow
  <2>2. CASE Becomes(f, [f EXCEPT !.step = "certify"])
    <3>1. [f EXCEPT !.step = "certify", !.registered = f.registered, !.failed = f.failed]
              = [f EXCEPT !.step = "certify"]
      BY <1>1 DEF Flow
    <3>2. QED BY <1>1, <1>2, <2>1, <2>2, <3>1, AdvanceKeeps
  <2>3. CASE f.failed + 1 < UploadAttempts /\ Becomes(f, [f EXCEPT !.failed = @ + 1])
    <3>1. f.step = "relay" /\ f.failed + 1 \in 0..UploadAttempts
      BY <1>5, <2>1, <2>3, LaunchAssumption DEF Relay
    <3>2. [f EXCEPT !.step = "relay", !.registered = f.registered, !.failed = f.failed + 1]
              = [f EXCEPT !.failed = @ + 1]
      BY <1>1, <3>1 DEF Flow
    <3>3. QED BY <1>1, <1>2, <2>1, <2>3, <3>1, <3>2, AdvanceKeeps
  <2>4. QED BY <1>5, <2>2, <2>3 DEF Relay
<1>6. CASE Certify(f) /\ ~Fail(f)
  <2>1. f.registered \in Nat /\ f.registered <= 1 /\ f.failed \in 0..UploadAttempts
    BY <1>1, <1>6 DEF Certify, FlowSound, Flow
  <2>2. phase' = phase \/ (Here(f) /\ phase' \in BusyPhases)
    BY <1>6 DEF Certify, Shows, BusyPhases
  <2>3. [f EXCEPT !.step = "charge", !.registered = f.registered, !.failed = f.failed]
            = [f EXCEPT !.step = "charge"]
    BY <1>1 DEF Flow
  <2>4. Becomes(f, [f EXCEPT !.step = "charge", !.registered = f.registered, !.failed = f.failed])
    BY <1>6, <2>3 DEF Certify
  <2>5. QED BY <1>2, <2>1, <2>2, <2>4, AdvanceKeeps
<1>7. QED BY <1>3, <1>4, <1>5, <1>6

(* A launch that is executed is the collection after all others. *)
LEMMA Launched ==
    ASSUME Typed, NEW c \in Collection, collections' = Append(collections, c)
    PROVE  /\ collections' \in Seq(Collection)
           /\ DOMAIN collections' = DOMAIN collections \cup {Len(collections) + 1}
           /\ Len(collections) + 1 \notin DOMAIN collections
           /\ collections'[Len(collections) + 1] = c
           /\ \A i \in DOMAIN collections : collections'[i] = collections[i]
BY DEF Typed

(* The transactions keep the invariant. *)
LEMMA SignLaunchKeeps ==
    ASSUME IInv, NEW f \in flows, SignLaunch(f)
    PROVE  IInv'
<1> DEFINE c == [base |-> f.base, art |-> f.glb, tokens |-> TRUE]
<1>1. f \in Flow /\ FlowSound(f) /\ (Here(f) => f.base = base) BY RunningFlow
<1>2. UNCHANGED <<base, baseGlb>> BY DEF SignLaunch
<1>3. CASE UNCHANGED collections /\ Fail(f) BY <1>2, <1>3, FailKeeps
<1>4. CASE collections' = Append(collections, c) /\ (Fail(f) \/ (Ends(f) /\ Shows(f, "success")))
  <2>1. c \in Collection /\ c.base = f.base /\ c.tokens BY <1>1 DEF Collection, Flow
  <2>2. c.base \notin Encrypted BY <1>1 DEF SignLaunch, FlowSound
  <2>3. collections' = Append(collections, c) BY <1>4
  <2> HIDE DEF c
  <2>4. EncryptedForkIsOwnMesh'
    BY <2>1, <2>2, <2>3, Launched DEF IInv, EncryptedForkIsOwnMesh
  <2>5. ChainKept BY <2>1, <2>3, Launched DEF IInv, ChainKept
  <2>6. Here(f) => SuccessIsMinted'
    BY <1>1, <1>2, <2>1, <2>3, Launched DEF IInv, SuccessIsMinted
  <2>7. PICK p \in {"error", "success"} : Ends(f) /\ Shows(f, p) BY <1>4 DEF Fail
  <2>8. p \in Phases BY DEF Phases
  <2>9. collections' \in Seq(Collection) BY <2>1, <2>3, Launched DEF IInv
  <2>10. QED BY <1>2, <2>4, <2>5, <2>6, <2>7, <2>8, <2>9, EndKeeps
<1>5. QED BY <1>3, <1>4 DEF SignLaunch

LEMMA LaunchCapKeeps ==
    ASSUME IInv, NEW f \in flows, LaunchCap(f)
    PROVE  IInv'
<1> DEFINE c == [base |-> f.base, art |-> NoBase, tokens |-> FALSE]
<1>1. f \in Flow /\ FlowSound(f) BY RunningFlow
<1>2. UNCHANGED <<base, baseGlb>> BY DEF LaunchCap
<1>3. CASE UNCHANGED collections /\ Fail(f) BY <1>2, <1>3, FailKeeps
<1>4. CASE collections' = Append(collections, c)
  <2>1. c \in Collection /\ c.base = f.base /\ c.art = NoBase BY <1>1 DEF Collection, Flow
  <2>2. Len(collections) + 1 \in Nat BY DEF IInv, Typed
  <2>3. PICK g \in Flow :
           /\ g = [f EXCEPT !.step = "mint", !.collection = Len(collections) + 1]
           /\ g.kind = f.kind /\ g.base = f.base /\ g.glb = f.glb /\ g.step = "mint"
           /\ g.registered = f.registered /\ g.collection = Len(collections) + 1
           /\ g.left = f.left
    <3> DEFINE h == [f EXCEPT !.step = "mint", !.collection = Len(collections) + 1]
    <3>1. /\ h \in Flow /\ h.kind = f.kind /\ h.base = f.base /\ h.glb = f.glb
          /\ h.step = "mint" /\ h.registered = f.registered
          /\ h.collection = Len(collections) + 1 /\ h.left = f.left
      BY <1>1, <2>2 DEF Flow
    <3>2. h = [f EXCEPT !.step = "mint", !.collection = Len(collections) + 1] OBVIOUS
    <3> HIDE DEF h
    <3>3. QED BY <3>1, <3>2
  <2>4. collections' = Append(collections, c) BY <1>4
  <2>5. Fail(f) \/ (Becomes(f, g) /\ Shows(f, "signing"))
    BY <1>4, <2>1, <2>3 DEF LaunchCap
  <2> HIDE DEF c
  <2>6. EncryptedForkIsOwnMesh' /\ collections' \in Seq(Collection)
    BY <2>1, <2>4, Launched DEF IInv, EncryptedForkIsOwnMesh
  <2>7. ChainKept BY <2>1, <2>4, Launched DEF IInv, ChainKept
  <2>8. CASE Fail(f)
    <3>1. "error" \in Phases /\ Ends(f) /\ Shows(f, "error") BY <2>8 DEF Fail, Phases
    <3>2. QED BY <1>2, <2>6, <2>7, <3>1, EndKeeps
  <2>9. CASE Becomes(f, g) /\ Shows(f, "signing")
    <3>1. FlowSound(g)'
      BY <1>1, <2>1, <2>3, <2>4, Launched DEF IInv, FlowSound, LaunchCap
    <3>2. phase' = phase \/ (Here(f) /\ phase' \in BusyPhases)
      BY <2>9 DEF Shows, BusyPhases
    <3>3. QED BY <1>2, <2>3, <2>6, <2>7, <2>9, <3>1, <3>2, GoOnKeeps
  <2>10. QED BY <2>5, <2>8, <2>9
<1>5. QED BY <1>3, <1>4 DEF LaunchCap

LEMMA MintTokensKeeps ==
    ASSUME IInv, NEW f \in flows, MintTokens(f)
    PROVE  IInv'
<1>1. /\ f \in Flow /\ FlowSound(f) /\ (Here(f) => f.base = base)
      /\ f.kind = "mint" /\ f.step = "mint"
  BY RunningFlow DEF MintTokens
<1>2. UNCHANGED <<base, baseGlb>> BY DEF MintTokens
<1>3. CASE UNCHANGED collections /\ Fail(f) BY <1>2, <1>3, FailKeeps
<1>4. CASE /\ collections' = [collections EXCEPT ![f.collection].art = f.glb,
                                                 ![f.collection].tokens = TRUE]
           /\ Fail(f) \/ (Ends(f) /\ Shows(f, "success"))
  <2>1. f.collection \in DOMAIN collections /\ collections[f.collection].base = f.base
        /\ f.glb = f.base /\ f.base \in Bases
    BY <1>1 DEF FlowSound, Flow
  <2>2. collections \in Seq(Collection) /\ collections[f.collection] \in Collection
    BY <2>1 DEF IInv, Typed
  <2> DEFINE c == [collections[f.collection] EXCEPT !.art = f.glb, !.tokens = TRUE]
  <2>3. c \in Collection /\ c.base = f.base /\ c.art = f.base /\ c.tokens
    BY <2>1, <2>2 DEF Collection
  <2>4. collections' = [collections EXCEPT ![f.collection] = c]
    BY <1>4, <2>1, <2>2
  <2> HIDE DEF c
  <2>5. /\ collections' \in Seq(Collection) /\ DOMAIN collections' = DOMAIN collections
        /\ collections'[f.collection] = c
        /\ \A i \in DOMAIN collections \ {f.collection} : collections'[i] = collections[i]
    BY <2>1, <2>2, <2>3, <2>4
  <2>6. EncryptedForkIsOwnMesh'
    BY <2>3, <2>5 DEF IInv, EncryptedForkIsOwnMesh
  <2>7. ChainKept BY <2>1, <2>3, <2>5 DEF ChainKept
  <2>8. Here(f) => SuccessIsMinted' BY <1>1, <1>2, <2>1, <2>3, <2>5 DEF SuccessIsMinted
  <2>9. PICK p \in {"error", "success"} : Ends(f) /\ Shows(f, p) BY <1>4 DEF Fail
  <2>10. p \in Phases BY DEF Phases
  <2>11. QED BY <1>2, <2>5, <2>6, <2>7, <2>8, <2>9, <2>10, EndKeeps
<1>5. QED BY <1>3, <1>4 DEF MintTokens

(* A handler left behind keeps what it goes by. *)
LEMMA LeaveKeeps ==
    ASSUME IInv, Leave
    PROVE  IInv'
<1>1. /\ phase' = "picking" /\ base' = NoBase /\ baseGlb' = NoBase /\ UNCHANGED collections
  BY DEF Leave, Mount
<1>2. ChainKept /\ EncryptedForkIsOwnMesh' /\ collections' \in Seq(Collection)
  BY <1>1, SameChain
<1>3. PageMesh' /\ SuccessIsMinted' BY <1>1 DEF PageMesh, SuccessIsMinted
<1>4. phase' \in Phases BY <1>1 DEF Phases
<1>5. CASE flows' = flows /\ ~\E f \in flows : Here(f)
  <2>1. Typed' BY <1>1, <1>2, <1>4, <1>5 DEF IInv, Typed
  <2>2. FlowsSound' BY <1>2, <1>5, StaysSound DEF IInv, FlowsSound
  <2>3. OneFlowAtATime' BY <1>5 DEF IInv, OneFlowAtATime, Here
  <2>4. QED BY <1>2, <1>3, <2>1, <2>2, <2>3 DEF IInv
<1>6. ASSUME NEW n \in 1..MaxLeft, \A f \in flows : f.left # n,
             flows' = {IF Here(f) THEN [f EXCEPT !.left = n] ELSE f : f \in flows}
      PROVE  IInv'
  <2>1. n # 0 /\ n \in 0..MaxLeft BY LaunchAssumption
  <2>2. ASSUME NEW h \in flows'
        PROVE  \E f \in flows :
                  /\ h = IF Here(f) THEN [f EXCEPT !.left = n] ELSE f
                  /\ f \in Flow /\ FlowSound(f)
                  /\ h \in Flow /\ h.left = IF Here(f) THEN n ELSE f.left
                  /\ h.kind = f.kind /\ h.base = f.base /\ h.glb = f.glb /\ h.step = f.step
                  /\ h.registered = f.registered /\ h.collection = f.collection
    <3>1. PICK f \in flows : h = IF Here(f) THEN [f EXCEPT !.left = n] ELSE f
      BY <1>6
    <3>2. f \in Flow /\ FlowSound(f) BY RunningFlow
    <3>3. /\ h \in Flow /\ h.left = IF Here(f) THEN n ELSE f.left
          /\ h.kind = f.kind /\ h.base = f.base /\ h.glb = f.glb /\ h.step = f.step
          /\ h.registered = f.registered /\ h.collection = f.collection
      BY <2>1, <3>1, <3>2 DEF Flow
    <3>4. QED BY <3>1, <3>2, <3>3
  <2>3. Typed' BY <1>1, <1>2, <1>4, <2>2 DEF Typed
  <2>4. FlowsSound' BY <1>1, <2>2 DEF FlowsSound, FlowSound
  <2>5. ASSUME NEW h \in flows', NEW k \in flows', h.left = k.left PROVE h = k
    <3>1. PICK f \in flows : /\ h = IF Here(f) THEN [f EXCEPT !.left = n] ELSE f
                             /\ h.left = IF Here(f) THEN n ELSE f.left
      BY <2>2
    <3>2. PICK g \in flows : /\ k = IF Here(g) THEN [g EXCEPT !.left = n] ELSE g
                             /\ k.left = IF Here(g) THEN n ELSE g.left
      BY <2>2
    <3>3. f.left # n /\ g.left # n BY <1>6
    <3>4. f.left = g.left BY <2>5, <3>1, <3>2, <3>3 DEF Here
    <3>5. f = g BY <3>4, RunningFlow
    <3>6. QED BY <3>1, <3>2, <3>5
  <2>6. \A h \in flows' : h.left # 0 BY <2>1, <2>2 DEF Here
  <2>7. OneFlowAtATime' BY <2>5, <2>6 DEF OneFlowAtATime, Here
  <2>8. QED BY <1>2, <1>3, <2>3, <2>4, <2>7 DEF IInv
<1>7. QED BY <1>5, <1>6 DEF Leave

(* Every step keeps the invariant. *)
LEMMA Step ==
    ASSUME IInv, [Next]_vars
    PROVE  IInv'
<1>1. CASE Click BY <1>1, ClickKeeps
<1>2. ASSUME NEW f \in flows, Ends(f), Shows(f, "editing-variants"),
             baseGlb' = IF Here(f) THEN f.base ELSE baseGlb, UNCHANGED <<base, collections>>
      PROVE  IInv'
  <2>1. baseGlb' \in {baseGlb, base} BY <1>2, RunningFlow
  <2>2. "editing-variants" \in Phases BY DEF Phases
  <2>3. ChainKept /\ EncryptedForkIsOwnMesh' /\ collections' \in Seq(Collection)
    BY <1>2, SameChain
  <2>4. QED BY <1>2, <2>1, <2>2, <2>3, EndKeeps
<1>3. ASSUME NEW f \in flows, FinishPick(f) \/ FinishUnlock(f) PROVE IInv'
  <2>1. UNCHANGED <<base, collections>> BY <1>3 DEF FinishPick, FinishUnlock
  <2>2. CASE Fail(f) /\ UNCHANGED baseGlb BY <2>1, <2>2, FailKeeps
  <2>3. CASE /\ Ends(f) /\ Shows(f, "editing-variants")
             /\ baseGlb' = IF Here(f) THEN f.base ELSE baseGlb
    BY <1>2, <2>1, <2>3
  <2>4. QED BY <1>3, <2>2, <2>3 DEF FinishPick, FinishUnlock, decryptEncryptedBase
<1>4. ASSUME NEW f \in flows, runBuildVariants(f) PROVE IInv'
  <2>1. UNCHANGED <<base, baseGlb, collections>> BY <1>4 DEF runBuildVariants
  <2>2. CASE Fail(f) BY <2>1, <2>2, FailKeeps
  <2>3. CASE Ends(f) /\ Shows(f, "editing-variants")
    <3>1. "editing-variants" \in Phases BY DEF Phases
    <3>2. ChainKept /\ EncryptedForkIsOwnMesh' /\ collections' \in Seq(Collection)
      BY <2>1, SameChain
    <3>3. QED BY <2>1, <2>3, <3>1, <3>2, EndKeeps
  <2>4. CASE Becomes(f, [f EXCEPT !.step = "register"]) /\ Shows(f, "uploading")
    <3>1. f \in Flow /\ FlowSound(f) BY RunningFlow
    <3>2. f.registered = 0 /\ f.failed \in 0..UploadAttempts
      BY <1>4, <3>1 DEF runBuildVariants, FlowSound, Flow
    <3>3. [f EXCEPT !.step = "register", !.registered = f.registered, !.failed = f.failed]
              = [f EXCEPT !.step = "register"]
      BY <3>1 DEF Flow
    <3>4. phase' = phase \/ (Here(f) /\ phase' \in BusyPhases)
      BY <2>4 DEF Shows, BusyPhases
    <3>5. Becomes(f, [f EXCEPT !.step = "register", !.registered = f.registered,
                               !.failed = f.failed])
      BY <2>4, <3>3
    <3>6. f.registered \in Nat /\ (f.registered <= IF "register" = "register" THEN 0 ELSE 1)
      BY <3>2
    <3>7. QED BY <2>1, <3>2, <3>4, <3>5, <3>6, AdvanceKeeps
  <2>5. QED BY <1>4, <2>2, <2>3, <2>4 DEF runBuildVariants
<1>5. ASSUME NEW f \in flows, Continue(f) PROVE IInv'
  BY <1>3, <1>4, <1>5, UploadKeeps, SignLaunchKeeps, LaunchCapKeeps, MintTokensKeeps
     DEF Continue
<1>6. CASE SignOut \/ SignInAgain \/ LoadOwnedEntitlements \/ UNCHANGED vars
  <2>1. UNCHANGED <<pageVars, flows, collections>>
    BY <1>6 DEF SignOut, SignInAgain, LoadOwnedEntitlements, vars
  <2>2. QED BY <2>1 DEF pageVars, IInv, Typed, PageMesh, FlowsSound, FlowSound,
                        OneFlowAtATime, Here, EncryptedForkIsOwnMesh, SuccessIsMinted
<1>7. CASE Reload
  BY <1>7 DEF Reload, Mount, IInv, Typed, Phases, PageMesh, FlowsSound, OneFlowAtATime,
              EncryptedForkIsOwnMesh, SuccessIsMinted
<1>8. CASE Leave BY <1>8, LeaveKeeps
<1>9. QED BY <1>1, <1>5, <1>6, <1>7, <1>8 DEF Next

LEMMA Start == Init => IInv
BY LaunchAssumption
   DEF Init, IInv, Typed, Phases, PageMesh, FlowsSound, OneFlowAtATime,
       EncryptedForkIsOwnMesh, SuccessIsMinted

(* The busy phases and launchingRef leave at most one handler of each visit  *)
(* to the page under way, that of the visit at hand for the base shown,      *)
(* however many handlers of visits that were left still run beside it.       *)
THEOREM HandlersExclude == Spec => []OneFlowAtATime
<1>1. IInv => OneFlowAtATime BY DEF IInv
<1>2. QED BY Start, Step, <1>1, PTL DEF Spec

(* An encrypted base is never forked with another base's mesh, although a    *)
(* base in the clear may be: onPickBase drops the mesh for the former only.  *)
THEOREM EncryptedForks == Spec => []EncryptedForkIsOwnMesh
<1>1. IInv => EncryptedForkIsOwnMesh BY DEF IInv
<1>2. QED BY Start, Step, <1>1, PTL DEF Spec

(* However often the relay fails, a run registers its storage once: the      *)
(* retry in uploadFiles repeats the relay's part alone.                      *)
THEOREM StorageIsPaidOnce == Spec => []StoragePaidOnce
<1>1. IInv => StoragePaidOnce
  BY DEF IInv, Typed, FlowsSound, FlowSound, Flow, StoragePaidOnce
<1>2. QED BY Start, Step, <1>1, PTL DEF Spec

(* The success banner stands for a collection on chain with its tokens.      *)
THEOREM SuccessOnChain == Spec => []SuccessIsMinted
<1>1. IInv => SuccessIsMinted BY DEF IInv
<1>2. QED BY Start, Step, <1>1, PTL DEF Spec

=============================================================================
