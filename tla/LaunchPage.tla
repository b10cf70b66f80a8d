----------------------------- MODULE LaunchPage -----------------------------
(***************************************************************************)
(* The launch page: a signed-in wallet picks a base, unlocks it if it is   *)
(* encrypted, bakes variants of its mesh, stores them on Walrus and        *)
(* launches a collection.  A base published in the clear is launched with  *)
(* its tokens in one transaction; an encrypted one needs two, the launch   *)
(* that charges the derive fee and the mint.                               *)
(*                                                                         *)
(* A mesh is named by the base it came from.  Palettes, names, fees and    *)
(* batch progress are left out.  React handles one click at a time and     *)
(* renders before the next one; the continuation of an await is a step of  *)
(* its own.                                                                *)
(***************************************************************************)
EXTENDS Naturals, Sequences, FiniteSets

CONSTANTS
    Bases,           \* the forkable bases
    Encrypted,       \* those published under ALLOW_LIST
    Own,             \* those the wallet published
    Entitled,        \* those the wallet bought access to
    NoBase,          \* no base picked, no mesh loaded, no art
    UploadAttempts,  \* attempts of the relay upload
    MaxCollections,  \* bound: launch transactions the wallet executes
    MaxLeft          \* bound: handlers of visits the user has left, under way at once

ASSUME LaunchAssumption ==
    /\ Encrypted \subseteq Bases /\ Own \subseteq Bases /\ Entitled \subseteq Encrypted
    /\ NoBase \notin Bases
    /\ UploadAttempts \in Nat \ {0}
    /\ MaxLeft \in Nat

Phases == {"picking", "downloading-base", "editing-variants", "building-variants", "uploading",
           "signing", "launching-cap", "decrypting", "success", "error"}

VARIABLES
    session,      \* signed in
    owned,        \* bases whose entitlement the page has loaded
    phase,
    base,         \* the picked base
    baseGlb,      \* the base whose mesh the page holds
    unlocked,     \* the gate that released the mesh: "none", "entitlement" or "creator"
    variantGlbs,  \* the base the variants shown were baked from
    flows,        \* handlers that await something, of this visit and of those left
    collections   \* on chain: what this wallet launched, in order

pageVars == <<phase, base, baseGlb, unlocked, variantGlbs>>
vars == <<session, owned, pageVars, flows, collections>>

(* A handler keeps the base and the mesh it was called with.  registered     *)
(* counts the storage payments of the run, failed the uploads that failed;   *)
(* left is 0 for a handler of the page that is mounted, and the number of    *)
(* the visit it belongs to for one whose page is gone.                       *)
Flow == [kind : {"pick", "preview", "unlock", "launch", "mint"}, base : Bases,
         glb : Bases \cup {NoBase}, step : {"start", "register", "relay", "certify", "charge", "mint"},
         registered : Nat, failed : 0..UploadAttempts, collection : Nat, left : 0..MaxLeft]

(* art is the base whose mesh the tokens' art was baked from. *)
Collection == [base : Bases, art : Bases \cup {NoBase}, tokens : BOOLEAN]

TypeOK ==
    /\ session \in BOOLEAN
    /\ owned \subseteq Entitled
    /\ phase \in Phases
    /\ base \in Bases \cup {NoBase}
    /\ baseGlb \in Bases \cup {NoBase}
    /\ unlocked \in {"none", "entitlement", "creator"}
    /\ variantGlbs \in Bases \cup {NoBase}
    /\ flows \subseteq Flow
    /\ \A f \in flows : f.collection \in 0..Len(collections)
    /\ collections \in Seq(Collection)

Init ==
    /\ session = TRUE
    /\ owned = {}
    /\ phase = "picking"
    /\ base = NoBase
    /\ baseGlb = NoBase
    /\ unlocked = "none"
    /\ variantGlbs = NoBase
    /\ flows = {}
    /\ collections = <<>>

NewFlow(kind) == [kind |-> kind, base |-> base, glb |-> baseGlb, step |-> "start",
                  registered |-> 0, failed |-> 0, collection |-> 0, left |-> 0]

(* Faulty variant of BusyPhases: the phase added with the encrypted mint is  *)
(* missing.                                                                  *)
BusyPhasesBeforeCap ==
    {"downloading-base", "building-variants", "uploading", "signing", "decrypting"}

BusyPhases ==
    {"downloading-base", "building-variants", "uploading", "signing", "launching-cap", "decrypting"}

(* Every control of the page is disabled while it is busy, and shown only to *)
(* a signed-in user.                                                         *)
Clickable == session /\ phase \notin BusyPhases

Here(f) == f.left = 0

(* launchingRef: taken by the three handlers that sign.  Each visit has a    *)
(* ref of its own.                                                           *)
launching == \E f \in flows : Here(f) /\ f.kind \in {"unlock", "launch", "mint"}

isLaunchable(m) == m \notin Encrypted \/ m \in owned \/ m \in Own

(* A card to pick; the base of another creator without an entitlement is     *)
(* shown locked.                                                             *)
Offered(m) == Clickable /\ isLaunchable(m)

needsUnlock == base \in Encrypted /\ unlocked = "none"

(* The handler f goes on as g. *)
Becomes(f, g) == flows' = (flows \ {f}) \cup {g}
Ends(f) == flows' = flows \ {f}

(* The handler f sets the phase: of its own page, if that is still there. *)
Shows(f, p) == phase' = IF Here(f) THEN p ELSE phase

Fail(f) ==
    /\ Ends(f)
    /\ Shows(f, "error")

-----------------------------------------------------------------------------
(* Picking a base.                                                           *)

(* Faulty variant of PickBase: nothing of the previous base is reset. *)
PickBaseKeeping(m) ==
    /\ Offered(m)
    /\ base' = m
    /\ variantGlbs' = NoBase
    /\ IF m \in Encrypted
       THEN phase' = "editing-variants" /\ UNCHANGED flows
       ELSE /\ phase' = "downloading-base"
            /\ flows' = flows \cup {[NewFlow("pick") EXCEPT !.base = m]}
    /\ UNCHANGED <<session, owned, baseGlb, unlocked, collections>>

(* The mesh of an encrypted base is dropped at once; that of a base in the   *)
(* clear is replaced when the download succeeds.                             *)
PickBase(m) ==
    /\ Offered(m)
    /\ base' = m
    /\ variantGlbs' = NoBase
    /\ unlocked' = "none"
    /\ IF m \in Encrypted
       THEN phase' = "editing-variants" /\ baseGlb' = NoBase /\ UNCHANGED flows
       ELSE /\ phase' = "downloading-base"
            /\ flows' = flows \cup {[NewFlow("pick") EXCEPT !.base = m]}
            /\ UNCHANGED baseGlb
    /\ UNCHANGED <<session, owned, collections>>

FinishPick(f) ==
    /\ f.kind = "pick"
    /\ \/ /\ Ends(f)
          /\ baseGlb' = IF Here(f) THEN f.base ELSE baseGlb
          /\ Shows(f, "editing-variants")
       \/ Fail(f) /\ UNCHANGED baseGlb
    /\ UNCHANGED <<session, owned, base, unlocked, variantGlbs, collections>>

-----------------------------------------------------------------------------
(* Unlocking an encrypted base: the free decrypt through one of the gates.   *)

onUnlock ==
    /\ Clickable
    /\ ~launching
    /\ needsUnlock
    /\ IF base \in Own \cup owned
       THEN flows' = flows \cup {NewFlow("unlock")} /\ phase' = "decrypting"
       ELSE UNCHANGED flows /\ phase' = "error"
    /\ UNCHANGED <<session, owned, base, baseGlb, unlocked, variantGlbs, collections>>

(* The mesh of the base, released through the gate its wallet may use. *)
decryptEncryptedBase(m) ==
    /\ baseGlb' = m
    /\ unlocked' = IF m \in Own THEN "creator" ELSE "entitlement"

FinishUnlock(f) ==
    /\ f.kind = "unlock"
    /\ \/ /\ Ends(f)
          /\ IF Here(f) THEN decryptEncryptedBase(f.base) ELSE UNCHANGED <<baseGlb, unlocked>>
          /\ Shows(f, "editing-variants")
       \/ Fail(f) /\ UNCHANGED <<baseGlb, unlocked>>
    /\ UNCHANGED <<session, owned, base, variantGlbs, collections>>

-----------------------------------------------------------------------------
(* Baking (runBuildVariants), shared by the preview and both launches.       *)

onPreview ==
    /\ Clickable
    /\ base # NoBase /\ ~needsUnlock /\ baseGlb # NoBase
    /\ flows' = flows \cup {NewFlow("preview")}
    /\ phase' = "building-variants"
    /\ UNCHANGED <<session, owned, base, baseGlb, unlocked, variantGlbs, collections>>

onLaunch ==
    /\ Clickable
    /\ ~launching
    /\ base # NoBase /\ base \notin Encrypted /\ baseGlb # NoBase
    /\ flows' = flows \cup {NewFlow("launch")}
    /\ phase' = "building-variants"
    /\ UNCHANGED <<session, owned, base, baseGlb, unlocked, variantGlbs, collections>>

onMintEncrypted ==
    /\ Clickable
    /\ ~launching
    /\ base \in Encrypted /\ ~needsUnlock /\ baseGlb # NoBase
    /\ flows' = flows \cup {NewFlow("mint")}
    /\ phase' = "building-variants"
    /\ UNCHANGED <<session, owned, base, baseGlb, unlocked, variantGlbs, collections>>

(* The backend refuses a mesh whose parts do not fit the palette, and a 401  *)
(* ends the session.                                                         *)
runBuildVariants(f) ==
    /\ f.kind \in {"preview", "launch", "mint"} /\ f.step = "start"
    /\ \/ /\ variantGlbs' = IF Here(f) THEN f.glb ELSE variantGlbs
          /\ IF f.kind = "preview"
             THEN Ends(f) /\ Shows(f, "editing-variants")
             ELSE Becomes(f, [f EXCEPT !.step = "register"]) /\ Shows(f, "uploading")
          /\ UNCHANGED <<session, owned>>
       \/ /\ Fail(f)
          /\ \/ UNCHANGED <<session, owned>>
             \/ session' = FALSE /\ owned' = {}
          /\ UNCHANGED variantGlbs
    /\ UNCHANGED <<base, baseGlb, unlocked, collections>>

-----------------------------------------------------------------------------
(* Storing the variants (uploadFiles): one quilt, registered and certified   *)
(* by the wallet, uploaded through the relay in between.                     *)

Register(f) ==
    /\ f.step = "register"
    /\ \/ Becomes(f, [f EXCEPT !.step = "relay", !.registered = @ + 1]) /\ UNCHANGED phase
       \/ Fail(f)
    /\ UNCHANGED <<session, owned, base, baseGlb, unlocked, variantGlbs, collections>>

(* Faulty variant of Relay: the whole flow is retried, not the upload. *)
RelayFromRegister(f) ==
    /\ f.step = "relay"
    /\ \/ Becomes(f, [f EXCEPT !.step = "certify"]) /\ UNCHANGED phase
       \/ /\ f.failed + 1 < UploadAttempts
          /\ Becomes(f, [f EXCEPT !.step = "register", !.failed = @ + 1])
          /\ UNCHANGED phase
       \/ Fail(f)
    /\ UNCHANGED <<session, owned, base, baseGlb, unlocked, variantGlbs, collections>>

(* Faulty variant of Relay: a timeout is retried for ever. *)
RelayUnbounded(f) ==
    /\ f.step = "relay"
    /\ \/ Becomes(f, [f EXCEPT !.step = "certify"]) /\ UNCHANGED phase
       \/ Becomes(f, [f EXCEPT !.failed = @ + 1]) /\ UNCHANGED phase
       \/ Fail(f)
    /\ UNCHANGED <<session, owned, base, baseGlb, unlocked, variantGlbs, collections>>

(* A timeout is retried under the same registration, anything else fails. *)
Relay(f) ==
    /\ f.step = "relay"
    /\ \/ Becomes(f, [f EXCEPT !.step = "certify"]) /\ UNCHANGED phase
       \/ /\ f.failed + 1 < UploadAttempts
          /\ Becomes(f, [f EXCEPT !.failed = @ + 1])
          /\ UNCHANGED phase
       \/ Fail(f)
    /\ UNCHANGED <<session, owned, base, baseGlb, unlocked, variantGlbs, collections>>

Certify(f) ==
    /\ f.step = "certify"
    /\ \/ /\ Becomes(f, [f EXCEPT !.step = "charge"])
          /\ Shows(f, IF f.kind = "launch" THEN "signing" ELSE "launching-cap")
       \/ Fail(f)
    /\ UNCHANGED <<session, owned, base, baseGlb, unlocked, variantGlbs, collections>>

-----------------------------------------------------------------------------
(* The transactions.  One that is rejected or fails on chain changes nothing *)
(* there; one that is executed may still reach the page as an error.         *)

Room == Len(collections) < MaxCollections

(* launch_collection_with_tokens: the fee, the collection and its tokens. *)
SignLaunch(f) ==
    /\ f.kind = "launch" /\ f.step = "charge"
    /\ \/ /\ Room
          /\ collections' = Append(collections, [base |-> f.base, art |-> f.glb, tokens |-> TRUE])
          /\ \/ Ends(f) /\ Shows(f, "success")
             \/ Fail(f)
       \/ UNCHANGED collections /\ Fail(f)
    /\ UNCHANGED <<session, owned, base, baseGlb, unlocked, variantGlbs>>

(* launchEncryptedCollection: the fee and an empty collection, whose ids are *)
(* read back from the transaction's effects.                                 *)
LaunchCap(f) ==
    /\ f.kind = "mint" /\ f.step = "charge"
    /\ \/ /\ Room
          /\ collections' = Append(collections, [base |-> f.base, art |-> NoBase, tokens |-> FALSE])
          /\ \/ /\ Becomes(f, [f EXCEPT !.step = "mint", !.collection = Len(collections) + 1])
                /\ Shows(f, "signing")
             \/ Fail(f)
       \/ UNCHANGED collections /\ Fail(f)
    /\ UNCHANGED <<session, owned, base, baseGlb, unlocked, variantGlbs>>

(* mint_tokens sets the quilt and mints the tokens. *)
MintTokens(f) ==
    /\ f.kind = "mint" /\ f.step = "mint"
    /\ \/ /\ collections' = [collections EXCEPT ![f.collection].art = f.glb,
                                                ![f.collection].tokens = TRUE]
          /\ \/ Ends(f) /\ Shows(f, "success")
             \/ Fail(f)
       \/ UNCHANGED collections /\ Fail(f)
    /\ UNCHANGED <<session, owned, base, baseGlb, unlocked, variantGlbs>>

-----------------------------------------------------------------------------
(* The rest of the application.                                              *)

SignOut ==
    /\ session
    /\ session' = FALSE
    /\ owned' = {}
    /\ UNCHANGED <<pageVars, flows, collections>>

SignInAgain ==
    /\ ~session
    /\ session' = TRUE
    /\ UNCHANGED <<owned, pageVars, flows, collections>>

LoadOwnedEntitlements ==
    /\ session
    /\ owned' = Entitled
    /\ UNCHANGED <<session, pageVars, flows, collections>>

(* A page mounted afresh, with hooks and a launchingRef of its own. *)
Mount ==
    /\ phase' = "picking"
    /\ base' = NoBase
    /\ baseGlb' = NoBase
    /\ unlocked' = "none"
    /\ variantGlbs' = NoBase
    /\ owned' = {}
    /\ UNCHANGED <<session, collections>>

(* The user goes to another page of the application and comes back.  Nothing *)
(* cancels the handler of the page that is left: it goes on to its next      *)
(* wallet popup and its next transaction.                                    *)
Leave ==
    /\ Mount
    /\ \/ UNCHANGED flows /\ ~\E f \in flows : Here(f)
       \/ \E n \in 1..MaxLeft :
             /\ \A f \in flows : f.left # n
             /\ flows' = {IF Here(f) THEN [f EXCEPT !.left = n] ELSE f : f \in flows}

(* A reload of the tab ends every handler; what they executed stays on       *)
(* chain.                                                                    *)
Reload ==
    /\ Mount
    /\ flows' = {}

Click ==
    \/ \E m \in Bases : PickBase(m)
    \/ onUnlock \/ onPreview \/ onLaunch \/ onMintEncrypted

Continue(f) ==
    \/ FinishPick(f) \/ FinishUnlock(f) \/ runBuildVariants(f)
    \/ Register(f) \/ Relay(f) \/ Certify(f)
    \/ SignLaunch(f) \/ LaunchCap(f) \/ MintTokens(f)

Next ==
    \/ Click
    \/ \E f \in flows : Continue(f)
    \/ SignOut \/ SignInAgain \/ LoadOwnedEntitlements \/ Leave \/ Reload

Spec == Init /\ [][Next]_vars

-----------------------------------------------------------------------------
(* Properties.                                                               *)

(* One handler at a time in a visit to the page, for the base the page       *)
(* shows: the busy phases cover every await, so no click starts a second     *)
(* handler, picks another base or opens a second wallet popup while one of   *)
(* this visit runs, also when the user signs out and in again meanwhile, and *)
(* a handler of a visit that was left never moves the page.  launchingRef    *)
(* does not outlive the visit, so that handler may run beside the one here.  *)
OneFlowAtATime ==
    /\ \A f, g \in flows : f.left = g.left => f = g
    /\ \A f \in flows : Here(f) => phase \in BusyPhases /\ f.base = base

(* The encrypted fork (onMintEncrypted) mints the mesh its wallet unlocked:  *)
(* no mesh of another base ends up in a collection of an encrypted base,     *)
(* whichever bases were picked, unlocked and baked before.                   *)
EncryptedForkIsOwnMesh ==
    \A i \in DOMAIN collections :
        collections[i].base \in Encrypted => collections[i].art \in {NoBase, collections[i].base}

(* retryAsync repeats the relay upload only: one run of the launch pays for  *)
(* storage once, however often the relay times out.                          *)
StoragePaidOnce == \A f \in flows : f.registered <= 1

(* The page reports success only for a collection that exists, of the base   *)
(* it shows, with its tokens minted.                                         *)
SuccessIsMinted ==
    phase = "success" =>
        \E i \in DOMAIN collections : collections[i].base = base /\ collections[i].tokens

(* What LaunchCollectionPage says of a pick: the base and its mesh change    *)
(* together, the previous base's mesh does not leak into the new session.    *)
(* So a collection's art is baked from the mesh of the base it forks.        *)
ForkIsBakedFromItsBase ==
    \A i \in DOMAIN collections : collections[i].art \in {NoBase, collections[i].base}

(* What LaunchCollectionPage says of the mint of an encrypted fork: its one  *)
(* charge is idempotent.  A wallet has at most one collection of a base that *)
(* it paid for and did not get the tokens of.                                *)
ChargedOnce ==
    \A i, k \in DOMAIN collections :
        (/\ collections[i].base = collections[k].base
         /\ ~collections[i].tokens /\ ~collections[k].tokens)
            => i = k

=============================================================================
