------------------------------- MODULE MintPage -------------------------------
(***************************************************************************)
(* The publish half of the create page (creator/CreateModelPage.tsx) with  *)
(* the upload captioner (useUploadCaption).  A model may be loaded, the    *)
(* source switched and the form edited while a mint or a description is    *)
(* under way.  The paid generation that loads a model is PaidGeneration;   *)
(* here it may land at any time.                                           *)
(*                                                                         *)
(* A model is the number of the load that put it on the page, 0 for none.  *)
(***************************************************************************)
EXTENDS Naturals

CONSTANTS
  Accounts, None,   \* sessions, and signed out
  MaxLoads          \* bound: models loaded

MintAssumption == MaxLoads \in Nat

VARIABLES
  session,
  glb, mode, generating,   \* the model, the source, a generation under way
  confirmed, labels,       \* "use this model"; the model the part labels name (0: not tagged)
  form,                    \* the policy; whether there is a name, an access fee above 0
  caption,                 \* the model a description is of, and the one it was asked for
  status, ask,             \* the captioner: its status, and its call, kept for a retry
  nudge,                   \* the model the no-caption panel is open for
  mintStatus, mints,       \* the button; the mints under way
  published                \* the last publication

model == <<glb, mode, generating, confirmed, labels>>
captioner == <<caption, status, ask>>
minting == <<mintStatus, mints, published>>
vars == <<session, model, form, captioner, nudge, minting>>

NoCaption == [of |-> 0, at |-> 0]
NoMint == [glb |-> 0]
NoAsk == [stage |-> "none", of |-> 0, at |-> 0, live |-> FALSE]

Init ==
  /\ session = None
  /\ glb = 0 /\ mode = "tripo" /\ generating = FALSE /\ confirmed = FALSE /\ labels = 0
  /\ form = [policy |-> "PERMISSIONLESS", named |-> FALSE, fee |-> FALSE]
  /\ caption = NoCaption /\ status = "idle" /\ ask = NoAsk
  /\ nudge = 0 /\ mintStatus = "idle" /\ mints = {} /\ published = NoMint

-----------------------------------------------------------------------------
(* The captioner's reset, and its effect on a new token: an answer still   *)
(* under way is nobody's.                                                  *)
Reset ==
  status' = "idle" /\ ask' = IF ask.stage = "failed" THEN NoAsk ELSE [ask EXCEPT !.live = FALSE]

SessionChanges(a) ==
  /\ a # session /\ session' = a /\ Reset
  /\ UNCHANGED <<model, form, caption, nudge, minting>>

(* The effect on [glb, sourceMode].                                        *)
ClearCaption == caption' = NoCaption /\ nudge' = 0 /\ Reset

SetMode ==
  /\ session # None
  /\ mode' \in {"tripo", "upload"} \ {mode} /\ ClearCaption
  /\ UNCHANGED <<session, glb, generating, confirmed, labels, form, minting>>

setGlbBytes ==
  /\ glb < MaxLoads /\ glb' = glb + 1
  /\ confirmed' = FALSE /\ labels' = 0 /\ mintStatus' = "idle"
  /\ ClearCaption

Upload ==
  /\ session # None /\ mode = "upload" /\ setGlbBytes
  /\ form' = [form EXCEPT !.named = TRUE]
  /\ UNCHANGED <<session, mode, generating, mints, published>>

Generate ==
  /\ session # None /\ mode = "tripo" /\ ~generating /\ generating' = TRUE
  /\ UNCHANGED <<session, glb, mode, confirmed, labels, form, captioner, nudge, minting>>

(* The generation lands, in whichever mode the page is by then, or fails.  *)
Generated ==
  /\ generating /\ generating' = FALSE
  /\ \/ setGlbBytes /\ UNCHANGED <<mints, published>>
     \/ UNCHANGED <<glb, confirmed, labels, captioner, nudge, minting>>
  /\ UNCHANGED <<session, mode, form>>

(* TaggingStep is mounted anew for every model.                            *)
ConfirmOrTag ==
  /\ session # None /\ glb # 0 /\ labels = 0
  /\ IF mode = "tripo" /\ ~confirmed
     THEN confirmed' = TRUE /\ UNCHANGED labels
     ELSE ~(generating /\ mode = "tripo") /\ labels' = glb /\ UNCHANGED confirmed
  /\ UNCHANGED <<session, glb, mode, generating, form, captioner, nudge, minting>>

onPolicyChange(p) == form' = [form EXCEPT !.policy = p, !.fee = @ /\ p = "ALLOW_LIST"]

EditForm ==
  /\ session # None /\ labels # 0
  /\ \/ \E p \in {"PERMISSIONLESS", "ALLOW_LIST", "RESTRICTED"} : onPolicyChange(p)
     \/ \E b \in BOOLEAN : form' = [form EXCEPT !.named = b]
     \/ \E b \in BOOLEAN : form.policy = "ALLOW_LIST" /\ form' = [form EXCEPT !.fee = b]
  /\ UNCHANGED <<session, model, captioner, nudge, minting>>

-----------------------------------------------------------------------------
(* A description.  onDescribe awaits the capture of the preview's frames   *)
(* before the captioner sends them; its guard spans both.                  *)
CaptionShown == session # None /\ mode = "upload" /\ glb # 0

TypeCaption ==
  /\ CaptionShown /\ status # "thinking"
  /\ caption' \in {NoCaption, [of |-> glb, at |-> glb]}
  /\ UNCHANGED <<session, model, form, status, ask, nudge, minting>>

onDescribe ==
  /\ CaptionShown /\ status \notin {"thinking", "quota", "unavailable"}
  /\ ask.stage \in {"none", "failed"}
  /\ ask' = [NoAsk EXCEPT !.stage = "capturing", !.of = glb]
  /\ UNCHANGED <<session, model, form, caption, status, nudge, minting>>

Send(frames) ==
  IF session = None THEN ask' = NoAsk /\ UNCHANGED status
  ELSE /\ ask' = [stage |-> "sent", of |-> frames, at |-> glb, live |-> TRUE]
       /\ status' = "thinking"

(* The frames are of the model the preview showed, before or after a load. *)
Captured ==
  /\ ask.stage = "capturing"
  /\ \/ \E frames \in {ask.of, glb} : Send(frames)
     \/ ask' = NoAsk /\ UNCHANGED status
  /\ UNCHANGED <<session, model, form, caption, nudge, minting>>

onRetryDescribe ==
  /\ CaptionShown /\ status = "error" /\ ask.stage = "failed" /\ Send(ask.of)
  /\ UNCHANGED <<session, model, form, caption, nudge, minting>>

Stale == ~ask.live

Answered ==
  /\ ask.stage = "sent"
  /\ \/ Stale /\ ask' = NoAsk /\ UNCHANGED <<caption, status>>
     \/ /\ ~Stale /\ ask' = NoAsk
        /\ status' = "done" /\ caption' = [of |-> ask.of, at |-> ask.at]
     \/ ~Stale /\ ask' = NoAsk /\ status' \in {"quota", "unavailable"} /\ UNCHANGED caption
     \/ /\ ~Stale /\ ask' = [NoAsk EXCEPT !.stage = "failed", !.of = ask.of]
        /\ status' = "error" /\ UNCHANGED caption
  /\ UNCHANGED <<session, model, form, nudge, minting>>

QuotaRecovers ==
  /\ status = "quota" /\ status' = "idle"
  /\ UNCHANGED <<session, model, form, caption, ask, nudge, minting>>

-----------------------------------------------------------------------------
(* A mint works on what its click closed over.                             *)
Missing == ~form.named \/ (form.policy = "ALLOW_LIST" /\ ~form.fee)

MintFree_faulty == TRUE
MintFree == mints = {}

proceedMint ==
  IF Missing \/ ~MintFree THEN UNCHANGED minting
  ELSE /\ mintStatus' = "uploading" /\ UNCHANGED published
       /\ mints' = mints \cup
            {[glb |-> glb, labels |-> labels, form |-> form,
              caption |-> IF mode = "upload" THEN caption ELSE NoCaption,
              stage |-> IF form.policy = "ALLOW_LIST" THEN "stills" ELSE "uploading"]}

FormShown == session # None /\ glb # 0 /\ labels # 0

onMint ==
  /\ FormShown /\ nudge = 0 /\ mintStatus \in {"idle", "error"} /\ ~Missing
  /\ IF mode = "upload" /\ caption = NoCaption
     THEN nudge' = glb /\ UNCHANGED minting
     ELSE proceedMint /\ UNCHANGED nudge
  /\ UNCHANGED <<session, model, form, captioner>>

PublishAnyway ==
  /\ FormShown /\ nudge # 0 /\ nudge' = 0 /\ proceedMint
  /\ UNCHANGED <<session, model, form, captioner>>

GoBack ==
  /\ FormShown /\ nudge # 0 /\ nudge' = 0
  /\ UNCHANGED <<session, model, form, captioner, minting>>

(* Preview stills are captured before an upload that sells access.         *)
MintStep(m) ==
  /\ m \in mints
  /\ \/ /\ m.stage = "stills" /\ UNCHANGED <<mintStatus, published>>
        /\ mints' = (mints \ {m}) \cup {[m EXCEPT !.stage = "uploading"]}
     \/ /\ m.stage = "uploading" /\ mintStatus' = "signing" /\ UNCHANGED published
        /\ mints' = (mints \ {m}) \cup {[m EXCEPT !.stage = "signing"]}
     \/ /\ m.stage = "signing" /\ mintStatus' = "success" /\ mints' = mints \ {m}
        /\ published' = m
     \/ mintStatus' = "error" /\ mints' = mints \ {m} /\ UNCHANGED published
  /\ UNCHANGED <<session, model, form, captioner, nudge>>

Next ==
  \/ \E a \in Accounts \cup {None} : SessionChanges(a)
  \/ SetMode \/ Upload \/ Generate \/ Generated \/ ConfirmOrTag \/ EditForm
  \/ TypeCaption \/ onDescribe \/ Captured \/ onRetryDescribe \/ Answered \/ QuotaRecovers
  \/ onMint \/ PublishAnyway \/ GoBack
  \/ \E m \in mints : MintStep(m)

Spec == Init /\ [][Next]_vars

-----------------------------------------------------------------------------
Captions == [of : 0..MaxLoads, at : 0..MaxLoads]
Forms == [policy : {"PERMISSIONLESS", "ALLOW_LIST", "RESTRICTED"}, named : BOOLEAN, fee : BOOLEAN]

TypeOK ==
  /\ session \in Accounts \cup {None} /\ mode \in {"tripo", "upload"}
  /\ {glb, labels, nudge} \subseteq 0..MaxLoads /\ {generating, confirmed} \subseteq BOOLEAN
  /\ form \in Forms /\ caption \in Captions
  /\ status \in {"idle", "thinking", "done", "error", "quota", "unavailable"}
  /\ ask \in [stage : {"none", "capturing", "sent", "failed"}, of : 0..MaxLoads, at : 0..MaxLoads,
              live : BOOLEAN]
  /\ mintStatus \in {"idle", "uploading", "signing", "success", "error"}
  /\ \A m \in mints \cup ({published} \ {NoMint}) : m.form \in Forms /\ m.caption \in Captions

(* A description on the page was typed, or asked for, while this model was *)
(* loaded, and "Publish anyway" publishes the model its warning was about: *)
(* the answer to an earlier request, and an earlier warning, are dropped.  *)
WordsAreForThisModel ==
  /\ caption # NoCaption => caption.at = glb
  /\ nudge \in {0, glb}

(* However the form was edited and the model replaced around the click, one*)
(* mint runs at a time, and a publication carries the part labels of its   *)
(* own mesh, a name, and an access fee exactly when its policy sells access.*)
MintsAreWhole ==
  /\ \A m1, m2 \in mints : m1 = m2
  /\ published # NoMint =>
       /\ published.labels = published.glb
       /\ published.form.named
       /\ published.form.fee = (published.form.policy = "ALLOW_LIST")

(* CreateModelPage.tsx:728: the description is cleared "so a stale caption *)
(* can't ride onto the next mint's params_json".                           *)
CaptionDescribesMesh ==
  published # NoMint /\ published.caption # NoCaption => published.caption.of = published.glb
=============================================================================
