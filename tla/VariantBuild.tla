---------------------------- MODULE VariantBuild ----------------------------
(***************************************************************************)
(* Baking the variants of a base: the launch page turns palettes by label  *)
(* into colours by part (runBuildVariants), the backend checks the caller  *)
(* and paints the materials of the mesh (routes/collection,                *)
(* gltf-material-swap), by name where it can and by position else.         *)
(*                                                                         *)
(* The file lists its materials in one order and the browser its parts in  *)
(* another, which tagging fixed on the chain: base.parts maps each part to *)
(* the material it shows.  The palette of variant v gives the label l the  *)
(* colour <<v, l>>; textures go where colours go and are left out.         *)
(***************************************************************************)
EXTENDS Naturals, Sequences, FiniteSets

CONSTANTS
  Bases,        \* [materials |-> names in the file, parts |-> material of each part,
                \*  labels |-> of the parts, as published]
  Unnamed,      \* a material without a name, a part without a material
  Variants,     \* number of variants the editor holds
  Incomplete,   \* labels a palette of the editor may lack
  OtherSpecs    \* colours by part that another client of the route sends

(* A material that keeps its own colour.                                   *)
Kept == <<0, "baked">>

(* A part shows a material of the file, or none; no caller sends for a     *)
(* colour what stands for none.                                            *)
IsList(s) == s \in Seq({s[k] : k \in DOMAIN s})
BakeAssumption ==
  /\ \A b \in Bases : IsList(b.materials) /\ IsList(b.labels) /\ b.parts \in Seq(0..Len(b.materials))
  /\ \A s \in OtherSpecs : IsList(s) /\ \A k \in DOMAIN s : s[k].color # Kept
  /\ Variants \in Nat

VARIABLES
  base, token,  \* token: "valid", "expired" or "none"
  caps,         \* chain: <<owner, collection>> of the caps of base's collections
  step, names, request, answer, glbs

vars == <<base, token, caps, step, names, request, answer, glbs>>

NoRequest == [from |-> "nobody", variants |-> <<>>, lacks |-> {}, encryptedBase |-> FALSE]
Gray == <<0, "gray">>

-----------------------------------------------------------------------------
(* The page.                                                               *)

(* extractMaterialNames: the name of each part's material.                 *)
NamesOf(b) == [k \in DOMAIN b.parts |-> IF b.parts[k] = 0 THEN Unnamed ELSE b.materials[b.parts[k]]]

allNamesUniqueNonEmpty(s) ==
  /\ \A k \in DOMAIN s : s[k] # Unnamed
  /\ Cardinality({s[k] : k \in DOMAIN s}) = Len(s)

nameKeyingApplies ==
  base.labels # <<>> /\ Len(names) = Len(base.labels) /\ allNamesUniqueNonEmpty(names)

PartColors(v, lacks) ==
  IF base.labels = <<>> THEN <<[color |-> <<v, "primary">>, name |-> Unnamed]>>
  ELSE [k \in DOMAIN base.labels |->
         [color |-> IF base.labels[k] \in lacks THEN Gray ELSE <<v, base.labels[k]>>,
          name |-> IF nameKeyingApplies THEN names[k] ELSE Unnamed]]

-----------------------------------------------------------------------------
(* The backend.                                                            *)

(* Faulty: by position whatever the names.                                 *)
nameKeyed_faulty(spec) == FALSE
nameKeyed(spec) == spec # <<>> /\ \A k \in DOMAIN spec : spec[k].name # Unnamed
Named(b, n) == {m \in DOMAIN b.materials : b.materials[m] = n}

LastEntryFor(b, spec, m) ==
  CHOOSE k \in DOMAIN spec : /\ spec[k].name = b.materials[m]
                             /\ \A j \in DOMAIN spec : spec[j].name = b.materials[m] => j <= k

(* The refusal of the first entry that cannot be resolved, or "ok".        *)
KeyError(b, spec) ==
  LET bad == {k \in DOMAIN spec : Cardinality(Named(b, spec[k].name)) # 1} IN
  IF bad = {} THEN "ok"
  ELSE LET first == CHOOSE k \in bad : \A j \in bad : k <= j IN
       IF Named(b, spec[first].name) = {} THEN "material_name_not_found" ELSE "ambiguous_material_name"

SwapError(b, spec) ==
  CASE b.materials = <<>> -> "no_material_in_base_glb"
    [] b.materials # <<>> /\ nameKeyed(spec) -> KeyError(b, spec)
    [] OTHER -> IF Len(spec) = Len(b.materials) THEN "ok" ELSE "part_count_mismatch"

(* Each material's colour, or Kept.                                        *)
swapMaterial(b, spec) ==
  [m \in DOMAIN b.materials |->
    IF ~nameKeyed(spec) THEN spec[m].color
    ELSE IF \E k \in DOMAIN spec : spec[k].name = b.materials[m]
         THEN spec[LastEntryFor(b, spec, m)].color ELSE Kept]

-----------------------------------------------------------------------------
Init ==
  /\ base \in Bases /\ token = "valid"
  /\ caps \in {{}, {<<"me", "mine">>}, {<<"other", "mine">>, <<"me", "theirs">>}}
  /\ step = "idle" /\ names = <<>> /\ request = NoRequest /\ answer = "none" /\ glbs = <<>>

Expire == token = "valid" /\ token' = "expired" /\ UNCHANGED <<base, caps, step, names, request, answer, glbs>>
SignIn == token # "valid" /\ token' = "valid" /\ UNCHANGED <<base, caps, step, names, request, answer, glbs>>

(* A bake begins with the names of the parts; a mesh the headless engine   *)
(* cannot parse has none.                                                  *)
runBuildVariants ==
  /\ step = "idle" /\ token # "none"
  /\ names' \in {NamesOf(base), <<>>}
  /\ step' = "names" /\ answer' = "none"
  /\ UNCHANGED <<base, token, caps, request, glbs>>

Post ==
  /\ step = "names" /\ step' = "sent"
  /\ \E lacks \in SUBSET Incomplete :
       request' = [from |-> "page", variants |-> [v \in 1..Variants |-> PartColors(v, lacks)],
                   lacks |-> lacks, encryptedBase |-> FALSE]
  /\ UNCHANGED <<base, token, caps, names, answer, glbs>>

(* Any other caller of the route, the base in the clear or encrypted.      *)
OtherPosts ==
  /\ step = "idle" /\ token # "none" /\ step' = "sent" /\ answer' = "none"
  /\ \E s \in OtherSpecs, e \in BOOLEAN :
       request' = [from |-> "other", variants |-> <<s>>, lacks |-> {}, encryptedBase |-> e]
  /\ UNCHANGED <<base, token, caps, names, glbs>>

Reply(a) == step' = "answered" /\ answer' = a /\ UNCHANGED <<base, token, caps, names, request, glbs>>

(* Too large a body is refused before the token is looked at, a malformed  *)
(* one after.                                                              *)
Refuse ==
  /\ step = "sent"
  /\ \/ Reply("payload_too_large") \/ Reply("auth_unavailable")
     \/ token = "expired" /\ Reply("auth_invalid")
     \/ token = "valid" /\ Reply("invalid_params")

Authorized ==
  /\ step = "sent" /\ token = "valid"
  /\ step' = IF request.encryptedBase THEN "cap" ELSE "bake"
  /\ UNCHANGED <<base, token, caps, names, request, answer, glbs>>

(* verifyCapOwnership: a read that fails denies.                           *)
CheckCap ==
  /\ step = "cap"
  /\ \/ /\ <<"me", "mine">> \in caps /\ step' = "bake"
        /\ UNCHANGED <<base, token, caps, names, request, answer, glbs>>
     \/ Reply("cap_not_owned")

Errors == {SwapError(base, request.variants[v]) : v \in DOMAIN request.variants} \ {"ok"}

(* The variants are painted side by side, and the first refusal counts.    *)
Bake ==
  /\ step = "bake"
  /\ \/ Errors = {} /\ Reply("ok")
     \/ \E err \in Errors : Reply(err)
     \/ Reply("glb_parse_failed")

(* A 401 clears the session of the page.                                   *)
Receive ==
  /\ step = "answered" /\ step' = "idle"
  /\ glbs' = IF request.from = "page" /\ answer = "ok"
             THEN [v \in DOMAIN request.variants |-> swapMaterial(base, request.variants[v])]
             ELSE glbs
  /\ token' = IF request.from = "page" /\ answer = "auth_invalid" THEN "none" ELSE token
  /\ UNCHANGED <<base, caps, names, request, answer>>

Next ==
  \/ Expire \/ SignIn \/ runBuildVariants \/ Post \/ OtherPosts
  \/ Refuse \/ Authorized \/ CheckCap \/ Bake \/ Receive

Spec == Init /\ [][Next]_vars

-----------------------------------------------------------------------------
PartsHaveNames(b) ==
  \A j, k \in DOMAIN b.parts :
    NamesOf(b)[k] # Unnamed /\ (j # k => NamesOf(b)[j] # NamesOf(b)[k])
Aligned(b) == b.parts = [m \in DOMAIN b.materials |-> m]

TypeOK ==
  /\ base \in Bases /\ token \in {"valid", "expired", "none"}
  /\ step \in {"idle", "names", "sent", "cap", "bake", "answered"}
  /\ names \in {<<>>, NamesOf(base)}
  /\ glbs = <<>> \/ Len(glbs) = Variants

(* What the page shows for a bake has on every part the colour its label   *)
(* was given, whatever order the file lists its materials in.  Only bases  *)
(* whose names tell no parts apart, or that the headless engine could not  *)
(* read, are painted by position, and those the backend accepts are right  *)
(* when the two orders agree.                                              *)
BakedAsDesigned ==
  (/\ step = "idle" /\ answer = "ok" /\ request.from = "page" /\ base.labels # <<>>
   /\ (names # <<>> /\ Len(names) = Len(base.labels) /\ PartsHaveNames(base)) \/ Aligned(base))
    => \A v \in DOMAIN glbs : \A k \in DOMAIN base.labels :
         glbs[v][base.parts[k]] = IF base.labels[k] \in request.lacks THEN Gray
                                  ELSE <<v, base.labels[k]>>

(* A caller's entry that names a material paints that one and nothing is   *)
(* painted that no entry names; a name that is missing or shared is        *)
(* refused.                                                                *)
PaintsWhatIsNamed ==
  step = "answered" /\ answer = "ok" =>
    \A v \in DOMAIN request.variants :
      LET spec == request.variants[v]
          painted == swapMaterial(base, spec)
      IN nameKeyed(spec) =>
           /\ \A k \in DOMAIN spec : \E m \in DOMAIN base.materials :
                Named(base, spec[k].name) = {m} /\ painted[m] # Kept
           /\ \A m \in DOMAIN base.materials :
                painted[m] # Kept => \E k \in DOMAIN spec : spec[k].name = base.materials[m]
=============================================================================
