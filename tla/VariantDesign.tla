---------------------------- MODULE VariantDesign ----------------------------
(***************************************************************************)
(* Designing the variants of a collection on the launch page: the rows of  *)
(* forge/VariantEditor.tsx, the locks of VariantStrip.tsx, the random      *)
(* palettes of RandomGenControls.tsx and harmonics.ts, and the bake that   *)
(* turns every row into one token's art.  LaunchPage has the payments.     *)
(*                                                                         *)
(* A color is a hue in half degrees (saturation and lightness are the      *)
(* seed's), the default one, one picked by hand or the gray of a part      *)
(* without an entry.  Textures, names and the hover overlay are left out.  *)
(***************************************************************************)
EXTENDS Integers, Sequences, SequencesExt

CONSTANTS
  Bases, NoBase,
  PartLabels,    \* base -> the label of every part, <<>> for a legacy base
  MaxVariants,   \* MAX_VARIANTS, 16 in the code
  Seeds,         \* hues the color picker offers
  Schemes,       \* those of the four harmonic schemes that are used
  Prices,        \* the first one is the default
  MaxEdits       \* bound: edits since the last pick

DesignAssumption ==
  /\ NoBase \notin Bases /\ \A b \in Bases : PartLabels[b] \in Seq(ToSet(PartLabels[b]))
  /\ MaxVariants \in 1..720 /\ MaxEdits \in Nat /\ Prices \in Seq(Nat) \ {<<>>}
  /\ Seeds \subseteq Int /\ Schemes \subseteq {"analogous", "complementary", "triadic", "tetradic"}

VARIABLES
  phase, base,
  rows,       \* editorState.variants: a palette and a price each
  globalPrice, perVariant,  \* globalPriceMist, perVariantPricing
  locked,     \* lockedIndices
  seed, scheme,
  selected,   \* selectedPreview
  art,        \* variantGlbs: the colors of each mesh baked last
  task,       \* the handler that awaits, with the base and rows it was called with
  rolled,     \* rows that carry the palette of the last roll
  edits

designVars == <<rows, globalPrice, perVariant, locked, seed, scheme, rolled, edits>>
vars == <<phase, base, designVars, selected, art, task>>

NoTask == [kind |-> "none", base |-> NoBase, rows |-> <<>>]
BusyPhases == {"downloading-base", "building-variants", "uploading", "signing"}

(* disabled={busy} on every control of the editor. *)
Editable == base # NoBase /\ phase \notin BusyPhases

-----------------------------------------------------------------------------
(* The hues of the circle, and the colors that are no hue of it. *)
Circle == 720
Default == Circle
Mine == Circle + 1
Gray == Circle + 2

(* Labels, palettes and colors.                                            *)

(* Each label once, in the order of its first occurrence. *)
deriveUniqueLabels(labels) ==
  LET out[n \in 0..Len(labels)] ==
        IF n = 0 THEN <<>>
        ELSE IF Contains(out[n - 1], labels[n]) THEN out[n - 1]
        ELSE Append(out[n - 1], labels[n])
  IN  IF labels = <<>> THEN <<"primary">> ELSE out[Len(labels)]

Labels == deriveUniqueLabels(PartLabels[base])

newVariantRow(labels, price) == [palette |-> [l \in ToSet(labels) |-> Default], price |-> price]

(* What the build request and the live recolor make of a palette: one color *)
(* for each part.                                                           *)
resolvePartColors(palette, b) ==
  LET labels == IF PartLabels[b] = <<>> THEN <<"primary">> ELSE PartLabels[b]
  IN  [i \in DOMAIN labels |-> IF labels[i] \in DOMAIN palette THEN palette[labels[i]] ELSE Gray]

(* Hues: the scheme's offset of color k of K, around a seed that is turned *)
(* by one N-th of the circle from variant to variant.                      *)
hueOffsetFor(s, k, K) ==
  CASE s = "analogous" -> (2 * k - (K - 1)) * 15
    [] s = "complementary" -> (k % 2) * 360
    [] s = "triadic" -> (k % 3) * 240
    [] s = "tetradic" -> (k % 4) * 180

generateVariantColors(from, s, K, N) ==
  [v \in 1..N |-> [k \in 1..K |->
     (from + ((v - 1) * Circle) \div N + hueOffsetFor(s, k - 1, K)) % Circle]]

-----------------------------------------------------------------------------
Init ==
  /\ phase = "picking" /\ base = NoBase
  /\ rows = <<newVariantRow(<<"primary">>, Head(Prices))>>
  /\ globalPrice = Head(Prices) /\ perVariant = FALSE
  /\ locked = {} /\ seed \in Seeds /\ scheme \in Schemes
  /\ selected = 1 /\ art = <<>> /\ task = NoTask /\ rolled = {} /\ edits = 0

(* onPickBase: the editor starts over with the labels of the new base.     *)
PickBase(b) ==
  /\ phase \notin BusyPhases
  /\ base' = b /\ phase' = "downloading-base"
  /\ rows' = <<newVariantRow(deriveUniqueLabels(PartLabels[b]), Head(Prices))>>
  /\ globalPrice' = Head(Prices) /\ perVariant' = FALSE
  /\ locked' = {} /\ selected' = 1 /\ art' = <<>> /\ rolled' = {} /\ edits' = 0
  /\ task' = [NoTask EXCEPT !.kind = "pick", !.base = b]
  /\ UNCHANGED <<seed, scheme>>

Edit == Editable /\ edits < MaxEdits /\ edits' = edits + 1 /\ UNCHANGED <<phase, base, art, task>>

setRowPalette(i, l) ==
  /\ Edit
  /\ rows' = [rows EXCEPT ![i].palette[l] = Mine]
  /\ rolled' = rolled \ {i}
  /\ UNCHANGED <<globalPrice, perVariant, locked, seed, scheme, selected>>

(* The price of a row is shown under per-variant pricing only. *)
setRowPrice(i, price) ==
  /\ Edit /\ perVariant
  /\ rows' = [rows EXCEPT ![i].price = price]
  /\ UNCHANGED <<globalPrice, perVariant, locked, seed, scheme, selected, rolled>>

Priced(price) == [i \in DOMAIN rows |-> [rows[i] EXCEPT !.price = price]]

setGlobalPrice(price) ==
  /\ Edit
  /\ globalPrice' = price
  /\ rows' = IF perVariant THEN rows ELSE Priced(price)
  /\ UNCHANGED <<perVariant, locked, seed, scheme, selected, rolled>>

(* Turning it off discards the prices of the rows. *)
togglePerVariantPricing ==
  /\ Edit
  /\ perVariant' = ~perVariant
  /\ rows' = IF perVariant THEN Priced(globalPrice) ELSE rows
  /\ UNCHANGED <<globalPrice, locked, seed, scheme, selected, rolled>>

(* The + of the editor and of the random controls. *)
addRow ==
  /\ Edit /\ Len(rows) < MaxVariants
  /\ rows' = Append(rows, newVariantRow(Labels, globalPrice))
  /\ UNCHANGED <<globalPrice, perVariant, locked, seed, scheme, selected, rolled>>

(* The - of the editor knows of no locks. *)
removeRow ==
  /\ Edit /\ Len(rows) > 1
  /\ rows' = Front(rows)
  /\ rolled' = rolled \ {Len(rows)}
  /\ UNCHANGED <<globalPrice, perVariant, locked, seed, scheme, selected>>

(* minRandomN: the - of the random controls stops at the last lock. *)
minRandomN == IF locked = {} THEN 1 ELSE CHOOSE i \in locked : \A j \in locked : j <= i

onChangeVariantCount ==
  /\ Edit /\ Len(rows) > minRandomN
  /\ rows' = Front(rows)
  /\ locked' = {i \in locked : i < Len(rows)}
  /\ rolled' = rolled \ {Len(rows)}
  /\ UNCHANGED <<globalPrice, perVariant, seed, scheme, selected>>

onToggleLock(i) ==
  /\ Edit
  /\ locked' = (locked \ {i}) \cup ({i} \ locked)
  /\ UNCHANGED <<rows, globalPrice, perVariant, seed, scheme, selected, rolled>>

ChooseHarmony(from, s) ==
  /\ Edit /\ <<from, s>> # <<seed, scheme>>
  /\ seed' = from /\ scheme' = s
  /\ UNCHANGED <<rows, globalPrice, perVariant, locked, selected, rolled>>

(* Every row that is not locked gets its palette of the roll. *)
onRandomGenerate ==
  /\ Edit
  /\ LET K == Len(Labels)
         generated == generateVariantColors(seed, scheme, K, Len(rows))
         Palette(i) == [l \in ToSet(Labels) |-> generated[i][SelectInSeq(Labels, LAMBDA x : x = l)]]
     IN  rows' = [i \in DOMAIN rows |->
                    IF i \in locked THEN rows[i] ELSE [rows[i] EXCEPT !.palette = Palette(i)]]
  /\ rolled' = DOMAIN rows \ locked
  /\ UNCHANGED <<globalPrice, perVariant, locked, seed, scheme, selected>>

(* The tiles of the preview stay enabled while the page is busy. *)
SelectTile(i) ==
  /\ base # NoBase /\ selected' = i /\ i # selected
  /\ UNCHANGED <<phase, base, designVars, art, task>>

-----------------------------------------------------------------------------
(* onPreview and the launch handlers bake the rows they were called with.  *)
Bake(kind) ==
  /\ Editable /\ task = NoTask
  /\ task' = [kind |-> kind, base |-> base, rows |-> rows]
  /\ phase' = "building-variants"
  /\ UNCHANGED <<base, designVars, selected, art>>

runBuildVariants ==
  /\ task.kind \in {"preview", "launch"} /\ phase = "building-variants"
  /\ art' = [i \in DOMAIN task.rows |-> resolvePartColors(task.rows[i].palette, task.base)]
  /\ IF task.kind = "preview" THEN phase' = "editing-variants" /\ task' = NoTask
     ELSE phase' = "uploading" /\ UNCHANGED task
  /\ UNCHANGED <<base, designVars, selected>>

Uploaded ==
  /\ phase = "uploading" /\ phase' = "signing"
  /\ UNCHANGED <<base, designVars, selected, art, task>>

Finish ==
  /\ task.kind \in {"pick", "launch"} /\ phase \in {"downloading-base", "signing"}
  /\ phase' = (IF task.kind = "pick" THEN "editing-variants" ELSE "success")
  /\ task' = NoTask
  /\ UNCHANGED <<base, designVars, selected, art>>

Fail ==
  /\ task # NoTask /\ phase' = "error" /\ task' = NoTask
  /\ UNCHANGED <<base, designVars, selected, art>>

Next ==
  \/ \E b \in Bases : PickBase(b)
  \/ \E i \in DOMAIN rows :
       \/ \E l \in DOMAIN rows[i].palette : setRowPalette(i, l)
       \/ \E price \in ToSet(Prices) : setRowPrice(i, price)
       \/ onToggleLock(i) \/ SelectTile(i)
  \/ \E price \in ToSet(Prices) : setGlobalPrice(price)
  \/ \E from \in Seeds, s \in Schemes : ChooseHarmony(from, s)
  \/ togglePerVariantPricing \/ addRow \/ removeRow \/ onChangeVariantCount \/ onRandomGenerate
  \/ \E kind \in {"preview", "launch"} : Bake(kind)
  \/ runBuildVariants \/ Uploaded \/ Finish \/ Fail

Spec == Init /\ [][Next]_vars

-----------------------------------------------------------------------------
TypeOK ==
  /\ phase \in BusyPhases \cup {"picking", "editing-variants", "success", "error"}
  /\ base \in Bases \cup {NoBase} /\ task.kind \in {"none", "pick", "preview", "launch"}
  /\ Len(rows) \in 1..MaxVariants /\ \A i \in DOMAIN rows : rows[i].price \in ToSet(Prices)
  /\ globalPrice \in ToSet(Prices) /\ perVariant \in BOOLEAN
  /\ {locked, rolled, {selected}} \subseteq SUBSET (1..MaxVariants)
  /\ seed \in Seeds /\ scheme \in Schemes /\ edits \in 0..MaxEdits
  /\ \A i \in DOMAIN art : ToSet(art[i]) \subseteq 0..Gray

(* "What you see is what mints": from the end of the bake to the last      *)
(* signature the art in flight is, token by token and part by part, what   *)
(* the rows of the editor say, of the base that is picked.                 *)
MintsWhatIsShown ==
  task.kind = "launch" /\ phase \in {"uploading", "signing"} =>
    /\ task.base = base /\ Len(art) = Len(rows)
    /\ \A i \in DOMAIN art :
         LET parts == PartLabels[base]
         IN  IF parts = <<>> THEN art[i] = <<rows[i].palette["primary"]>>
             ELSE \A p \in DOMAIN parts : art[i][p] = rows[i].palette[parts[p]]

(* However rows come and go: the palette of every row has the labels of    *)
(* the picked base, no part is left gray, one price holds for all the rows *)
(* unless the creator prices them one by one, and the siblings of one roll *)
(* differ (harmonics.ts:12-14, for a seed that is not gray).               *)
RowsAreWhole ==
  /\ base # NoBase => \A i \in DOMAIN rows : DOMAIN rows[i].palette = ToSet(Labels)
  /\ ~perVariant => \A i \in DOMAIN rows : rows[i].price = globalPrice
  /\ \A i, j \in rolled : i # j => rows[i].palette # rows[j].palette
=============================================================================
