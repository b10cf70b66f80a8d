------------------------------- MODULE MCPages -------------------------------
(***************************************************************************)
(* TLC instance of Pages: the constants that are functions and sequences.  *)
(***************************************************************************)
EXTENDS Pages

MCCreatorOf == [m \in Models |-> "a"]

(* A base without labels, and one whose first part and last part share one. *)
MCPartLabels == [b \in DesignBases |-> IF b = "b1" THEN <<>> ELSE <<"body", "trim", "body">>]

MCVariantPrices == <<1, 2>>
=============================================================================
