--------------------------- MODULE MCNftCollection ---------------------------
(***************************************************************************)
(* TLC instances of NftCollection.  seal_ids of length 2 over two byte     *)
(* values, with the empty one, a strict prefix and an overlong one among    *)
(* the inputs.                                                             *)
(***************************************************************************)
EXTENDS NftCollection, TLC

MCSealIds == {<<>>, <<1>>, <<1, 1>>, <<1, 2>>, <<1, 1, 1>>}
MCNonces  == {<<1>>}
Symmetry  == Permutations(Accounts) \cup Permutations(ModelIds)
             \cup Permutations(CollectionIds) \cup Permutations(TokenIds)
=============================================================================
