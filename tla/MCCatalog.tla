------------------------------ MODULE MCCatalog ------------------------------
(***************************************************************************)
(* TLC instance of Storefront.                                             *)
(***************************************************************************)
EXTENDS Storefront, MCNftCollection

(* Two variants of one collection, of which only the second is tagged, a   *)
(* base of its own and a private one; the relayer's distances, one of them *)
(* not valid.                                                              *)
MCGroupOf == [v1 |-> "c", v2 |-> "c", o |-> "o", p |-> "p"]
MCTagsOf == [v1 |-> {}, v2 |-> {"t"}, o |-> {}, p |-> {}]
MCCreatedAt == [v1 |-> 1, o |-> 3, v2 |-> 3, p |-> 4]
MCPlaceOf == [v1 |-> 1, v2 |-> 2, o |-> 3, p |-> 4]
Chip(m, d) == [model |-> m, distance |-> d]
MCChipLists == {<<>>, <<Chip("o", -1), Chip("v1", 2)>>,
                <<Chip("o", 1), Chip("v1", 1), Chip("p", 0)>>}

MCPublishTimeOf == [c1 |-> 1, c2 |-> 1]
MCIdRankOf == [c1 |-> 1, c2 |-> 2]
MCTokenPages == <<{"c1"}, {"c2"}>>

(* Five files in one quilt, as the callers upload, and three in two.       *)
MCPlans == {<<5, 5>>, <<3, 2>>}

(* Bases whose file and parts agree in order or not, with shared, missing  *)
(* and spare names, untagged ones and one without materials.               *)
Mesh(materials, parts, labels) == [materials |-> materials, parts |-> parts, labels |-> labels]
MCBases == {Mesh(<<"a", "b", "c">>, <<2, 1, 3>>, <<"body", "trim", "body">>),
            Mesh(<<"a", "b">>, <<2, 1>>, <<"body", "trim">>),
            Mesh(<<"a", "a">>, <<1, 2>>, <<"body", "trim">>),
            Mesh(<<"a", "">>, <<1, 2>>, <<"body", "trim">>),
            Mesh(<<"a", "a", "b">>, <<1, 3>>, <<"body", "trim">>),
            Mesh(<<"a", "b">>, <<1, 1>>, <<"body", "trim">>),
            Mesh(<<"a">>, <<1>>, <<>>), Mesh(<<"a", "b">>, <<1, 2>>, <<>>), Mesh(<<>>, <<0>>, <<>>)}
Entry(n) == [color |-> <<9, n>>, name |-> n]
MCOtherSpecs == {<<Entry("a")>>, <<Entry("b"), Entry("a")>>, <<Entry("a"), Entry("a")>>,
                 <<Entry("z")>>, <<Entry("a"), Entry("")>>, <<Entry(""), Entry(""), Entry("")>>}
=============================================================================
