------------------------------ MODULE MCSessions ------------------------------
(***************************************************************************)
(* TLC instance of Sessions: prompts with the codec's own symbols, and a   *)
(* pool with a record that has no trailer and one that names no object.    *)
(***************************************************************************)
EXTENDS Sessions

MCPrompts == {<<"x">>, <<"ESC", "x", "RS", "1">>}

MCCaption == <<"y">>

MCForeign == {[text |-> <<"x">>, ref |-> [m |-> "none", c |-> NoUser]],
              [text |-> <<"x", "RS", "trailer">>, ref |-> [m |-> "junk", c |-> "a"]]}
=============================================================================
