------------------------------ MODULE MCServices ------------------------------
(***************************************************************************)
(* TLC instance of Services: one registration with bad metadata; limits of *)
(* the two tables; three delays and the waits of the two tasks; a model of *)
(* each policy an agent meets; and three forks of two models.              *)
(***************************************************************************)
EXTENDS Services

MCBadMetadata == {<<"c2", "i2">>}

MCMaxPerWindow == [ip |-> 2, address |-> 1]

MCDelays == <<1, 2, 3>>

MCMaxWait == [model |-> 7, segment |-> 10]

MCCreator == [m1 |-> "a", m2 |-> "c", m3 |-> "c"]

MCPolicy == [m1 |-> "ALLOW_LIST", m2 |-> "ALLOW_LIST", m3 |-> "RESTRICTED"]

MCBaseOf == <<1, 2, 1>>
=============================================================================
