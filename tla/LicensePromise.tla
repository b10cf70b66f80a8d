---------------------------- MODULE LicensePromise ----------------------------
(***************************************************************************)
(* What the license of a base model promises, with no objects, coins,      *)
(* registries or gates: who is licensed, who can read the mesh, and who    *)
(* may fork it.  The Move package is shown to implement it.                *)
(***************************************************************************)
CONSTANTS Wallets, Models

VARIABLES
    terms,     \* each base: "unpublished", "private", "paid" or "open"
    licensed,  \* wallets the license covers
    readers,   \* wallets that can obtain the mesh in the clear
    forkers    \* wallets that derived a collection

promiseVars == <<terms, licensed, readers, forkers>>

PromiseInit ==
    /\ terms = [m \in Models |-> "unpublished"]
    /\ licensed = [m \in Models |-> {}]
    /\ readers = [m \in Models |-> {}]
    /\ forkers = [m \in Models |-> {}]

(* An open base covers everybody, a closed one only its author. *)
Publish(m, author, t) ==
    /\ terms[m] = "unpublished"
    /\ terms' = [terms EXCEPT ![m] = t]
    /\ LET audience == IF t = "open" THEN Wallets ELSE {author} IN
       /\ licensed' = [licensed EXCEPT ![m] = audience]
       /\ readers' = [readers EXCEPT ![m] = audience]
    /\ UNCHANGED forkers

(* A sale adds one wallet to the license of a paid base; it adds a reader    *)
(* unless the base has been retired.                                         *)
Grant(m, a) ==
    /\ terms[m] = "paid"
    /\ a \notin licensed[m]
    /\ licensed' = [licensed EXCEPT ![m] = @ \cup {a}]
    /\ readers' = [readers EXCEPT ![m] = IF @ = {} THEN {} ELSE @ \cup {a}]
    /\ UNCHANGED <<terms, forkers>>

(* Only a licensed wallet forks. *)
Fork(m, a) ==
    /\ a \in licensed[m]
    /\ forkers' = [forkers EXCEPT ![m] = @ \cup {a}]
    /\ UNCHANGED <<terms, licensed, readers>>

(* Every closed base published so far is withdrawn from all its readers. *)
Retire ==
    /\ readers' = [m \in Models |-> IF terms[m] = "open" THEN readers[m] ELSE {}]
    /\ UNCHANGED <<terms, licensed, forkers>>

PromiseNext ==
    \/ \E m \in Models, a \in Wallets :
           \/ \E t \in {"private", "paid", "open"} : Publish(m, a, t)
           \/ Grant(m, a)
           \/ Fork(m, a)
    \/ Retire

PromiseSpec == PromiseInit /\ [][PromiseNext]_promiseVars

=============================================================================
