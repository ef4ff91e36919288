------------------------------ MODULE MCStorefront ------------------------------
(* Values for the constants of Storefront in the runs of TLC. *)
EXTENDS Storefront, TLC

Prices == {1, 2}
Symmetric == Permutations(Invitation) \cup Permutations(Request) \cup Permutations(Txn)
=================================================================================
