----------------------------- MODULE MCOrderSync -----------------------------
(* Instances of OrderSync for TLC. *)
EXTENDS OrderSync

CONSTANTS n1, n2

\* All Shopify orders of an instance carry the name n1.
NameN1 == [r \in Remotes |-> n1]
===============================================================================
