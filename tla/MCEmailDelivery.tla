--------------------------- MODULE MCEmailDelivery ---------------------------
(* Instances of EmailDelivery for TLC; the configurations name the sets. *)
EXTENDS EmailDelivery
===============================================================================
