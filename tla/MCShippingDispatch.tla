-------------------------- MODULE MCShippingDispatch --------------------------
(* Instances of ShippingDispatch for TLC; the configurations name the sets. *)
EXTENDS ShippingDispatch, TLC

\* Request goroutines are interchangeable.
SlotSymmetry == Permutations(Slots)
===============================================================================
