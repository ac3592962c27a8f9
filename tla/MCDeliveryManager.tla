--------------------------- MODULE MCDeliveryManager --------------------------
(* Model checking of DeliveryManager on small instances. *)
EXTENDS DeliveryManager, TLC

\* The emitting threads run the same code.
EmitterSymmetry == Permutations(Emitters)
===============================================================================
