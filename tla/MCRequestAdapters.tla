--------------------------- MODULE MCRequestAdapters ---------------------------
(* Model checking of RequestAdapters on small instances. *)
EXTENDS RequestAdapters, TLC

\* The calls of one framework run the same code.
CallSymmetry == Permutations(FastAPICalls) \cup Permutations(FlaskCalls)
===============================================================================
