-------------------------- MODULE MCRuntimeLifecycle --------------------------
(* Model checking of RuntimeLifecycle on small instances. *)
EXTENDS RuntimeLifecycle
===============================================================================
