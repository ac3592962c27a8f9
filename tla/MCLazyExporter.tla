---------------------------- MODULE MCLazyExporter ----------------------------
(* Model checking of LazyExporter, and of Diagnostics below it. *)
EXTENDS LazyExporter, TLC
===============================================================================
