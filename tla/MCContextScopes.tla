---------------------------- MODULE MCContextScopes ---------------------------
(* Model checking of ContextScopes on small instances. *)
EXTENDS ContextScopes, TLC

\* No definition tells one context, request, operation, decorator or attribute
\* value from another.
ScopeSymmetry ==
    Permutations(Contexts) \cup Permutations(Requests) \cup Permutations(Operations)
===============================================================================
