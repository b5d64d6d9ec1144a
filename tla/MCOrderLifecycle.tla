-------------------------- MODULE MCOrderLifecycle --------------------------
(* TLC instances of OrderLifecycle. *)
EXTENDS OrderLifecycle, TLC

\* Order indices, slots and reconcilers are interchangeable; used by the
\* safety runs only.
Symmetry == Permutations(Slots) \union Permutations(Cids)
=============================================================================
