-------------------------- MODULE MCAdapterLifecycle --------------------------
(* Instances of AdapterLifecycle for TLC. *)
EXTENDS AdapterLifecycle, TLC

\* connections are interchangeable
ConnSymmetry == Permutations(Conns)
=============================================================================
