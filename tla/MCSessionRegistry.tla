-------------------------- MODULE MCSessionRegistry --------------------------
(* Instances of SessionRegistry for TLC. *)
EXTENDS SessionRegistry, TLC

\* thread ids, clients, functions and values are interchangeable
RegistrySymmetry ==
    Permutations(ThreadIds) \cup Permutations(Clients) \cup Permutations(Fns)
        \cup Permutations(ConfigValues)
=============================================================================
