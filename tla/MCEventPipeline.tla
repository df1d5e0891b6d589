-------------------------- MODULE MCEventPipeline --------------------------
(* TLC instance of EventPipeline.                                          *)
EXTENDS EventPipeline, TLC

Symmetry ==
    Permutations(Relays) \cup Permutations(Consumers) \cup Permutations(Workers)
=============================================================================
