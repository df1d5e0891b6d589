--------------------------- MODULE MCOutboxRelay ---------------------------
(* TLC instance of OutboxRelay: relays and consumers are interchangeable.  *)
EXTENDS OutboxRelay, TLC

Symmetry == Permutations(Relays) \cup Permutations(Consumers)
=============================================================================
