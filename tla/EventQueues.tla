---------------------------- MODULE EventQueues ----------------------------
(***************************************************************************)
(* The broker's queues, which the outbox and the inbox share.  The broker  *)
(* is not part of the repository: ADR-0005 uses it as one durable queue    *)
(* per consumer, which keeps a message until it is acknowledged.           *)
(***************************************************************************)

CONSTANTS
    Events,      \* outbox rows: an event's message carries the id of its row
    Consumers    \* names of the consumers

VARIABLE
    queue        \* messages each consumer's queue holds
=============================================================================
