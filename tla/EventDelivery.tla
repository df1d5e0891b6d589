--------------------------- MODULE EventDelivery ---------------------------
(***************************************************************************)
(* What the integration module promises: an event recorded in a business   *)
(* transaction has its effects, once per consumer, only if that            *)
(* transaction committed (ADR-0005, Consequences).  No relay, no broker,   *)
(* no retry: those are how EventPipeline implements it.                    *)
(***************************************************************************)
EXTENDS Integers

CONSTANTS Events, Consumers

VARIABLES
    committed,   \* events whose business transaction committed
    effects      \* executions of each (consumer, event) handler

vars == <<committed, effects>>

Keys == Consumers \X Events

Init ==
    /\ committed = {}
    /\ effects = [k \in Keys |-> 0]

Record(e) ==
    /\ e \notin committed
    /\ committed' = committed \cup {e}
    /\ UNCHANGED effects

Apply(k) ==
    /\ k[2] \in committed
    /\ effects[k] = 0
    /\ effects' = [effects EXCEPT ![k] = 1]
    /\ UNCHANGED committed

Next ==
    \/ \E e \in Events : Record(e)
    \/ \E k \in Keys : Apply(k)

Spec == Init /\ [][Next]_vars
=============================================================================
