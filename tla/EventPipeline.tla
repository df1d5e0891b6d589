--------------------------- MODULE EventPipeline ---------------------------
(***************************************************************************)
(* The whole path of an event: the outbox and its relays, the broker's     *)
(* queues, and the consumers' inbox, sharing the variable queue.           *)
(***************************************************************************)
EXTENDS OutboxRelay, EventInbox

relayOnly == <<tx, attemptCount, dispatched, lastError, batch, todo, loaded,
               marked, errs, calls, rollbacks>>
vars == <<relayOnly, inboxVars>>

Init == OutboxInit /\ ConsumersInit

\* The relay's publish is the inbox's Publish, so only the workers' steps
\* are taken from the inbox.
Next ==
    \/ OutboxNext /\ UNCHANGED consumerVars
    \/ WorkerStep /\ UNCHANGED relayOnly

Spec == Init /\ [][Next]_vars

\* Relays and workers keep running (ADR-0005: the relay loops); the business
\* side and crashes are not obliged to happen.
FairSpec ==
    /\ Spec
    /\ \A r \in Relays : WF_vars(RelayProgress(r) /\ UNCHANGED consumerVars)
    /\ \A w \in Workers : WF_vars(WorkerProgress(w) /\ UNCHANGED relayOnly)

TypeOK == OutboxTypeOK /\ InboxTypeOK

----------------------------------------------------------------------------
(* Properties.                                                             *)

\* No event is lost between the two halves: an event the relay considers
\* delivered is still queued for a consumer or has had its effects there,
\* whatever crashed on either side.
NoLostEvent ==
    \A e \in dispatched : \A c \in Consumers :
        e \in queue[c] \/ <<c, e>> \in processed

\* The pipeline implements the promise of EventDelivery: effects at most
\* once per consumer and only for committed business transactions.
Delivery == INSTANCE EventDelivery
                WITH committed <- {e \in Events : tx[e] = "committed"}
DeliverySpec == Delivery!Spec

\* Every committed event reaches every consumer in the end, unless its
\* attempts were used up: neither an older event that keeps failing, nor a
\* crash, nor a failing handler starves it for ever.
Delivered ==
    \A e \in Events, c \in Consumers :
        tx[e] = "committed"
            ~> (<<c, e>> \in processed \/ GivenUp(e))
=============================================================================
