----------------------------- MODULE EventInbox -----------------------------
(***************************************************************************)
(* The consumer side of the outbox (EventInbox.consume_once and            *)
(* ProcessedEventRepository.claim): a worker takes a message, claims the   *)
(* key (consumer, event) inside its own transaction, applies the handler's *)
(* effects in the same transaction, commits and then acknowledges.         *)
(*                                                                         *)
(* The broker and the worker loop are not part of the repository.  They    *)
(* are modelled as ADR-0005 uses them: at-least-once delivery with late    *)
(* acknowledgement, so a message may be with several workers at once.      *)
(* Bounded retries and the dead-letter queue of ADR-0005 are settings of   *)
(* that loop and not modelled: what is said of messages below is said of   *)
(* failures within the retry bound.                                        *)
(*                                                                         *)
(* InboxSpec is the inbox under any publisher; EventPipeline extends this  *)
(* module and puts the relay in the publisher's place.                     *)
(***************************************************************************)
EXTENDS EventQueues, Integers

CONSTANTS
    Workers,      \* workers that run the consumers' handlers
    MaxFailures   \* bound on handler failures and worker crashes

ASSUME MaxFailuresAssumption == MaxFailures \in Nat

VARIABLES
    processed,    \* committed rows of "ProcessedEvents"
    effects,      \* committed executions of the handler, per key
    pc,           \* where each worker is
    key,          \* the (consumer, event) each worker is busy with
    failures      \* history: aborted deliveries

consumerVars == <<processed, effects, pc, key, failures>>
inboxVars == <<queue, consumerVars>>

Keys == Consumers \X Events
NoKey == <<>>

InboxTypeOK ==
    /\ queue \in [Consumers -> SUBSET Events]
    /\ processed \in SUBSET Keys
    /\ effects \in [Keys -> Nat]
    /\ pc \in [Workers -> {"idle", "received", "claimed", "finished"}]
    /\ key \in [Workers -> Keys \cup {NoKey}]
    /\ failures \in 0..MaxFailures

\* The inbox's own state; the queues belong to whoever publishes.
ConsumersInit ==
    /\ processed = {}
    /\ effects = [k \in Keys |-> 0]
    /\ pc = [w \in Workers |-> "idle"]
    /\ key = [w \in Workers |-> NoKey]
    /\ failures = 0

InboxInit == ConsumersInit /\ queue = [c \in Consumers |-> {}]

----------------------------------------------------------------------------
\* The broker hands a message to a worker and keeps it until it is
\* acknowledged: another worker may be given it as well.
Receive(w) ==
    /\ pc[w] = "idle"
    /\ \E c \in Consumers : \E e \in queue[c] :
           key' = [key EXCEPT ![w] = <<c, e>>]
    /\ pc' = [pc EXCEPT ![w] = "received"]
    /\ UNCHANGED <<queue, processed, effects, failures>>

\* The uncommitted insert of another transaction makes this one wait.
ClaimInFlight(w) ==
    \E v \in Workers \ {w} : pc[v] = "claimed" /\ key[v] = key[w]

\* Fault: look the key up, insert later: nobody waits.
ConsumeOnceUnlocked(w) ==
    /\ pc[w] = "received"
    /\ pc' = [pc EXCEPT ![w] = IF key[w] \in processed THEN "finished"
                                                       ELSE "claimed"]
    /\ UNCHANGED <<queue, processed, effects, key, failures>>

\* Fault: a claim that is still in flight counts as processed.
ConsumeOnceSkipsLocked(w) ==
    /\ pc[w] = "received"
    /\ pc' = [pc EXCEPT ![w] = IF key[w] \in processed \/ ClaimInFlight(w)
                               THEN "finished" ELSE "claimed"]
    /\ UNCHANGED <<queue, processed, effects, key, failures>>

\* INSERT ... ON CONFLICT DO NOTHING RETURNING: True claims the key, False
\* (a committed row exists) skips the handler.
ConsumeOnce(w) ==
    /\ pc[w] = "received"
    /\ ~ClaimInFlight(w)
    /\ pc' = [pc EXCEPT ![w] = IF key[w] \in processed THEN "finished"
                                                       ELSE "claimed"]
    /\ UNCHANGED <<queue, processed, effects, key, failures>>

\* The caller's transaction commits: claim and effects become visible
\* together.
CommitEffects(w) ==
    /\ pc[w] = "claimed"
    /\ processed' = processed \cup {key[w]}
    /\ effects' = [effects EXCEPT ![key[w]] = @ + 1]
    /\ pc' = [pc EXCEPT ![w] = "finished"]
    /\ UNCHANGED <<queue, key, failures>>

Ack(w) ==
    /\ pc[w] = "finished"
    /\ queue' = [queue EXCEPT ![key[w][1]] = @ \ {key[w][2]}]
    /\ pc' = [pc EXCEPT ![w] = "idle"]
    /\ key' = [key EXCEPT ![w] = NoKey]
    /\ UNCHANGED <<processed, effects, failures>>

\* The handler raises or the worker dies: the transaction, claim included,
\* is rolled back (or was committed already) and the message stays queued,
\* for the retries of the worker loop are not used up (MaxFailures).
Abort(w) ==
    /\ pc[w] # "idle"
    /\ failures < MaxFailures
    /\ failures' = failures + 1
    /\ pc' = [pc EXCEPT ![w] = "idle"]
    /\ key' = [key EXCEPT ![w] = NoKey]
    /\ UNCHANGED <<queue, processed, effects>>

\* At-least-once: the relay may publish an event any number of times.
Publish(c, e) ==
    /\ queue' = [queue EXCEPT ![c] = @ \cup {e}]
    /\ UNCHANGED consumerVars

WorkerProgress(w) == Receive(w) \/ ConsumeOnce(w) \/ CommitEffects(w) \/ Ack(w)

WorkerStep == \E w \in Workers : WorkerProgress(w) \/ Abort(w)

InboxNext ==
    \/ WorkerStep
    \/ \E c \in Consumers, e \in Events : Publish(c, e)

InboxSpec == InboxInit /\ [][InboxNext]_inboxVars

----------------------------------------------------------------------------
(* Properties.                                                             *)

\* Exactly-once effects over at-least-once delivery: no key's handler ever
\* commits twice, and a key recorded as processed did commit its effects.
ExactlyOnceEffects ==
    \A k \in Keys : effects[k] = (IF k \in processed THEN 1 ELSE 0)

\* A message leaves its queue for good only when its effects are committed:
\* a message that was taken out is processed, never merely dropped (short of
\* a dead-letter queue, where the retries are used up).
AckedWasProcessed ==
    [][\A k \in Keys : k[2] \in queue[k[1]] /\ k[2] \notin queue'[k[1]]
                            => k \in processed]_inboxVars
=============================================================================
