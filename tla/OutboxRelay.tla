---------------------------- MODULE OutboxRelay ----------------------------
(***************************************************************************)
(* The transactional outbox of one tenant database and the relays that     *)
(* publish it (modules/integration/outbox.py, repository.py).              *)
(*                                                                         *)
(* A business transaction inserts outbox rows (Outbox.enqueue).  A relay   *)
(* pass (OutboxRelay.run_once) is ONE database transaction: it locks the   *)
(* oldest pending rows that no other pass has locked, hands each row to    *)
(* the publisher, changes the loaded ORM objects, and writes them back     *)
(* when the transaction commits.  A publish is an effect outside the       *)
(* transaction: rolling the pass back undoes the marks, not the message.   *)
(***************************************************************************)
EXTENDS EventQueues, Integers, FiniteSets

CONSTANTS
    Relays,        \* concurrent executors of run_once on this database
    BatchSize,     \* batch_size
    MaxAttempts,   \* max_attempts
    MaxRollbacks   \* bound on the passes that die before their commit

\* Rows are numbered by their rank in ("occurredAt", id).
ASSUME EventsAssumption == Events \subseteq Nat
ASSUME BatchSizeAssumption == BatchSize \in Nat \ {0}
ASSUME MaxAttemptsAssumption == MaxAttempts \in Nat \ {0}
ASSUME MaxRollbacksAssumption == MaxRollbacks \in Nat

VARIABLES
    tx,            \* state of the business transaction that inserts the row
    attemptCount,  \* committed "attemptCount" of each row
    dispatched,    \* rows whose committed "dispatchedAt" is set
    lastError,     \* rows whose committed "lastError" is set
    batch,         \* rows each pass has locked (empty: no pass is running)
    todo,          \* rows of the batch the loop has not reached yet
    loaded,        \* attempt_count of the ORM objects of each pass
    marked,        \* ORM objects whose dispatched_at is set, uncommitted
    errs,          \* ORM objects whose last_error is set, uncommitted
    calls,         \* history: how often publish was called for each row
    rollbacks      \* history: number of passes rolled back

rowVars  == <<tx, attemptCount, dispatched, lastError>>
passVars == <<batch, todo, loaded, marked, errs>>
outboxVars == <<tx, attemptCount, dispatched, lastError, batch, todo, loaded,
                marked, errs, queue, calls, rollbacks>>

OutboxTypeOK ==
    /\ tx \in [Events -> {"none", "open", "committed", "rolledback"}]
    /\ attemptCount \in [Events -> 0..MaxAttempts]
    /\ dispatched \in SUBSET Events
    /\ lastError \in SUBSET Events
    /\ batch \in [Relays -> SUBSET Events]
    /\ todo \in [Relays -> SUBSET Events]
    /\ loaded \in [Relays -> [Events -> 0..MaxAttempts]]
    /\ marked \in [Relays -> SUBSET Events]
    /\ errs \in [Relays -> SUBSET Events]
    /\ queue \in [Consumers -> SUBSET Events]
    /\ calls \in [Events -> Nat]
    /\ rollbacks \in 0..MaxRollbacks

OutboxInit ==
    /\ tx = [e \in Events |-> "none"]
    /\ attemptCount = [e \in Events |-> 0]
    /\ dispatched = {}
    /\ lastError = {}
    /\ batch = [r \in Relays |-> {}]
    /\ todo = [r \in Relays |-> {}]
    /\ loaded = [r \in Relays |-> [e \in Events |-> 0]]
    /\ marked = [r \in Relays |-> {}]
    /\ errs = [r \in Relays |-> {}]
    /\ queue = [c \in Consumers |-> {}]
    /\ calls = [e \in Events |-> 0]
    /\ rollbacks = 0

----------------------------------------------------------------------------
(* The business side: the row is inserted and flushed inside the caller's  *)
(* transaction, so it exists for the relay only once that commits.         *)

Enqueue(e) ==
    /\ tx[e] = "none"
    /\ tx' = [tx EXCEPT ![e] = "open"]
    /\ UNCHANGED <<attemptCount, dispatched, lastError, passVars, queue,
                   calls, rollbacks>>

EndBusiness(e, outcome) ==
    /\ tx[e] = "open"
    /\ tx' = [tx EXCEPT ![e] = outcome]
    /\ UNCHANGED <<attemptCount, dispatched, lastError, passVars, queue,
                   calls, rollbacks>>

Business(e) ==
    \/ Enqueue(e)
    \/ EndBusiness(e, "committed")
    \/ EndBusiness(e, "rolledback")

----------------------------------------------------------------------------
(* One relay pass.                                                         *)

\* Fault: claim_pending without FOR UPDATE SKIP LOCKED.
LockedIgnored == {}

\* Rows FOR UPDATE SKIP LOCKED passes over.
Locked == UNION {batch[r] : r \in Relays}

\* Fault: "attemptCount" <= max_attempts.
PendingOnceMore ==
    {e \in Events : /\ tx[e] = "committed"
                    /\ e \notin dispatched
                    /\ attemptCount[e] <= MaxAttempts}

\* Fault: "dispatchedAt" is not looked at.
PendingAgain ==
    {e \in Events : tx[e] = "committed" /\ attemptCount[e] < MaxAttempts}

\* Fault: the last attempt is never made.
PendingTooFew ==
    {e \in Events : /\ tx[e] = "committed"
                    /\ e \notin dispatched
                    /\ attemptCount[e] + 1 < MaxAttempts}

Pending ==
    {e \in Events : /\ tx[e] = "committed"
                    /\ e \notin dispatched
                    /\ attemptCount[e] < MaxAttempts}

\* ORDER BY "occurredAt", id LIMIT BatchSize.
Oldest(S) ==
    {e \in S : Cardinality({f \in S : f < e}) < BatchSize}

\* A pass that finds nothing to claim commits an empty transaction and is
\* not a step.
RunOnce(r) ==
    LET claimed == Oldest(Pending \ Locked)
    IN  /\ batch[r] = {}
        /\ claimed # {}
        /\ batch' = [batch EXCEPT ![r] = claimed]
        /\ todo' = [todo EXCEPT ![r] = claimed]
        /\ loaded' = [loaded EXCEPT ![r] = attemptCount]
        /\ UNCHANGED <<rowVars, marked, errs, queue, calls, rollbacks>>

\* What every _dispatch does, whatever the publisher answers.
Attempt(r, e) ==
    /\ e \in todo[r]
    /\ \A f \in todo[r] : e <= f
    /\ todo' = [todo EXCEPT ![r] = @ \ {e}]
    /\ loaded' = [loaded EXCEPT ![r][e] = @ + 1]
    /\ calls' = [calls EXCEPT ![e] = @ + 1]
    /\ UNCHANGED <<rowVars, batch, rollbacks>>

\* The broker confirmed the message: it is in every queue.
DispatchConfirmed(r, e) ==
    /\ Attempt(r, e)
    /\ queue' = [c \in Consumers |-> queue[c] \cup {e}]
    /\ marked' = [marked EXCEPT ![r] = @ \cup {e}]
    /\ UNCHANGED errs

\* Fault: the failure is swallowed and the row marked like a success.
DispatchFailedMarks(r, e, D) ==
    /\ Attempt(r, e)
    /\ queue' = [c \in Consumers |->
                    IF c \in D THEN queue[c] \cup {e} ELSE queue[c]]
    /\ marked' = [marked EXCEPT ![r] = @ \cup {e}]
    /\ UNCHANGED errs

\* Fault: last_error is not set.
DispatchFailedSilently(r, e, D) ==
    /\ Attempt(r, e)
    /\ queue' = [c \in Consumers |->
                    IF c \in D THEN queue[c] \cup {e} ELSE queue[c]]
    /\ UNCHANGED <<marked, errs>>

\* publish raised.  A lost confirm raises too, so any of the queues may
\* have got the message.
DispatchFailed(r, e, D) ==
    /\ Attempt(r, e)
    /\ queue' = [c \in Consumers |->
                    IF c \in D THEN queue[c] \cup {e} ELSE queue[c]]
    /\ errs' = [errs EXCEPT ![r] = @ \cup {e}]
    /\ UNCHANGED marked

Dispatch(r) ==
    \E e \in todo[r] :
        \/ DispatchConfirmed(r, e)
        \/ \E D \in SUBSET Consumers : DispatchFailed(r, e, D)

\* Leaving the session block: the flush writes the loaded objects back as
\* absolute values and the commit releases the row locks.
ClosePass(r) ==
    /\ batch' = [batch EXCEPT ![r] = {}]
    /\ todo' = [todo EXCEPT ![r] = {}]
    /\ marked' = [marked EXCEPT ![r] = {}]
    /\ errs' = [errs EXCEPT ![r] = {}]
    /\ loaded' = [loaded EXCEPT ![r] = [e \in Events |-> 0]]

CommitPass(r) ==
    /\ batch[r] # {}
    /\ todo[r] = {}
    /\ attemptCount' = [e \in Events |-> IF e \in batch[r]
                                         THEN loaded[r][e]
                                         ELSE attemptCount[e]]
    /\ dispatched' = dispatched \cup marked[r]
    /\ lastError' = lastError \cup errs[r]
    /\ ClosePass(r)
    /\ UNCHANGED <<tx, queue, calls, rollbacks>>

\* The relay dies, or its commit fails, at any point of the pass.
RollbackPass(r) ==
    /\ batch[r] # {}
    /\ rollbacks < MaxRollbacks
    /\ rollbacks' = rollbacks + 1
    /\ ClosePass(r)
    /\ UNCHANGED <<rowVars, queue, calls>>

RelayProgress(r) == RunOnce(r) \/ Dispatch(r) \/ CommitPass(r)

OutboxNext ==
    \/ \E e \in Events : Business(e)
    \/ \E r \in Relays : RelayProgress(r) \/ RollbackPass(r)

OutboxSpec == OutboxInit /\ [][OutboxNext]_outboxVars

----------------------------------------------------------------------------
(* Properties.                                                             *)

\* max_attempts bounds the publications of an event although several relays
\* run: only a pass that was rolled back after publishing adds one more.
PublishBound == \A e \in Events : calls[e] <= MaxAttempts + rollbacks

\* "dispatchedAt" is set only for a message every consumer queue received,
\* whatever passes crashed or lost a confirm before.
DispatchedWasQueued ==
    \A e \in dispatched : \A c \in Consumers : e \in queue[c]

\* An event that was tried in vain says why: the operator finds "lastError"
\* on every row the relay has given up.
GivenUpHasError ==
    \A e \in Events : attemptCount[e] > 0 /\ e \notin dispatched
                        => e \in lastError

\* A row belongs to at most one running pass (SKIP LOCKED).
BatchesDisjoint ==
    \A r, s \in Relays : r # s => batch[r] \cap batch[s] = {}

\* The relay no longer looks at the row.
GivenUp(e) == e \notin dispatched /\ attemptCount[e] = MaxAttempts

\* A dispatched row is final: no later pass publishes it again or touches
\* its counters.
DispatchedIsFinal ==
    [][\A e \in dispatched : /\ calls'[e] = calls[e]
                             /\ attemptCount'[e] = attemptCount[e]
                             /\ e \in dispatched']_outboxVars
=============================================================================
