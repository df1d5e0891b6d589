------------------------ MODULE EventPipelineProofs ------------------------
(***************************************************************************)
(* The path of an event, for every set of events, relays, consumers and    *)
(* workers, every batch size and every max_attempts: first the outbox and  *)
(* its relays by themselves, then the inbox by itself under any publisher, *)
(* then the two together: no event is lost between them, and the whole     *)
(* implements EventDelivery.                                               *)
(***************************************************************************)
EXTENDS EventPipeline, TLAPS

USE EventsAssumption, BatchSizeAssumption, MaxAttemptsAssumption,
    MaxRollbacksAssumption, MaxFailuresAssumption

----------------------------------------------------------------------------
(* The outbox and its relays by themselves.                                *)

\* The shape of a pass: the loop has reached the rows that are out of todo,
\* and each of those is either marked or has an error.
PassShape ==
    \A r \in Relays :
        /\ todo[r] \subseteq batch[r]
        /\ marked[r] \subseteq batch[r] \ todo[r]
        /\ errs[r] \subseteq batch[r] \ todo[r]
        /\ batch[r] \ todo[r] \subseteq marked[r] \cup errs[r]

\* What the row lock keeps true of a claimed row until the pass ends.
ClaimedPending ==
    \A r \in Relays : \A e \in batch[r] :
        /\ tx[e] = "committed"
        /\ e \notin dispatched
        /\ attemptCount[e] < MaxAttempts
        /\ loaded[r][e] = attemptCount[e] + (IF e \in todo[r] THEN 0 ELSE 1)

\* Some running pass has published e and not committed yet.
InFlight(e) == \E r \in Relays : e \in batch[r] \ todo[r]

\* The committed counter accounts for every publication but those of passes
\* rolled back and the one in flight.
CallsCounted ==
    \A e \in Events :
        /\ calls[e] <= attemptCount[e] + rollbacks + 1
        /\ InFlight(e) \/ calls[e] <= attemptCount[e] + rollbacks

MarkedWasQueued ==
    \A r \in Relays : \A e \in marked[r] : \A c \in Consumers : e \in queue[c]

CountInv == /\ OutboxTypeOK
            /\ PassShape
            /\ BatchesDisjoint
            /\ ClaimedPending
            /\ CallsCounted

OutboxInv == /\ CountInv
             /\ GivenUpHasError
             /\ MarkedWasQueued
             /\ DispatchedWasQueued

----------------------------------------------------------------------------
(* The counters: one lemma per action.                                     *)

\* Initially no pass runs and nothing was published.
LEMMA InitCount == OutboxInit => CountInv
BY DEF OutboxInit, CountInv, OutboxTypeOK, PassShape, BatchesDisjoint,
       ClaimedPending, CallsCounted, InFlight

\* A business step touches only tx, and only of rows no pass can hold: a
\* claimed row is committed (Outbox.enqueue runs in its own transaction).
LEMMA BusinessCount ==
    ASSUME CountInv, NEW e \in Events, Business(e)
    PROVE  CountInv'
<1>1. /\ tx[e] # "committed"
      /\ UNCHANGED <<attemptCount, dispatched, lastError, batch, todo, loaded,
                     marked, errs, queue, calls, rollbacks>>
  BY DEF Business, Enqueue, EndBusiness, passVars
<1>2. PICK o \in {"open", "committed", "rolledback"} :
          tx' = [tx EXCEPT ![e] = o]
  BY DEF Business, Enqueue, EndBusiness
<1>3. OutboxTypeOK'
  BY <1>1, <1>2 DEF CountInv, OutboxTypeOK
<1>4. PassShape' /\ BatchesDisjoint'
  BY <1>1 DEF CountInv, PassShape, BatchesDisjoint
<1>5. ClaimedPending'
  BY <1>1, <1>2 DEF CountInv, OutboxTypeOK, ClaimedPending
<1>6. CallsCounted'
  BY <1>1 DEF CountInv, CallsCounted, InFlight
<1> QED BY <1>3, <1>4, <1>5, <1>6 DEF CountInv

\* Claiming locks pending rows no other pass has locked (claim_pending).
LEMMA RunOnceCount ==
    ASSUME CountInv, NEW r \in Relays, RunOnce(r)
    PROVE  CountInv'
<1> DEFINE claimed == Oldest(Pending \ Locked)
<1>1. /\ claimed \subseteq Pending
      /\ \A s \in Relays : claimed \cap batch[s] = {}
      /\ claimed \subseteq Events
  BY DEF Oldest, Pending, Locked
<1> HIDE DEF claimed
<1>2. /\ batch[r] = {}
      /\ batch' = [batch EXCEPT ![r] = claimed]
      /\ todo' = [todo EXCEPT ![r] = claimed]
      /\ loaded' = [loaded EXCEPT ![r] = attemptCount]
      /\ UNCHANGED <<rowVars, marked, errs, queue, calls, rollbacks>>
  BY DEF RunOnce, claimed
<1>3. OutboxTypeOK'
  BY <1>1, <1>2 DEF CountInv, OutboxTypeOK, rowVars
<1>4. PassShape'
  BY <1>2 DEF CountInv, OutboxTypeOK, PassShape
<1>5. BatchesDisjoint'
  BY <1>1, <1>2 DEF CountInv, OutboxTypeOK, BatchesDisjoint
<1>6. ClaimedPending'
  <2> SUFFICES ASSUME NEW s \in Relays, NEW e \in batch'[s]
               PROVE  (/\ tx[e] = "committed"
                       /\ e \notin dispatched
                       /\ attemptCount[e] < MaxAttempts
                       /\ loaded[s][e] = attemptCount[e]
                                          + (IF e \in todo[s] THEN 0 ELSE 1))'
    BY DEF ClaimedPending
  <2>1. CASE s = r
    BY <1>1, <1>2, <2>1 DEF CountInv, OutboxTypeOK, rowVars, Pending
  <2>2. CASE s # r
    BY <1>2, <2>2 DEF CountInv, OutboxTypeOK, rowVars, ClaimedPending
  <2> QED BY <2>1, <2>2
<1>7. CallsCounted'
  BY <1>2 DEF CountInv, OutboxTypeOK, rowVars, CallsCounted, InFlight
<1> QED BY <1>3, <1>4, <1>5, <1>6, <1>7 DEF CountInv

\* A dispatch counts the attempt in the loaded object and publishes once.
LEMMA AttemptCounted ==
    ASSUME CountInv, NEW r \in Relays, NEW e \in Events, Attempt(r, e)
    PROVE  /\ attemptCount' = attemptCount
           /\ loaded' \in [Relays -> [Events -> 0..MaxAttempts]]
           /\ todo' \in [Relays -> SUBSET Events]
           /\ calls' \in [Events -> Nat]
           /\ BatchesDisjoint'
           /\ ClaimedPending'
           /\ CallsCounted'
<1>1. e \in batch[r] /\ e \in todo[r]
  BY DEF CountInv, Attempt, PassShape
<1>2. loaded[r][e] < MaxAttempts
  BY <1>1 DEF CountInv, ClaimedPending, OutboxTypeOK
<1>3. /\ loaded' \in [Relays -> [Events -> 0..MaxAttempts]]
      /\ todo' \in [Relays -> SUBSET Events]
      /\ calls' \in [Events -> Nat]
  BY <1>2 DEF CountInv, Attempt, OutboxTypeOK
<1>4. ClaimedPending'
  BY <1>1 DEF CountInv, Attempt, OutboxTypeOK, ClaimedPending, rowVars,
              BatchesDisjoint
<1>5. CallsCounted'
  <2>1. ~InFlight(e)
    BY <1>1 DEF CountInv, InFlight, BatchesDisjoint, OutboxTypeOK
  <2>2. InFlight(e)'
    BY <1>1 DEF CountInv, Attempt, InFlight, OutboxTypeOK
  <2>3. \A f \in Events \ {e} : InFlight(f) => InFlight(f)'
    BY DEF CountInv, Attempt, InFlight, OutboxTypeOK
  <2>4. calls[e] <= attemptCount[e] + rollbacks
    BY <2>1 DEF CountInv, CallsCounted
  <2> QED BY <2>2, <2>3, <2>4
          DEF CountInv, Attempt, CallsCounted, OutboxTypeOK, rowVars
<1> QED BY <1>3, <1>4, <1>5 DEF CountInv, Attempt, BatchesDisjoint, rowVars

\* A dispatch, confirmed or failed, keeps the counters in order.
LEMMA DispatchCount ==
    ASSUME CountInv, NEW r \in Relays, Dispatch(r)
    PROVE  CountInv'
<1>1. PICK e \in Events :
          /\ Attempt(r, e)
          /\ queue' \in [Consumers -> SUBSET Events]
          /\ \/ /\ marked' = [marked EXCEPT ![r] = @ \cup {e}]
                /\ errs' = errs
             \/ /\ errs' = [errs EXCEPT ![r] = @ \cup {e}]
                /\ marked' = marked
  <2>1. PICK e \in todo[r] :
            DispatchConfirmed(r, e)
            \/ \E D \in SUBSET Consumers : DispatchFailed(r, e, D)
    BY DEF Dispatch
  <2>2. e \in Events /\ queue \in [Consumers -> SUBSET Events]
    BY DEF CountInv, OutboxTypeOK
  <2>3. CASE DispatchConfirmed(r, e)
    BY <2>2, <2>3 DEF DispatchConfirmed
  <2>4. ASSUME NEW D \in SUBSET Consumers, DispatchFailed(r, e, D)
        PROVE  /\ Attempt(r, e)
               /\ queue' \in [Consumers -> SUBSET Events]
               /\ errs' = [errs EXCEPT ![r] = @ \cup {e}]
               /\ marked' = marked
    BY <2>2, <2>4 DEF DispatchFailed
  <2> QED BY <2>1, <2>2, <2>3, <2>4
<1>2. /\ attemptCount' = attemptCount
      /\ loaded' \in [Relays -> [Events -> 0..MaxAttempts]]
      /\ todo' \in [Relays -> SUBSET Events]
      /\ calls' \in [Events -> Nat]
      /\ BatchesDisjoint'
      /\ ClaimedPending'
      /\ CallsCounted'
  BY <1>1, AttemptCounted
<1>3. OutboxTypeOK'
  <2>1. /\ marked' \in [Relays -> SUBSET Events]
        /\ errs' \in [Relays -> SUBSET Events]
    <3>1. /\ marked \in [Relays -> SUBSET Events]
          /\ errs \in [Relays -> SUBSET Events]
      BY DEF CountInv, OutboxTypeOK
    <3>2. CASE /\ marked' = [marked EXCEPT ![r] = @ \cup {e}]
               /\ errs' = errs
      BY <3>1, <3>2
    <3>3. CASE /\ errs' = [errs EXCEPT ![r] = @ \cup {e}]
               /\ marked' = marked
      BY <3>1, <3>3
    <3> QED BY <1>1, <3>2, <3>3
  <2> QED BY <1>1, <1>2, <2>1 DEF CountInv, OutboxTypeOK, Attempt, rowVars
<1>4. PassShape'
  BY <1>1 DEF CountInv, OutboxTypeOK, Attempt, PassShape
<1> QED BY <1>2, <1>3, <1>4 DEF CountInv

\* The write-back of absolute values counts exactly one attempt per row.
LEMMA CommitPassCount ==
    ASSUME CountInv, NEW r \in Relays, CommitPass(r)
    PROVE  CountInv'
<1>1. \A e \in batch[r] : attemptCount'[e] = attemptCount[e] + 1
  BY DEF CountInv, CommitPass, ClaimedPending, OutboxTypeOK
<1>2. \A e \in Events \ batch[r] : attemptCount'[e] = attemptCount[e]
  BY DEF CountInv, CommitPass, OutboxTypeOK
<1>3. OutboxTypeOK'
  <2>1. attemptCount' \in [Events -> 0..MaxAttempts]
    BY DEF CountInv, CommitPass, OutboxTypeOK
  <2>2. /\ batch' \in [Relays -> SUBSET Events]
        /\ todo' \in [Relays -> SUBSET Events]
        /\ marked' \in [Relays -> SUBSET Events]
        /\ errs' \in [Relays -> SUBSET Events]
    BY DEF CountInv, CommitPass, ClosePass, OutboxTypeOK
  <2>3. loaded' \in [Relays -> [Events -> 0..MaxAttempts]]
    BY DEF CountInv, CommitPass, ClosePass, OutboxTypeOK
  <2>4. dispatched' \in SUBSET Events /\ lastError' \in SUBSET Events
    BY DEF CountInv, CommitPass, OutboxTypeOK
  <2> QED BY <2>1, <2>2, <2>3, <2>4 DEF CountInv, CommitPass, OutboxTypeOK
<1>4. PassShape' /\ BatchesDisjoint'
  BY DEF CountInv, CommitPass, ClosePass, OutboxTypeOK, PassShape,
         BatchesDisjoint
<1>5. ClaimedPending'
  <2> SUFFICES ASSUME NEW s \in Relays, NEW e \in batch'[s]
               PROVE  (/\ tx[e] = "committed"
                       /\ e \notin dispatched
                       /\ attemptCount[e] < MaxAttempts
                       /\ loaded[s][e] = attemptCount[e]
                                          + (IF e \in todo[s] THEN 0 ELSE 1))'
    BY DEF ClaimedPending
  <2>1. /\ s # r /\ e \in batch[s] /\ e \notin batch[r] /\ e \in Events
        /\ loaded'[s] = loaded[s] /\ todo'[s] = todo[s]
    BY DEF CountInv, CommitPass, ClosePass, OutboxTypeOK, BatchesDisjoint
  <2>2. e \notin marked[r]
    BY <2>1 DEF CountInv, PassShape
  <2> QED BY <1>2, <2>1, <2>2 DEF CountInv, CommitPass, ClaimedPending
<1>6. CallsCounted'
  <2> SUFFICES ASSUME NEW e \in Events
               PROVE  (/\ calls[e] <= attemptCount[e] + rollbacks + 1
                       /\ InFlight(e) \/ calls[e] <= attemptCount[e]
                                                      + rollbacks)'
    BY DEF CallsCounted
  <2>1. CASE e \in batch[r]
    <3>1. /\ calls'[e] = calls[e] /\ rollbacks' = rollbacks
          /\ attemptCount'[e] = attemptCount[e] + 1
          /\ calls[e] <= attemptCount[e] + rollbacks + 1
      BY <1>1, <2>1 DEF CountInv, CommitPass, CallsCounted
    <3>2. calls[e] \in Nat /\ attemptCount[e] \in Nat /\ rollbacks \in Nat
      BY DEF CountInv, OutboxTypeOK
    <3> QED BY <3>1, <3>2
  <2>2. CASE e \notin batch[r]
    <3>1. InFlight(e) => InFlight(e)'
      BY <2>2 DEF CountInv, CommitPass, ClosePass, InFlight, OutboxTypeOK
    <3> QED BY <1>2, <2>2, <3>1
            DEF CountInv, CommitPass, CallsCounted, OutboxTypeOK
  <2> QED BY <2>1, <2>2
<1> QED BY <1>3, <1>4, <1>5, <1>6 DEF CountInv

\* A lost pass forgets at most one publication of each row.
LEMMA RollbackPassCount ==
    ASSUME CountInv, NEW r \in Relays, RollbackPass(r)
    PROVE  CountInv'
<1>1. OutboxTypeOK'
  BY DEF CountInv, RollbackPass, ClosePass, OutboxTypeOK, rowVars
<1>2. PassShape' /\ BatchesDisjoint' /\ ClaimedPending'
  BY DEF CountInv, RollbackPass, ClosePass, OutboxTypeOK, rowVars, PassShape,
         BatchesDisjoint, ClaimedPending
<1>3. CallsCounted'
  BY DEF CountInv, RollbackPass, ClosePass, OutboxTypeOK, rowVars, CallsCounted
<1> QED BY <1>1, <1>2, <1>3 DEF CountInv

\* Every step keeps the counters in order.
LEMMA NextCount == CountInv /\ [OutboxNext]_outboxVars => CountInv'
<1> SUFFICES ASSUME CountInv, [OutboxNext]_outboxVars PROVE CountInv'
  OBVIOUS
<1>1. CASE UNCHANGED outboxVars
  BY <1>1 DEF outboxVars, CountInv, OutboxTypeOK, PassShape, BatchesDisjoint,
              ClaimedPending, CallsCounted, InFlight
<1>2. ASSUME NEW e \in Events, Business(e) PROVE CountInv'
  BY <1>2, BusinessCount
<1>3. ASSUME NEW r \in Relays, RelayProgress(r) PROVE CountInv'
  BY <1>3, RunOnceCount, DispatchCount, CommitPassCount DEF RelayProgress
<1>4. ASSUME NEW r \in Relays, RollbackPass(r) PROVE CountInv'
  BY <1>4, RollbackPassCount
<1> QED BY <1>1, <1>2, <1>3, <1>4 DEF OutboxNext

----------------------------------------------------------------------------
(* The marks, the errors and the queues.                                   *)

\* A pass that commits gives every row it claimed one attempt more, and
\* dispatches it or says why not.
EachCounted(r) ==
    \A e \in batch[r] :
        /\ attemptCount'[e] = attemptCount[e] + 1
        /\ e \in dispatched' \/ e \in lastError'

\* The flush writes the counted attempts, the marks and the errors.
LEMMA CommitCounts ==
    ASSUME CountInv, NEW r \in Relays, CommitPass(r)
    PROVE  EachCounted(r)
<1> SUFFICES ASSUME NEW e \in batch[r]
             PROVE  /\ attemptCount'[e] = attemptCount[e] + 1
                    /\ e \in dispatched' \/ e \in lastError'
  BY DEF EachCounted
<1>1. e \in Events /\ todo[r] = {} /\ attemptCount'[e] = loaded[r][e]
  BY DEF CommitPass, CountInv, OutboxTypeOK
<1>2. loaded[r][e] = attemptCount[e] + 1
  BY <1>1 DEF CountInv, ClaimedPending
<1>3. e \in marked[r] \cup errs[r]
  BY <1>1 DEF CountInv, PassShape
<1> QED BY <1>1, <1>2, <1>3 DEF CommitPass

\* Only a commit counts attempts, and with each it leaves an error or a mark.
LEMMA NextFailure ==
    CountInv /\ GivenUpHasError /\ [OutboxNext]_outboxVars
        => GivenUpHasError'
<1> SUFFICES ASSUME CountInv, GivenUpHasError, [OutboxNext]_outboxVars
             PROVE  GivenUpHasError'
  OBVIOUS
<1>1. ASSUME NEW r \in Relays, CommitPass(r) PROVE GivenUpHasError'
  <2> SUFFICES ASSUME NEW e \in Events,
                      attemptCount'[e] > 0, e \notin dispatched'
               PROVE  e \in lastError'
    BY DEF GivenUpHasError
  <2>1. CASE e \in batch[r]
    BY <1>1, <2>1, CommitCounts DEF EachCounted
  <2>2. CASE e \notin batch[r]
    BY <1>1, <2>2 DEF CommitPass, GivenUpHasError
  <2> QED BY <2>1, <2>2
<1>2. ASSUME UNCHANGED <<attemptCount, dispatched, lastError>>
      PROVE  GivenUpHasError'
  BY <1>2 DEF GivenUpHasError
<1> QED BY <1>1, <1>2
        DEF OutboxNext, outboxVars, RelayProgress, Business, Enqueue,
            EndBusiness, RunOnce, Dispatch, DispatchConfirmed,
            DispatchFailed, Attempt, RollbackPass, rowVars

DeliveryInv == /\ MarkedWasQueued
               /\ DispatchedWasQueued

\* Initially nothing is queued or marked.
LEMMA InitDelivery == OutboxInit => DeliveryInv
BY DEF OutboxInit, DeliveryInv, MarkedWasQueued, DispatchedWasQueued

\* A business transaction touches no row the relays marked.
LEMMA BusinessDelivery ==
    ASSUME DeliveryInv, NEW e \in Events, Business(e)
    PROVE  DeliveryInv'
<1>1. UNCHANGED <<dispatched, marked, queue>>
  BY DEF Business, Enqueue, EndBusiness, passVars
<1> QED BY <1>1 DEF DeliveryInv, MarkedWasQueued, DispatchedWasQueued

\* A dispatch takes nothing from the queues, and marks an event only when it
\* added it to all of them.
LEMMA DispatchDelivery ==
    ASSUME CountInv, DeliveryInv, NEW r \in Relays, Dispatch(r)
    PROVE  DeliveryInv'
<1>1. PICK e \in todo[r] :
          DispatchConfirmed(r, e)
          \/ \E D \in SUBSET Consumers : DispatchFailed(r, e, D)
  BY DEF Dispatch
<1>2. e \in Events
  BY DEF CountInv, OutboxTypeOK
<1>3. UNCHANGED rowVars
  BY <1>1 DEF DispatchConfirmed, DispatchFailed, Attempt
<1>4. CASE DispatchConfirmed(r, e)
  <2>1. /\ queue' = [c \in Consumers |-> queue[c] \cup {e}]
        /\ marked' = [marked EXCEPT ![r] = @ \cup {e}]
    BY <1>4 DEF DispatchConfirmed
  <2>2. MarkedWasQueued'
    BY <2>1 DEF CountInv, OutboxTypeOK, DeliveryInv, MarkedWasQueued
  <2> QED BY <1>2, <1>3, <2>1, <2>2 DEF DeliveryInv, rowVars,
            DispatchedWasQueued
<1>5. ASSUME NEW D \in SUBSET Consumers, DispatchFailed(r, e, D)
      PROVE  DeliveryInv'
  <2>1. /\ queue' = [c \in Consumers |->
                        IF c \in D THEN queue[c] \cup {e} ELSE queue[c]]
        /\ marked' = marked
    BY <1>5 DEF DispatchFailed
  <2> QED BY <1>2, <1>3, <2>1 DEF DeliveryInv, rowVars,
            MarkedWasQueued, DispatchedWasQueued
<1> QED BY <1>1, <1>4, <1>5

\* The commit publishes marks that were queued.
LEMMA CommitPassDelivery ==
    ASSUME CountInv, DeliveryInv, NEW r \in Relays, CommitPass(r)
    PROVE  DeliveryInv'
<1>1. MarkedWasQueued'
  BY DEF CountInv, OutboxTypeOK, CommitPass, ClosePass, DeliveryInv,
         MarkedWasQueued
<1>2. DispatchedWasQueued'
  BY DEF CommitPass, DeliveryInv, MarkedWasQueued, DispatchedWasQueued
<1> QED BY <1>1, <1>2 DEF DeliveryInv

\* Every step keeps marks and queues in order.
LEMMA NextDelivery ==
    CountInv /\ DeliveryInv /\ [OutboxNext]_outboxVars => DeliveryInv'
<1> SUFFICES ASSUME CountInv, DeliveryInv, [OutboxNext]_outboxVars
             PROVE  DeliveryInv'
  OBVIOUS
<1>1. CASE UNCHANGED outboxVars
  BY <1>1 DEF outboxVars, DeliveryInv, MarkedWasQueued,
              DispatchedWasQueued
<1>2. ASSUME NEW e \in Events, Business(e) PROVE DeliveryInv'
  BY <1>2, BusinessDelivery
<1>3. ASSUME NEW r \in Relays, RunOnce(r) PROVE DeliveryInv'
  BY <1>3 DEF RunOnce, rowVars, DeliveryInv, MarkedWasQueued,
              DispatchedWasQueued
<1>4. ASSUME NEW r \in Relays, Dispatch(r) PROVE DeliveryInv'
  BY <1>4, DispatchDelivery
<1>5. ASSUME NEW r \in Relays, CommitPass(r) PROVE DeliveryInv'
  BY <1>5, CommitPassDelivery
<1>6. ASSUME NEW r \in Relays, RollbackPass(r) PROVE DeliveryInv'
  BY <1>6 DEF RollbackPass, ClosePass, rowVars, CountInv, OutboxTypeOK,
              DeliveryInv, MarkedWasQueued,
              DispatchedWasQueued
<1> QED BY <1>1, <1>2, <1>3, <1>4, <1>5, <1>6 DEF OutboxNext, RelayProgress

----------------------------------------------------------------------------
(* The theorems.                                                           *)

\* The inductive invariant holds in every reachable state.
THEOREM OutboxInvariantHolds == OutboxSpec => []OutboxInv
<1>1. OutboxInit => OutboxInv
  BY InitCount, InitDelivery
     DEF OutboxInv, DeliveryInv, OutboxInit, GivenUpHasError
<1>2. OutboxInv /\ [OutboxNext]_outboxVars => OutboxInv'
  BY NextCount, NextFailure, NextDelivery DEF OutboxInv, DeliveryInv
<1> QED BY <1>1, <1>2, PTL DEF OutboxSpec

\* Every variable keeps its type; in particular no loaded attempt_count
\* passes max_attempts.
THEOREM OutboxTypeCorrect == OutboxSpec => []OutboxTypeOK
<1>1. OutboxInv => OutboxTypeOK
  BY DEF OutboxInv, CountInv
<1> QED BY <1>1, OutboxInvariantHolds, PTL

\* The counters bound the publications: a row in flight has an attempt left.
LEMMA CountBounds == CountInv => PublishBound
<1> SUFFICES ASSUME CountInv, NEW e \in Events
             PROVE  calls[e] <= MaxAttempts + rollbacks
  BY DEF PublishBound
<1>1. /\ calls[e] \in Nat /\ rollbacks \in Nat
      /\ attemptCount[e] \in 0..MaxAttempts
  BY DEF CountInv, OutboxTypeOK
<1>2. CASE InFlight(e)
  <2>1. attemptCount[e] < MaxAttempts
    BY <1>2 DEF CountInv, InFlight, ClaimedPending
  <2>2. calls[e] <= attemptCount[e] + rollbacks + 1
    BY DEF CountInv, CallsCounted
  <2> QED BY <1>1, <2>1, <2>2
<1>3. CASE ~InFlight(e)
  BY <1>1, <1>3 DEF CountInv, CallsCounted
<1> QED BY <1>2, <1>3

\* However many relays run, an event is published at most max_attempts
\* times, plus once for each pass that was rolled back.
THEOREM PublishBounded == OutboxSpec => []PublishBound
<1>1. OutboxInv => PublishBound
  BY CountBounds DEF OutboxInv
<1> QED BY <1>1, OutboxInvariantHolds, PTL

\* A row marked dispatched was accepted by every queue.
THEOREM DispatchIsSound == OutboxSpec => []DispatchedWasQueued
<1>1. OutboxInv => DispatchedWasQueued
  BY DEF OutboxInv
<1> QED BY <1>1, OutboxInvariantHolds, PTL

\* A row that was tried and is not dispatched carries its last error.
THEOREM FailureIsRecorded == OutboxSpec => []GivenUpHasError
<1>1. OutboxInv => GivenUpHasError
  BY DEF OutboxInv
<1> QED BY <1>1, OutboxInvariantHolds, PTL

\* What DispatchedIsFinal says of a step.
DispatchedKept ==
    \A e \in dispatched : /\ calls'[e] = calls[e]
                          /\ attemptCount'[e] = attemptCount[e]
                          /\ e \in dispatched'

\* A pass never holds a dispatched row, so no step of it touches one.
LEMMA DispatchedStep ==
    ASSUME CountInv, OutboxNext
    PROVE  DispatchedKept
<1>1. ASSUME NEW e \in Events, Business(e) PROVE DispatchedKept
  BY <1>1 DEF Business, Enqueue, EndBusiness, DispatchedKept
<1>2. ASSUME NEW r \in Relays, RunOnce(r) PROVE DispatchedKept
  BY <1>2 DEF RunOnce, rowVars, DispatchedKept
<1>3. ASSUME NEW r \in Relays, Dispatch(r) PROVE DispatchedKept
  <2>1. PICK e \in todo[r] : Attempt(r, e)
    BY <1>3 DEF Dispatch, DispatchConfirmed, DispatchFailed
  <2>2. e \notin dispatched
    BY <2>1 DEF CountInv, PassShape, ClaimedPending
  <2> QED BY <2>1, <2>2
          DEF Attempt, rowVars, CountInv, OutboxTypeOK, DispatchedKept
<1>4. ASSUME NEW r \in Relays, CommitPass(r) PROVE DispatchedKept
  BY <1>4 DEF CommitPass, CountInv, OutboxTypeOK, ClaimedPending,
              DispatchedKept
<1>5. ASSUME NEW r \in Relays, RollbackPass(r) PROVE DispatchedKept
  BY <1>5 DEF RollbackPass, rowVars, DispatchedKept
<1> QED BY <1>1, <1>2, <1>3, <1>4, <1>5 DEF OutboxNext, RelayProgress

\* Once a row is dispatched no pass publishes or counts it again.
THEOREM DispatchedStays == OutboxSpec => DispatchedIsFinal
<1>1. OutboxInv /\ [OutboxNext]_outboxVars => [DispatchedKept]_outboxVars
  BY DispatchedStep DEF OutboxInv
<1> QED BY <1>1, OutboxInvariantHolds, PTL
        DEF OutboxSpec, DispatchedIsFinal, DispatchedKept

\* No pass is wasted: one that commits uses up an attempt of every row it
\* claimed, so a row is claimed by at most MaxAttempts passes that commit
\* and the table of pending rows runs empty (_dispatch, the flush).
THEOREM NoPassIsWasted ==
    OutboxSpec =>
        [][\A r \in Relays : CommitPass(r) => EachCounted(r)]_outboxVars
<1>1. OutboxInv /\ [OutboxNext]_outboxVars
        => [\A r \in Relays : CommitPass(r) => EachCounted(r)]_outboxVars
  BY CommitCounts DEF OutboxInv
<1> QED BY <1>1, OutboxInvariantHolds, PTL DEF OutboxSpec

----------------------------------------------------------------------------
(* The inbox by itself.                                                    *)

\* A busy worker has a key; an uncommitted claim is exclusive and of a key
\* that is not processed yet; a finished worker's key is processed.
WorkerInv ==
    \A w \in Workers :
        /\ pc[w] # "idle" => key[w] \in Keys
        /\ pc[w] = "claimed" =>
              /\ key[w] \notin processed
              /\ \A v \in Workers \ {w} : pc[v] = "claimed" => key[v] # key[w]
        /\ pc[w] = "finished" => key[w] \in processed

InboxInv == InboxTypeOK /\ WorkerInv /\ ExactlyOnceEffects

\* Before anything is received no worker is busy and nothing is processed.
LEMMA InboxInitInv == InboxInit => InboxInv
BY DEF InboxInit, ConsumersInit, InboxInv, InboxTypeOK, WorkerInv,
       ExactlyOnceEffects

\* Taking a message gives the worker a key of an existing consumer.
LEMMA ReceiveInv ==
    ASSUME InboxInv, NEW w \in Workers, Receive(w)
    PROVE  InboxInv'
<1>1. PICK k \in Keys : key' = [key EXCEPT ![w] = k]
  BY DEF Receive, InboxInv, InboxTypeOK, Keys
<1>2. InboxTypeOK'
  BY <1>1 DEF Receive, InboxInv, InboxTypeOK
<1>3. WorkerInv'
  BY <1>1 DEF Receive, InboxInv, InboxTypeOK, WorkerInv
<1>4. ExactlyOnceEffects'
  BY DEF Receive, InboxInv, ExactlyOnceEffects
<1> QED BY <1>2, <1>3, <1>4 DEF InboxInv

\* The unique key makes the claim exclusive.
LEMMA ConsumeOnceInv ==
    ASSUME InboxInv, NEW w \in Workers, ConsumeOnce(w)
    PROVE  InboxInv'
<1>1. InboxTypeOK'
  BY DEF ConsumeOnce, InboxInv, InboxTypeOK
<1>2. WorkerInv'
  BY DEF ConsumeOnce, ClaimInFlight, InboxInv, InboxTypeOK, WorkerInv
<1>3. ExactlyOnceEffects'
  BY DEF ConsumeOnce, InboxInv, ExactlyOnceEffects
<1> QED BY <1>1, <1>2, <1>3 DEF InboxInv

\* The committing worker held the only claim of its key: the effects go
\* from 0 to 1 in the step that records the key.
LEMMA CommitEffectsInv ==
    ASSUME InboxInv, NEW w \in Workers, CommitEffects(w)
    PROVE  InboxInv'
<1>1. key[w] \in Keys /\ key[w] \notin processed
  BY DEF CommitEffects, InboxInv, WorkerInv
<1>2. InboxTypeOK'
  BY <1>1 DEF CommitEffects, InboxInv, InboxTypeOK
<1>3. WorkerInv'
  BY <1>1 DEF CommitEffects, InboxInv, InboxTypeOK, WorkerInv
<1>4. ExactlyOnceEffects'
  BY <1>1 DEF CommitEffects, InboxInv, InboxTypeOK, ExactlyOnceEffects
<1> QED BY <1>2, <1>3, <1>4 DEF InboxInv

\* An acknowledgement changes the queue and the worker, not the records.
LEMMA AckInv ==
    ASSUME InboxInv, NEW w \in Workers, Ack(w)
    PROVE  InboxInv'
<1>1. key[w] \in Keys
  BY DEF Ack, InboxInv, WorkerInv
<1>2. InboxTypeOK'
  BY <1>1 DEF Ack, InboxInv, InboxTypeOK, Keys
<1>3. WorkerInv' /\ ExactlyOnceEffects'
  BY DEF Ack, InboxInv, InboxTypeOK, WorkerInv, ExactlyOnceEffects
<1> QED BY <1>2, <1>3 DEF InboxInv

\* An aborted delivery leaves nothing behind but the queued message.
LEMMA AbortInv ==
    ASSUME InboxInv, NEW w \in Workers, Abort(w)
    PROVE  InboxInv'
<1>1. InboxTypeOK'
  BY DEF Abort, InboxInv, InboxTypeOK
<1>2. WorkerInv' /\ ExactlyOnceEffects'
  BY DEF Abort, InboxInv, InboxTypeOK, WorkerInv, ExactlyOnceEffects
<1> QED BY <1>1, <1>2 DEF InboxInv

\* A message published once more, at any time, disturbs nothing.
LEMMA PublishInv ==
    ASSUME InboxInv, NEW c \in Consumers, NEW e \in Events, Publish(c, e)
    PROVE  InboxInv'
BY DEF Publish, consumerVars, InboxInv, InboxTypeOK, WorkerInv,
       ExactlyOnceEffects

\* Every step of the inbox keeps the invariant.
LEMMA InboxNextInv == InboxInv /\ [InboxNext]_inboxVars => InboxInv'
<1>1. CASE UNCHANGED inboxVars
  BY <1>1 DEF inboxVars, consumerVars, InboxInv, InboxTypeOK, WorkerInv,
              ExactlyOnceEffects
<1> QED BY <1>1, ReceiveInv, ConsumeOnceInv, CommitEffectsInv, AckInv,
           AbortInv, PublishInv DEF InboxNext, WorkerStep, WorkerProgress

\* The inductive invariant holds in every reachable state.
THEOREM InboxInvariantHolds == InboxSpec => []InboxInv
BY InboxInitInv, InboxNextInv, PTL DEF InboxSpec

\* Queues, keys, program counters and effects keep their types, whatever is
\* redelivered or rolled back.
THEOREM InboxTypeCorrect == InboxSpec => []InboxTypeOK
<1>1. InboxInv => InboxTypeOK
  BY DEF InboxInv
<1> QED BY <1>1, InboxInvariantHolds, PTL

\* The effects of a handler are committed at most once per consumer and
\* event, and exactly when the key is recorded, for any number of workers,
\* redeliveries and failures.
THEOREM ExactlyOnce == InboxSpec => []ExactlyOnceEffects
<1>1. InboxInv => ExactlyOnceEffects
  BY DEF InboxInv
<1> QED BY <1>1, InboxInvariantHolds, PTL

\* What AckedWasProcessed says of a step.
OnlyProcessedLeave ==
    \A k \in Keys : k[2] \in queue[k[1]] /\ k[2] \notin queue'[k[1]]
                        => k \in processed

\* Of the inbox's steps only Ack takes a message out of its queue.
LEMMA AckStep ==
    ASSUME InboxInv, InboxNext
    PROVE  OnlyProcessedLeave
<1>1. ASSUME NEW w \in Workers, Ack(w) PROVE OnlyProcessedLeave
  <2>1. key[w] \in processed /\ key[w] \in Keys
    BY <1>1 DEF Ack, InboxInv, WorkerInv
  <2>2. \A k \in Keys : k[1] = key[w][1] /\ k[2] = key[w][2] => k = key[w]
    BY <2>1 DEF Keys
  <2>3. ASSUME NEW k \in Keys,
               k[2] \in queue[k[1]], k[2] \notin queue'[k[1]]
        PROVE  k[1] = key[w][1] /\ k[2] = key[w][2]
    BY <1>1, <2>1, <2>3 DEF Ack, InboxInv, InboxTypeOK, Keys
  <2> QED BY <2>1, <2>2, <2>3 DEF OnlyProcessedLeave
<1>2. ASSUME NEW c \in Consumers, NEW e \in Events, Publish(c, e)
      PROVE  OnlyProcessedLeave
  BY <1>2 DEF Publish, InboxInv, InboxTypeOK, Keys, OnlyProcessedLeave
<1>3. ASSUME UNCHANGED queue PROVE OnlyProcessedLeave
  BY <1>3 DEF OnlyProcessedLeave
<1> QED BY <1>1, <1>2, <1>3 DEF InboxNext, WorkerStep, WorkerProgress,
           Receive, ConsumeOnce, CommitEffects, Abort

\* A message leaves its queue only when its key is processed.
THEOREM AckIsSafe == InboxSpec => AckedWasProcessed
<1>1. InboxInv /\ [InboxNext]_inboxVars => [OnlyProcessedLeave]_inboxVars
  BY AckStep
<1> QED BY <1>1, InboxInvariantHolds, PTL
        DEF InboxSpec, AckedWasProcessed, OnlyProcessedLeave

----------------------------------------------------------------------------
(* The two halves together.                                                *)

\* Whatever is queued or being consumed was committed by the business.
OnlyCommitted ==
    /\ \A c \in Consumers : \A e \in queue[c] : tx[e] = "committed"
    /\ \A w \in Workers : pc[w] # "idle" => tx[key[w][2]] = "committed"

Reached(e) == \A c \in Consumers : e \in queue[c] \/ <<c, e>> \in processed

\* What a running pass is about to mark dispatched has reached everybody.
MarkedReached == \A r \in Relays : \A e \in marked[r] : Reached(e)

Glue == OnlyCommitted /\ MarkedReached /\ NoLostEvent

IInv == CountInv /\ InboxInv /\ Glue

----------------------------------------------------------------------------
(* What each half keeps of the other.                                      *)

\* The relay's invariant does not depend on what the workers do, nor the
\* inbox's on what the relay does but for the type of the shared queues.
LEMMA RelayKeepsCount ==
    ASSUME IInv, OutboxNext
    PROVE  CountInv'
BY NextCount DEF IInv

\* A relay step changes of the inbox only the queues' contents.
LEMMA RelayKeepsInbox ==
    ASSUME IInv, OutboxNext, UNCHANGED consumerVars
    PROVE  InboxInv'
<1>1. CountInv'
  BY RelayKeepsCount
<1>2. queue' \in [Consumers -> SUBSET Events]
  BY <1>1 DEF CountInv, OutboxTypeOK
<1> QED BY <1>2 DEF consumerVars, IInv, InboxInv, InboxTypeOK, WorkerInv,
                    ExactlyOnceEffects

\* A worker step keeps the inbox's invariant.
LEMMA WorkerKeepsInbox ==
    ASSUME IInv, WorkerStep
    PROVE  InboxInv'
<1>1. InboxNext
  BY DEF InboxNext
<1> QED BY <1>1, InboxNextInv DEF IInv

\* A worker step changes of the relay only the queues' contents.
LEMMA WorkerKeepsCount ==
    ASSUME IInv, WorkerStep, UNCHANGED relayOnly
    PROVE  CountInv'
<1>1. queue' \in [Consumers -> SUBSET Events]
  BY WorkerKeepsInbox DEF InboxInv, InboxTypeOK
<1>2. UNCHANGED <<tx, attemptCount, dispatched, lastError, batch, todo,
                  loaded, marked, errs, calls, rollbacks>>
  BY DEF relayOnly
<1>3. OutboxTypeOK'
  BY <1>1, <1>2 DEF IInv, CountInv, OutboxTypeOK
<1> QED BY <1>2, <1>3 DEF IInv, CountInv, PassShape,
           BatchesDisjoint, ClaimedPending, CallsCounted, InFlight

----------------------------------------------------------------------------
(* The glue.                                                               *)

\* The end of a business transaction takes no commit back.
LEMMA BusinessGlue ==
    ASSUME IInv, NEW e \in Events, Business(e), UNCHANGED consumerVars
    PROVE  Glue'
<1>1. /\ tx[e] # "committed"
      /\ UNCHANGED <<dispatched, marked, queue, processed, pc, key>>
  BY DEF Business, Enqueue, EndBusiness, passVars,
         consumerVars
<1>2. \A f \in Events : tx[f] = "committed" => tx'[f] = "committed"
  BY <1>1 DEF Business, Enqueue, EndBusiness, IInv,
              CountInv, OutboxTypeOK
<1>3. \A w \in Workers : pc[w] # "idle" => key[w][2] \in Events
  BY DEF IInv, InboxInv, WorkerInv, Keys
<1>4. \A c \in Consumers : queue[c] \subseteq Events
  BY DEF IInv, CountInv, OutboxTypeOK
<1>5. OnlyCommitted'
  BY <1>1, <1>2, <1>3, <1>4 DEF IInv, Glue, OnlyCommitted
<1> QED BY <1>1, <1>5 DEF IInv, Glue, MarkedReached, Reached, NoLostEvent

\* A publish reaches the queues before the row is marked.
LEMMA DispatchGlue ==
    ASSUME IInv, NEW r \in Relays, Dispatch(r), UNCHANGED consumerVars
    PROVE  Glue'
<1>1. PICK e \in todo[r] :
          DispatchConfirmed(r, e)
          \/ \E D \in SUBSET Consumers : DispatchFailed(r, e, D)
  BY DEF Dispatch
<1>2. tx[e] = "committed"
  BY DEF IInv, CountInv, PassShape, ClaimedPending
<1>3. UNCHANGED <<tx, dispatched, processed, pc, key>>
  BY <1>1 DEF DispatchConfirmed, DispatchFailed, Attempt,
              rowVars, consumerVars
<1>4. \A c \in Consumers : /\ queue[c] \subseteq queue'[c]
                           /\ queue'[c] \subseteq queue[c] \cup {e}
  BY <1>1 DEF DispatchConfirmed, DispatchFailed
<1>5. OnlyCommitted'
  BY <1>2, <1>3, <1>4 DEF IInv, Glue, OnlyCommitted
<1>6. \A f : Reached(f) => Reached(f)'
  BY <1>3, <1>4 DEF Reached
<1>7. NoLostEvent'
  BY <1>3, <1>4 DEF IInv, Glue, NoLostEvent
<1>8. MarkedReached'
  <2>1. CASE DispatchConfirmed(r, e)
    <3>1. marked' = [marked EXCEPT ![r] = @ \cup {e}] /\ Reached(e)'
      BY <2>1 DEF DispatchConfirmed, Reached
    <3>2. \A s \in Relays : \A f \in marked'[s] : f \in marked[s] \/ f = e
      BY <3>1 DEF IInv, CountInv, OutboxTypeOK
    <3> QED BY <1>6, <3>1, <3>2 DEF IInv, Glue, MarkedReached
  <2>2. CASE \E D \in SUBSET Consumers : DispatchFailed(r, e, D)
    <3>1. marked' = marked
      BY <2>2 DEF DispatchFailed
    <3> QED BY <1>6, <3>1 DEF IInv, Glue, MarkedReached
  <2> QED BY <1>1, <2>1, <2>2
<1> QED BY <1>5, <1>7, <1>8 DEF Glue

\* A committed pass makes its marks permanent; a rolled back one drops them.
LEMMA ClosePassGlue ==
    ASSUME IInv, NEW r \in Relays, UNCHANGED consumerVars,
           CommitPass(r) \/ RollbackPass(r)
    PROVE  Glue'
<1>1. /\ UNCHANGED <<tx, queue, processed, pc, key>>
      /\ marked' = [marked EXCEPT ![r] = {}]
      /\ dispatched' \subseteq dispatched \cup marked[r]
  BY DEF CommitPass, RollbackPass, ClosePass,
         rowVars, consumerVars
<1>2. \A s \in Relays : marked'[s] \subseteq marked[s]
  BY <1>1 DEF IInv, CountInv, OutboxTypeOK
<1>3. OnlyCommitted'
  BY <1>1 DEF IInv, Glue, OnlyCommitted
<1>4. MarkedReached'
  BY <1>1, <1>2 DEF IInv, Glue, MarkedReached, Reached
<1>5. NoLostEvent'
  BY <1>1 DEF IInv, Glue, MarkedReached, Reached, NoLostEvent
<1> QED BY <1>3, <1>4, <1>5 DEF Glue

\* No relay step loses an event.
LEMMA RelayGlue ==
    ASSUME IInv, OutboxNext, UNCHANGED consumerVars
    PROVE  Glue'
<1>1. ASSUME NEW r \in Relays, RunOnce(r) PROVE Glue'
  BY <1>1 DEF RunOnce, rowVars, consumerVars, IInv, Glue,
              OnlyCommitted, MarkedReached, Reached, NoLostEvent
<1> QED BY <1>1, BusinessGlue, DispatchGlue, ClosePassGlue
        DEF OutboxNext, RelayProgress

\* A worker only takes what is queued, and removes only what is processed.
LEMMA WorkerGlue ==
    ASSUME IInv, WorkerStep, UNCHANGED relayOnly
    PROVE  Glue'
<1>1. UNCHANGED <<tx, dispatched, marked>>
  BY DEF relayOnly
<1>2. PICK w \in Workers : WorkerProgress(w) \/ Abort(w)
  BY DEF WorkerStep
<1>3. CASE Receive(w)
  <2>1. /\ UNCHANGED <<queue, processed>>
        /\ pc' = [pc EXCEPT ![w] = "received"]
    BY <1>3 DEF Receive
  <2>2. PICK c \in Consumers :
            \E e \in queue[c] : key' = [key EXCEPT ![w] = <<c, e>>]
    BY <1>3 DEF Receive
  <2>3. PICK e \in queue[c] : key' = [key EXCEPT ![w] = <<c, e>>]
    BY <2>2
  <2>4. OnlyCommitted'
    BY <1>1, <2>1, <2>3 DEF IInv, InboxInv, InboxTypeOK, Glue, OnlyCommitted
  <2> QED BY <1>1, <2>1, <2>4 DEF IInv, Glue, MarkedReached, Reached,
                                  NoLostEvent
<1>4. CASE ConsumeOnce(w)
  BY <1>1, <1>4 DEF ConsumeOnce, IInv, InboxInv, InboxTypeOK, Glue,
                    OnlyCommitted, MarkedReached, Reached, NoLostEvent
<1>5. CASE CommitEffects(w)
  BY <1>1, <1>5 DEF CommitEffects, IInv, InboxInv, InboxTypeOK, Glue,
                    OnlyCommitted, MarkedReached, Reached, NoLostEvent
<1>6. CASE Ack(w)
  <2>1. key[w] \in processed /\ key[w] \in Consumers \X Events
    BY <1>6 DEF Ack, IInv, InboxInv, WorkerInv, Keys
  <2>2. processed' = processed
        /\ queue' = [queue EXCEPT ![key[w][1]] = @ \ {key[w][2]}]
    BY <1>6 DEF Ack
  <2>3. \A c \in Consumers : /\ queue'[c] \subseteq queue[c]
                             /\ \A e \in queue[c] \ queue'[c] :
                                    <<c, e>> = key[w]
    BY <2>1, <2>2 DEF IInv, InboxInv, InboxTypeOK
  <2>4. \A f : Reached(f) => Reached(f)'
    BY <2>1, <2>2, <2>3 DEF Reached
  <2>5. OnlyCommitted'
    BY <1>1, <1>6, <2>3 DEF Ack, IInv, InboxInv, InboxTypeOK, Glue,
                            OnlyCommitted
  <2>6. MarkedReached'
    BY <1>1, <2>4 DEF IInv, Glue, MarkedReached
  <2>7. NoLostEvent'
    BY <1>1, <2>4 DEF IInv, Glue, NoLostEvent, Reached
  <2> QED BY <2>5, <2>6, <2>7 DEF Glue
<1>7. CASE Abort(w)
  BY <1>1, <1>7 DEF Abort, IInv, InboxInv, InboxTypeOK, Glue,
                    OnlyCommitted, MarkedReached, Reached, NoLostEvent
<1> QED BY <1>2, <1>3, <1>4, <1>5, <1>6, <1>7 DEF WorkerProgress

----------------------------------------------------------------------------
(* The theorems.                                                           *)

\* The initial states of the two halves fit together.
LEMMA InitInv == Init => IInv
<1> SUFFICES ASSUME Init PROVE IInv
  OBVIOUS
<1>1. OutboxInit
  BY DEF Init, OutboxInit, OutboxInit
<1>2. InboxInit
  BY DEF Init, OutboxInit, ConsumersInit, InboxInit
<1>3. Glue
  BY DEF Init, OutboxInit, ConsumersInit, Glue, OnlyCommitted,
         MarkedReached, NoLostEvent
<1> QED BY <1>1, <1>2, <1>3, InitCount, InboxInitInv DEF IInv

\* A step that changes nothing keeps the invariant.
LEMMA StutterInv == IInv /\ UNCHANGED vars => IInv'
BY DEF vars, relayOnly, inboxVars, consumerVars, IInv, CountInv, OutboxTypeOK,
   PassShape, BatchesDisjoint, ClaimedPending, CallsCounted,
   InFlight, InboxInv, InboxTypeOK, WorkerInv, ExactlyOnceEffects,
   Glue, OnlyCommitted, MarkedReached, Reached, NoLostEvent

\* The inductive invariant holds in every reachable state.
THEOREM InvariantHolds == Spec => []IInv
<1>1. IInv /\ [Next]_vars => IInv'
  BY StutterInv, RelayKeepsCount, RelayKeepsInbox, RelayGlue,
     WorkerKeepsCount, WorkerKeepsInbox, WorkerGlue DEF Next, IInv
<1> QED BY <1>1, InitInv, PTL DEF Spec

\* No event is lost between the relay's mark and the consumers' effects.
THEOREM NothingLost == Spec => []NoLostEvent
<1>1. IInv => NoLostEvent
  BY DEF IInv, Glue
<1> QED BY <1>1, InvariantHolds, PTL

\* Type correctness of the composed system.
THEOREM TypeCorrect == Spec => []TypeOK
<1>1. IInv => TypeOK
  BY DEF IInv, CountInv, InboxInv, TypeOK
<1> QED BY <1>1, InvariantHolds, PTL

\* What each half promises by itself, it keeps when the other half shares
\* its queues: the bound on publications, an error on every row tried in
\* vain, and exactly-once effects.
THEOREM HalvesKeepPromises ==
    Spec => [](/\ PublishBound
               /\ GivenUpHasError
               /\ ExactlyOnceEffects)
<1>1. IInv => PublishBound /\ ExactlyOnceEffects
  BY CountBounds DEF IInv, InboxInv
<1>2. Init => GivenUpHasError
  BY DEF Init, OutboxInit, GivenUpHasError
<1>3. IInv /\ GivenUpHasError /\ [Next]_vars => GivenUpHasError'
  <2> SUFFICES ASSUME IInv, GivenUpHasError, [Next]_vars
               PROVE  GivenUpHasError'
    OBVIOUS
  <2>1. CASE OutboxNext
    BY <2>1, NextFailure DEF IInv
  <2>2. CASE UNCHANGED relayOnly
    BY <2>2 DEF relayOnly, GivenUpHasError
  <2> QED BY <2>1, <2>2 DEF Next, vars
<1> QED BY <1>1, <1>2, <1>3, InvariantHolds, PTL DEF Spec

\* A relay's step takes nothing out of a queue.
LEMMA RelayOnlyAdds ==
    ASSUME IInv, OutboxNext
    PROVE  \A c \in Consumers : queue[c] \subseteq queue'[c]
<1>1. ASSUME NEW r \in Relays, Dispatch(r)
      PROVE  \A c \in Consumers : queue[c] \subseteq queue'[c]
  BY <1>1 DEF Dispatch, DispatchConfirmed, DispatchFailed
<1>2. ASSUME UNCHANGED queue
      PROVE  \A c \in Consumers : queue[c] \subseteq queue'[c]
  BY <1>2
<1> QED BY <1>1, <1>2 DEF OutboxNext, RelayProgress, Business, Enqueue,
           EndBusiness, RunOnce, CommitPass, RollbackPass

\* Nor do the halves undo what the other has finished: a dispatched row
\* stays final while the workers run, and a message still leaves its queue
\* only when it is processed while the relays publish.  And no pass that
\* commits is wasted.
THEOREM HalvesKeepTheirSteps ==
    Spec => /\ DispatchedIsFinal
            /\ AckedWasProcessed
            /\ [][\A r \in Relays : CommitPass(r) => EachCounted(r)]_vars
<1>1. IInv /\ [Next]_vars => [DispatchedKept]_outboxVars
  <2> SUFFICES ASSUME IInv, [Next]_vars PROVE [DispatchedKept]_outboxVars
    OBVIOUS
  <2>1. CASE OutboxNext
    BY <2>1, DispatchedStep DEF IInv
  <2>2. CASE UNCHANGED relayOnly
    BY <2>2 DEF relayOnly, DispatchedKept
  <2> QED BY <2>1, <2>2 DEF Next, vars
<1>2. IInv /\ [Next]_vars => [OnlyProcessedLeave]_inboxVars
  <2> SUFFICES ASSUME IInv, [Next]_vars PROVE [OnlyProcessedLeave]_inboxVars
    OBVIOUS
  <2>1. CASE OutboxNext
    BY <2>1, RelayOnlyAdds DEF OnlyProcessedLeave, Keys
  <2>2. CASE WorkerStep
    BY <2>2, AckStep DEF IInv, InboxNext
  <2> QED BY <2>1, <2>2 DEF Next, vars
<1>3. IInv /\ [Next]_vars
        => [\A r \in Relays : CommitPass(r) => EachCounted(r)]_vars
  BY CommitCounts DEF IInv
<1> QED BY <1>1, <1>2, <1>3, InvariantHolds, PTL
        DEF Spec, DispatchedIsFinal, DispatchedKept, AckedWasProcessed,
            OnlyProcessedLeave

----------------------------------------------------------------------------
(* Refinement: a business commit is Record, a worker's commit is Apply, and *)
(* every other step is invisible.                                          *)

Committed == {e \in Events : tx[e] = "committed"}

\* A relay step records one committed event, or nothing is seen of it.
LEMMA RelayRefines ==
    ASSUME IInv, OutboxNext, UNCHANGED consumerVars
    PROVE  [Delivery!Next]_(Delivery!vars)
<1>1. effects' = effects
  BY DEF consumerVars
<1>2. ASSUME NEW e \in Events, Business(e)
      PROVE  \/ Committed' = Committed
             \/ e \notin Committed /\ Committed' = Committed \cup {e}
  <2>1. PICK o \in {"open", "committed", "rolledback"} :
            tx' = [tx EXCEPT ![e] = o]
    BY <1>2 DEF Business, Enqueue, EndBusiness
  <2>2. tx[e] # "committed"
    BY <1>2 DEF Business, Enqueue, EndBusiness
  <2>3. tx \in [Events -> {"none", "open", "committed", "rolledback"}]
    BY DEF IInv, CountInv, OutboxTypeOK
  <2>4. CASE o = "committed"
    BY <2>1, <2>2, <2>3, <2>4 DEF Committed
  <2>5. CASE o # "committed"
    BY <2>1, <2>2, <2>3, <2>5 DEF Committed
  <2> QED BY <2>4, <2>5
<1>3. ASSUME NEW r \in Relays, RelayProgress(r) \/ RollbackPass(r)
      PROVE  tx' = tx
  BY <1>3 DEF RelayProgress, RunOnce, Dispatch,
     DispatchConfirmed, DispatchFailed, Attempt,
     CommitPass, RollbackPass, rowVars
<1>4. \/ Committed' = Committed
      \/ \E e \in Events : e \notin Committed
                           /\ Committed' = Committed \cup {e}
  BY <1>2, <1>3 DEF OutboxNext, Committed
<1> QED BY <1>1, <1>4 DEF Committed, Delivery!Next, Delivery!Record,
                          Delivery!vars

\* A worker step applies one effect, or nothing is seen of it.
LEMMA WorkerRefines ==
    ASSUME IInv, WorkerStep, UNCHANGED relayOnly
    PROVE  [Delivery!Next]_(Delivery!vars)
<1>1. Committed' = Committed
  BY DEF relayOnly, Committed
<1>2. PICK w \in Workers : WorkerProgress(w) \/ Abort(w)
  BY DEF WorkerStep
<1>3. CASE CommitEffects(w)
  <2>1. /\ key[w] \in Consumers \X Events
        /\ key[w] \notin processed
        /\ key[w][2] \in Committed
    BY <1>3 DEF CommitEffects, IInv, InboxInv, WorkerInv, Keys,
                Glue, OnlyCommitted, Committed
  <2>2. effects[key[w]] = 0
    BY <2>1 DEF IInv, InboxInv, ExactlyOnceEffects, Keys
  <2>3. effects' = [effects EXCEPT ![key[w]] = effects[key[w]] + 1]
    BY <1>3 DEF CommitEffects
  <2>4. effects' = [effects EXCEPT ![key[w]] = 1]
    <3>1. effects[key[w]] + 1 = 1
      BY <2>2
    <3> QED BY <2>3, <3>1, Zenon
  <2>5. Delivery!Apply(key[w])
    BY <1>1, <2>1, <2>2, <2>4 DEF Delivery!Apply, Committed
  <2> QED BY <2>1, <2>5 DEF Delivery!Next, Delivery!Keys
<1>4. CASE ~CommitEffects(w)
  <2>1. effects' = effects
    BY <1>2, <1>4 DEF WorkerProgress, Receive, ConsumeOnce,
                      Ack, Abort
  <2> QED BY <1>1, <2>1 DEF Delivery!vars, Committed
<1> QED BY <1>3, <1>4

\* The pipeline implements the abstract promise: effects once per consumer,
\* only for committed events.
THEOREM PipelineImplementsDelivery == Spec => DeliverySpec
<1>1. Init => Delivery!Init
  BY DEF Init, OutboxInit, ConsumersInit, Keys, Delivery!Init,
         Delivery!Keys
<1>2. IInv /\ [Next]_vars => [Delivery!Next]_(Delivery!vars)
  <2>1. CASE UNCHANGED vars
    BY <2>1 DEF vars, relayOnly, inboxVars, consumerVars, Delivery!vars
  <2> QED BY <2>1, RelayRefines, WorkerRefines DEF Next
<1> QED BY <1>1, <1>2, InvariantHolds, PTL
        DEF Spec, DeliverySpec, Delivery!Spec

=============================================================================
