------------------------ MODULE TenantSessionProofs ------------------------
(***************************************************************************)
(* Isolation of sessions over a pooled connection, proved for every number *)
(* of tenants, connections and threads, for tenant databases and for the   *)
(* registry.                                                               *)
(***************************************************************************)
EXTENDS TenantSession, TLAPS

\* No setting survives a transaction, so a free connection has none.
PoolIsClean ==
    \A c \in Connections :
        /\ baseline[c] = NoContext
        /\ Idle(c) => current[c] = NoContext

\* A connection serves one thread at a time.
HeldByOne ==
    \A s, q \in Threads :
        phase[s] # "idle" /\ phase[q] # "idle" /\ conn[s] = conn[q] => s = q

\* The database applies to a thread exactly the context it asked for.
ContextIsSet ==
    \A s \in Threads :
        /\ want[s] \in Requests
        /\ phase[s] = "begun" => current[conn[s]] = NoContext
        /\ phase[s] = "open" => current[conn[s]] = want[s]

\* A thread without a transaction has read and written nothing.
IdleIsEmpty ==
    \A s \in Threads :
        phase[s] = "idle" => pending[s] = {} /\ changed[s] = {} /\ seen[s] = {}

PendingBelongsToOwner ==
    \A s \in Threads : \A row \in pending[s] : OwnerKey(row)

Isolation == ReadsStayInContext /\ WritesStayInContext /\ IdleIsEmpty
Ownership == RowsBelongToOwner /\ PendingBelongsToOwner
Pool == PoolIsClean /\ HeldByOne /\ ContextIsSet

IInv == TypeOK /\ Pool /\ Isolation /\ Ownership

\* A platform session without an identity asks for the empty context.
LEMMA NoContextIsARequest == NoContext \in Requests /\ NoContext \in Contexts
BY DEF NoContext, Requests, Contexts

\* Setting the one name a session asks for, on a clean connection, gives
\* exactly the context it asked for.
LEMMA LocalSettingIsWant ==
    ASSUME NEW context \in Requests
    PROVE  /\ context.tenant # NoTenant
                => [NoContext EXCEPT !["tenant"] = context.tenant] = context
           /\ context.tenant = NoTenant
                => [NoContext EXCEPT !["identity"] = context.identity] = context
           /\ context.tenant = NoTenant /\ context.identity = NoIdentity
                => NoContext = context
BY DEF NoContext, Requests, Contexts

\* All connections start without settings and all threads idle.
LEMMA InitEstablishes == Init => IInv
<1> SUFFICES ASSUME Init PROVE IInv
    OBVIOUS
<1>1. TypeOK
    BY NoContextIsARequest DEF Init, TypeOK
<1>2. Pool
    BY NoContextIsARequest
    DEF Init, Pool, PoolIsClean, HeldByOne, ContextIsSet, Idle
<1>3. Isolation /\ Ownership
    BY DEF Init, IdleIsEmpty, Isolation, Ownership, ReadsStayInContext,
           WritesStayInContext, RowsBelongToOwner, PendingBelongsToOwner
<1> QED
    BY <1>1, <1>2, <1>3 DEF IInv

\* Opening a session, up to the moment its context is set.
LEMMA OpeningPreserves ==
    ASSUME IInv, NEW s \in Threads, UNCHANGED owner,
           \/ \E c \in Connections, context \in Requests : Begin(s, c, context)
           \/ TenantSession(s)
           \/ PlatformSession(s)
    PROVE  IInv'
<1> USE DEF IInv, TypeOK, Pool
<1>1. ASSUME NEW c \in Connections, NEW context \in Requests,
             Begin(s, c, context)
      PROVE  IInv'
    <2> USE <1>1 DEF Begin
    <2>1. TypeOK'
        BY DEF Requests
    <2>2. PoolIsClean'
        BY DEF PoolIsClean, Idle
    <2>3. HeldByOne'
        BY DEF HeldByOne, Idle
    <2>4. ContextIsSet'
        <3> SUFFICES ASSUME NEW q \in Threads
                     PROVE  /\ want'[q] \in Requests
                            /\ phase'[q] = "begun" => current[conn'[q]] = NoContext
                            /\ phase'[q] = "open" => current[conn'[q]] = want'[q]
            BY DEF ContextIsSet
        <3>1. CASE q = s
            BY <3>1 DEF PoolIsClean
        <3>2. CASE q # s
            BY <3>2 DEF ContextIsSet
        <3> QED
            BY <3>1, <3>2
    <2>5. Isolation'
        BY DEF IdleIsEmpty, Isolation, ReadsStayInContext, WritesStayInContext, InContext
    <2>6. Ownership'
        BY DEF Ownership, RowsBelongToOwner, PendingBelongsToOwner, OwnerKey
    <2> QED
        BY <2>1, <2>2, <2>3, <2>4, <2>5, <2>6
<1>2. ASSUME TenantSession(s) \/ PlatformSession(s)
      PROVE  IInv'
    <2> USE DEF Enter
    <2>1. /\ Enter(s)
          /\ UNCHANGED baseline
          /\ current' = [current EXCEPT ![conn[s]] = want[s]]
        <3>1. CASE TenantSession(s)
            <4>1. want[s] \in Requests /\ current[conn[s]] = NoContext
                BY <3>1 DEF TenantSession, ContextIsSet
            <4>2. [NoContext EXCEPT !["tenant"] = want[s].tenant] = want[s]
                BY <3>1, <4>1, LocalSettingIsWant DEF TenantSession
            <4> QED
                BY <3>1, <4>1, <4>2 DEF TenantSession, SetLocal
        <3>2. CASE PlatformSession(s)
            <4>1. want[s] \in Requests /\ current[conn[s]] = NoContext
                BY <3>2 DEF PlatformSession, ContextIsSet
            <4>2. CASE want[s].identity # NoIdentity
                BY <3>2, <4>1, <4>2, LocalSettingIsWant
                DEF PlatformSession, SetLocal
            <4>3. CASE want[s].identity = NoIdentity
                BY <3>2, <4>1, <4>3, LocalSettingIsWant
                DEF PlatformSession
            <4> QED
                BY <4>2, <4>3
        <3> QED
            BY <1>2, <3>1, <3>2
    <2>2. TypeOK'
        BY <2>1
    <2>3. PoolIsClean'
        BY <2>1 DEF PoolIsClean, Idle
    <2>4. HeldByOne'
        BY <2>1 DEF HeldByOne
    <2>5. ContextIsSet'
        BY <2>1 DEF ContextIsSet, HeldByOne
    <2>6. Isolation'
        BY <2>1 DEF IdleIsEmpty, Isolation, ReadsStayInContext, WritesStayInContext,
                    InContext
    <2>7. Ownership'
        BY <2>1 DEF Ownership, RowsBelongToOwner, PendingBelongsToOwner,
                    OwnerKey
    <2> QED
        BY <2>2, <2>3, <2>4, <2>5, <2>6, <2>7
<1> QED
    BY <1>1, <1>2

\* Statements run under the context of the session.
LEMMA StatementPreserves ==
    ASSUME IInv, NEW s \in Threads, UNCHANGED owner,
           \/ \E table \in Tables : Select(s, table)
           \/ \E row \in Rows : Insert(s, row) \/ Update(s, row)
    PROVE  IInv'
<1> USE DEF IInv, TypeOK, Pool
<1>1. ASSUME NEW table \in Tables, Select(s, table)
      PROVE  IInv'
    <2> USE <1>1 DEF Select
    <2>1. TypeOK'
        OBVIOUS
    <2>2. Pool'
        BY DEF PoolIsClean, HeldByOne, ContextIsSet, Idle
    <2>3. \A row \in seen'[s] : InContext(s, row)
        <3> SUFFICES ASSUME NEW row \in seen'[s] PROVE InContext(s, row)
            OBVIOUS
        <3>1. Visible(Role[conn[s]], want[s], row)
            BY DEF ContextIsSet
        <3> QED
            BY <3>1 DEF Visible, TenantPolicy, IdentitySelfRead,
                        RelayDispatch, InContext
    <2>4. Isolation'
        BY <2>3 DEF IdleIsEmpty, Isolation, ReadsStayInContext, WritesStayInContext,
                    InContext
    <2>5. Ownership'
        BY DEF Ownership, RowsBelongToOwner, PendingBelongsToOwner, OwnerKey
    <2> QED
        BY <2>1, <2>2, <2>4, <2>5
<1>2. ASSUME NEW row \in Rows, Insert(s, row)
      PROVE  IInv'
    <2> USE <1>2 DEF Insert
    <2>1. TypeOK'
        OBVIOUS
    <2>2. Pool'
        BY DEF PoolIsClean, HeldByOne, ContextIsSet, Idle
    <2>3. row.tenant = want[s].tenant
        \* Only erp_app inserts, so the relay's own policy does not help.
        <3>1. Role[conn[s]] # "erp_relay" /\ Writable(Role[conn[s]], want[s], row)
            BY DEF ContextIsSet, MayInsert
        <3> QED
            BY <3>1 DEF Writable, TenantPolicy, RelayDispatch
    <2>4. Isolation'
        BY <2>3 DEF IdleIsEmpty, Isolation, ReadsStayInContext, WritesStayInContext,
                    InContext
    <2>5. Ownership'
        BY DEF Ownership, RowsBelongToOwner, PendingBelongsToOwner, OwnerKey
    <2> QED
        BY <2>1, <2>2, <2>4, <2>5
<1>3. ASSUME NEW row \in Rows, Update(s, row)
      PROVE  IInv'
    <2> USE <1>3 DEF Update
    <2>1. TypeOK'
        OBVIOUS
    <2>2. Pool'
        BY DEF PoolIsClean, HeldByOne, ContextIsSet, Idle
    <2>3. \/ row.tenant = want[s].tenant
          \/ Role[conn[s]] = "erp_relay" /\ row.table = "OutboxEvents"
        <3>1. Writable(Role[conn[s]], want[s], row)
            BY DEF ContextIsSet
        <3> QED
            BY <3>1 DEF Writable, TenantPolicy, RelayDispatch
    <2>4. Isolation'
        BY <2>3 DEF IdleIsEmpty, Isolation, ReadsStayInContext, WritesStayInContext,
                    InContext
    <2>5. Ownership'
        BY DEF Ownership, RowsBelongToOwner, PendingBelongsToOwner, OwnerKey
    <2> QED
        BY <2>1, <2>2, <2>4, <2>5
<1> QED
    BY <1>1, <1>2, <1>3

\* The end of a transaction leaves a clean connection behind.
LEMMA EndPreserves ==
    ASSUME IInv, NEW s \in Threads, UNCHANGED owner,
           Commit(s) \/ Rollback(s)
    PROVE  IInv'
<1> USE DEF IInv, TypeOK, Pool
<1>1. Release(s) /\ rows' \in {rows, rows \cup pending[s]}
    BY DEF Commit, Rollback
<1> USE <1>1, NoContextIsARequest DEF Release
<1>2. TypeOK'
    OBVIOUS
<1>3. PoolIsClean'
    <2> SUFFICES ASSUME NEW c \in Connections, Idle(c)'
                 PROVE  current'[c] = NoContext
        BY DEF PoolIsClean
    <2>1. CASE c = conn[s]
        BY <2>1 DEF PoolIsClean
    <2>2. CASE c # conn[s]
        BY <2>2 DEF PoolIsClean, Idle
    <2> QED
        BY <2>1, <2>2
<1>4. HeldByOne'
    BY DEF HeldByOne
<1>5. ContextIsSet'
    <2>1. phase[s] # "idle"
        BY DEF Commit, Rollback
    <2> QED
        BY <2>1 DEF ContextIsSet, HeldByOne, PoolIsClean
<1>6. Isolation'
    BY DEF IdleIsEmpty, Isolation, ReadsStayInContext, WritesStayInContext, InContext
<1>7. Ownership'
    BY DEF Ownership, RowsBelongToOwner, PendingBelongsToOwner, OwnerKey
<1> QED
    BY <1>2, <1>3, <1>4, <1>5, <1>6, <1>7

\* Every step keeps the invariant.
LEMMA StepPreserves == IInv /\ [Next]_vars => IInv'
<1> SUFFICES ASSUME IInv, [Next]_vars PROVE IInv'
    OBVIOUS
<1>1. ASSUME NEW s \in Threads, UNCHANGED owner, Step(s)
      PROVE  IInv'
    BY <1>1, OpeningPreserves, StatementPreserves, EndPreserves DEF Step
<1>2. CASE UNCHANGED vars
    BY <1>2 DEF vars, IInv, TypeOK, Pool, PoolIsClean, HeldByOne,
       ContextIsSet, Idle, IdleIsEmpty, Isolation, Ownership, ReadsStayInContext,
       WritesStayInContext, InContext, RowsBelongToOwner,
       PendingBelongsToOwner, OwnerKey
<1> QED
    BY <1>1, <1>2 DEF Next

\* The pool invariant: free connections carry no context, and a session
\* runs under the context it asked for.
THEOREM InvariantHolds == Spec => []IInv
BY InitEstablishes, StepPreserves, PTL DEF Spec

\* Every variable keeps its type.
THEOREM TypeCorrect == Spec => []TypeOK
<1>1. IInv => TypeOK
    BY DEF IInv
<1> QED
    BY <1>1, InvariantHolds, PTL

\* db.py: "a pooled connection never carries one request's context into
\* the next": what a session reads is of its own tenant and identity.
THEOREM SessionsAreIsolated == Spec => []ReadsStayInContext
<1>1. IInv => ReadsStayInContext
    BY DEF IInv, Isolation
<1> QED
    BY <1>1, InvariantHolds, PTL

\* And so is what it writes.
THEOREM WritesAreIsolated == Spec => []WritesStayInContext
<1>1. IInv => WritesStayInContext
    BY DEF IInv, Isolation
<1> QED
    BY <1>1, InvariantHolds, PTL

\* ADR-0002: one tenant's rows per tenant database.
THEOREM DatabaseHasOneOwner == Spec => []RowsBelongToOwner
<1>1. IInv => RowsBelongToOwner
    BY DEF IInv, Ownership
<1> QED
    BY <1>1, InvariantHolds, PTL
=============================================================================
