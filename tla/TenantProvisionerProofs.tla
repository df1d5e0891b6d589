---------------------- MODULE TenantProvisionerProofs ----------------------
(***************************************************************************)
(* Safety of TenantProvisioner for every number of tenants, processes,     *)
(* releases, faults and losses, whenever the losses come.  The check for a *)
(* missing database and its creation are two steps: a loss that meets      *)
(* several processes, one of them at work on the tenant, is the race the   *)
(* code does not exclude.  Such tenants, in "caught", are what the         *)
(* invariant says less about; it says no less about any other tenant.      *)
(***************************************************************************)
EXTENDS TenantProvisioner, FiniteSetTheorems, TLAPS

\* Where a process has a tenant to work on, and where it runs complete.
Working == Guarded \cup {"load", "ready", "failed"}
OfComplete == {"load", "exists", "create", "grant", "bind"}

\* Where a process counts on what it has found in, or done to, the database.
Relying == {"migrate", "apply", "bind", "ready"}

\* The database of t, or what will be restored of it: a loss and a restore
\* leave it as it is.
Kept(t) == IF db[t].exists THEN db[t] ELSE backup[t]

Control(p) ==
    /\ pc[p] # "idle" => p \in staff /\ command[p] # "none"
    /\ pc[p] = "idle"
         => command[p] = "none" /\ target[p] = NoTenant /\ listed[p] = {}
    /\ pc[p] = "visit" => command[p] = "upgrade_all" /\ target[p] = NoTenant
    /\ pc[p] \in OfComplete => command[p] = "complete"
    /\ pc[p] \in Working => target[p] \in Tenants
    /\ command[p] = "upgrade_all" =>
         /\ left[p] \subseteq listed[p]
         /\ listed[p] \subseteq recordedOnce
         /\ pc[p] \in Working => target[p] \in listed[p]

\* One process at most: no loss catches a tenant.
Alone == \A p, q \in staff : p = q

\* The registry row says whether a revision was ever recorded.
RowTells(t) ==
    /\ t \in recordedOnce <=> row[t].revision > 0
    /\ row[t].status = "ready" => t \in recordedOnce
    /\ row[t].status = "none" => t \notin recordedOnce

\* What was recorded stays true of the database, or of its backup.
RowHolds(t) ==
    /\ db[t].revision <= head
    /\ backup[t].revision <= head
    /\ t \in recordedOnce \ caught => /\ Kept(t).exists
                                      /\ Kept(t).granted
                                      /\ Kept(t).bound
                                      /\ Kept(t).revision >= row[t].revision

\* What a process at work counts on, and what is true when it records.  With
\* others about, the database of a tenant not yet recorded is there.
Relies(p) ==
    /\ pc[p] \in {"bind", "ready"} => seen[p] = head
    /\ target[p] \notin caught =>
         /\ pc[p] \in Relying =>
              /\ Kept(target[p]).exists /\ Kept(target[p]).granted
              /\ Alone \/ db[target[p]].exists \/ target[p] \in recordedOnce
         /\ pc[p] \in {"bind", "ready"} => Kept(target[p]).revision = head
         /\ pc[p] = "ready" => Kept(target[p]).bound

\* A process that is to create the database of a recorded tenant will find
\* that another one has done so.
MayCreate(p) ==
    pc[p] = "create" \/ (pc[p] = "exists" /\ seen[p] = 0)
        => \/ target[p] \notin recordedOnce \ caught
           \/ ~Alone /\ db[target[p]].exists

\* The tenants upgrade_all is done with are up to date or called failed.
Settled(p) ==
    command[p] = "upgrade_all" =>
        \A t \in listed[p] \ (left[p] \cup {target[p]} \cup caught) :
            Kept(t).revision = head \/ row[t].status = "failed"

ProcessInv ==
    \A p \in Operators : Relies(p) /\ MayCreate(p) /\ Settled(p)

IInv ==
    /\ TypeOK
    /\ \A p \in Operators : Control(p)
    /\ Alone => caught = {}
    /\ \A t \in Tenants : RowTells(t) /\ RowHolds(t)
    /\ ProcessInv

USE BoundsAssumption

----------------------------------------------------------------------------
(* Type correctness: one lemma per kind of step.                           *)

\* A process at work has a tenant.
Targeted(p) == pc[p] \in Working => target[p] \in Tenants

\* The two databases the steps write as a whole are databases.
LEMMA DatabaseValues ==
    /\ NoDatabase \in Databases
    /\ EmptyDatabase \in Databases
    /\ NoDatabase.exists = FALSE /\ NoDatabase.revision = 0
    /\ EmptyDatabase.exists = TRUE /\ EmptyDatabase.revision = 0
BY DEF NoDatabase, EmptyDatabase, Databases, Revisions

\* The method returns or raises (Finish), or goes on to the next tenant.
LEMMA LeaveType ==
    ASSUME TypeOK, NEW p \in Operators, Finish(p) \/ Resume(p)
    PROVE  /\ pc' \in [Operators ->
                         Guarded \cup {"idle", "load", "ready", "failed", "visit"}]
           /\ command' \in [Operators -> {"none", "complete", "upgrade_all"}]
           /\ target' \in [Operators -> Tenants \cup {NoTenant}]
           /\ left' \in [Operators -> SUBSET Tenants]
           /\ seen' \in [Operators -> Revisions]
           /\ listed' \in [Operators -> SUBSET Tenants]
<1>1. 0 \in Revisions
  BY DEF Revisions
<1>2. CASE Finish(p)
  BY <1>1, <1>2 DEF TypeOK, Finish
<1>3. CASE Resume(p)
  BY <1>1, <1>2, <1>3 DEF TypeOK, Resume
<1> QED BY <1>2, <1>3

\* A step of complete or upgrade_all that works on the databases.
LEMMA WorkType ==
    ASSUME TypeOK, NEW p \in Operators, Targeted(p),
           Complete(p) \/ Migrate(p)
    PROVE  TypeOK'
<1> DEFINE t == target[p]
<1>1. t \in Tenants /\ db[t] \in Databases /\ head \in Revisions
      /\ db[t].revision \in Revisions /\ 0 \in Revisions
  BY DEF TypeOK, Targeted, Complete, Migrate, Load, CheckExists, CreateDatabase,
         GrantConnect, BindOwner, StartMigration, ApplyMigration, Step, Goto,
         Working, Guarded, Databases, Revisions
<1>2. CASE Load(p)
  BY <1>1, <1>2 DEF TypeOK, Load, Step, Goto, Read, Guarded, Rows
<1>3. CASE CheckExists(p)
  BY <1>3 DEF TypeOK, CheckExists, Step, Goto, Guarded
<1>4. CASE CreateDatabase(p)
  BY <1>4, DatabaseValues DEF TypeOK, CreateDatabase, Step, Goto, Guarded
<1>5. CASE GrantConnect(p)
  <2>1. db' \in [Tenants -> Databases]
    BY <1>1, <1>5 DEF TypeOK, GrantConnect, Databases
  <2> QED BY <1>5, <2>1 DEF TypeOK, GrantConnect, Step, Goto, Guarded
<1>6. CASE BindOwner(p)
  <2>1. db' \in [Tenants -> Databases]
    BY <1>1, <1>6 DEF TypeOK, BindOwner, Databases
  <2> QED BY <1>6, <2>1 DEF TypeOK, BindOwner, Step, Goto, Guarded
<1>7. CASE StartMigration(p)
  BY <1>1, <1>7 DEF TypeOK, StartMigration, Step, Goto, Read, Guarded
<1>8. CASE ApplyMigration(p)
  <2>1. db' \in [Tenants -> Databases]
    BY <1>1, <1>8 DEF TypeOK, ApplyMigration, Databases
  <2>2. db'[t].revision \in Revisions
    BY <1>1, <2>1 DEF Databases
  <2> QED
    BY <1>1, <1>8, <2>1, <2>2 DEF TypeOK, ApplyMigration, Step, Goto, Read,
                                  Guarded
<1> QED BY <1>2, <1>3, <1>4, <1>5, <1>6, <1>7, <1>8 DEF Complete, Migrate

\* _record and the loop of upgrade_all.
LEMMA RecordType ==
    ASSUME TypeOK, NEW p \in Operators, Targeted(p),
           Record(p) \/ UpgradeAll(p)
    PROVE  TypeOK'
<1>1. CASE RecordReady(p)
  <2>1. target[p] \in Tenants
    BY <1>1 DEF Targeted, RecordReady, Working
  <2>2. row' \in [Tenants -> Rows] /\ recordedOnce' \subseteq Tenants
    BY <1>1, <2>1 DEF TypeOK, RecordReady, Rows
  <2>3. Resume(p)
    BY <1>1 DEF RecordReady
  <2> QED BY <2>2, <2>3, LeaveType DEF TypeOK, Resume
<1>2. CASE RecordFailed(p)
  <2>1. row' \in [Tenants -> Rows] /\ recordedOnce' \subseteq Tenants
    BY <1>2 DEF TypeOK, RecordFailed, Rows
  <2>2. Resume(p)
    BY <1>2 DEF RecordFailed
  <2> QED BY <2>1, <2>2, LeaveType DEF TypeOK, Resume
<1>3. CASE Visit(p)
  BY <1>3 DEF TypeOK, Visit, Goto, Guarded, histVars
<1>4. CASE EndUpgrade(p)
  <2>1. Finish(p)
    BY <1>4 DEF EndUpgrade
  <2> QED BY <1>4, <2>1, LeaveType DEF TypeOK, EndUpgrade, histVars
<1> QED BY <1>1, <1>2, <1>3, <1>4 DEF Record, UpgradeAll

\* The commands an operator gives, and faults.
LEMMA CommandType ==
    ASSUME TypeOK, NEW p \in Operators,
           \/ Command(p) \/ Fault(p)
           \/ \E t \in customers : Rerun(p, t)
    PROVE  TypeOK'
<1>1. CASE ListReady(p)
  BY <1>1 DEF TypeOK, ListReady, Goto, histVars
<1>2. ASSUME NEW t \in customers, Provision(p, t) PROVE TypeOK'
  BY <1>2 DEF TypeOK, Provision, Begin, Goto, histVars, Rows
<1>3. ASSUME NEW t \in customers, Rerun(p, t) PROVE TypeOK'
  BY <1>3 DEF TypeOK, Rerun, Begin, Goto, histVars
<1>4. CASE Fault(p)
  <2>1. faults' \in 0..MaxFaults
    BY <1>4 DEF TypeOK, Fault
  <2>2. CASE Raise(p)
    BY <1>4, <2>1, <2>2 DEF TypeOK, Fault, Raise
  <2>3. CASE Die(p)
    <3>1. Finish(p)
      BY <2>3 DEF Die
    <3> QED BY <1>4, <2>1, <3>1, LeaveType DEF TypeOK, Fault
  <2> QED BY <1>4, <2>2, <2>3 DEF Fault
<1> QED BY <1>1, <1>2, <1>3, <1>4 DEF Command

\* Releases, losses and restores.
LEMMA SurroundingsType ==
    ASSUME TypeOK, Release \/ \E t \in Tenants : Lose(t) \/ Restore(t)
    PROVE  TypeOK'
<1>1. NoDatabase \in Databases
  BY DatabaseValues
<1>2. CASE Release
  BY <1>2 DEF TypeOK, Release, processVars, histVars
<1>3. ASSUME NEW t \in Tenants, Lose(t) PROVE TypeOK'
  BY <1>1, <1>3 DEF TypeOK, Lose, processVars
<1>4. ASSUME NEW t \in Tenants, Restore(t) PROVE TypeOK'
  BY <1>1, <1>4 DEF TypeOK, Restore, processVars, histVars
<1> QED BY <1>2, <1>3, <1>4

----------------------------------------------------------------------------
(* What a step does to the processes that do not take it.                  *)

\* Process q does not move.
Same(q) ==
    /\ pc'[q] = pc[q]
    /\ command'[q] = command[q]
    /\ target'[q] = target[q]
    /\ left'[q] = left[q]
    /\ seen'[q] = seen[q]
    /\ listed'[q] = listed[q]

\* What there is of the database of t gets no worse.
Improves(t) ==
    /\ Kept(t).exists => Kept(t)'.exists
    /\ Kept(t).granted => Kept(t)'.granted
    /\ Kept(t).bound => Kept(t)'.bound
    /\ Kept(t)'.revision \in {Kept(t).revision, head}

\* A database may be created anew where nobody counts on an older one.
Unneeded(t) ==
    /\ t \notin recordedOnce
    /\ \A q \in Operators : pc[q] \in Relying => target[q] # t

Keeps ==
    /\ head' = head
    /\ staff' = staff
    /\ recordedOnce \subseteq recordedOnce'
    /\ caught \subseteq caught'
    /\ \A t \in Tenants \ caught' :
         /\ Improves(t) \/ Unneeded(t)
         /\ db[t].exists => \/ db'[t].exists
                            \/ Alone
                            \/ \A q \in staff : ~AtWork(q, t)
         /\ row[t].status = "failed"
              => row'[t].status = "failed" \/ Kept(t)'.revision = head

\* The claims of a process that does not move survive every step that Keeps.
LEMMA OthersKeep ==
    ASSUME IInv, Keeps, NEW q \in Operators, Same(q),
           pc[q] # "idle" => \A t \in recordedOnce' \ caught' :
                                t \in recordedOnce \/ (~Alone /\ db'[t].exists)
    PROVE  Control(q)' /\ Relies(q)' /\ MayCreate(q)' /\ Settled(q)'
<1>1. Control(q)'
  BY DEF IInv, Keeps, Same, Control
<1>2. pc[q] \in Working => target[q] \in Tenants /\ q \in staff
  BY DEF IInv, Control, Working, Guarded
<1>3. Relies(q)'
  <2> SUFFICES ASSUME target[q] \notin caught' PROVE Relies(q)'
    BY DEF IInv, ProcessInv, Same, Relies, Keeps
  <2>1. CASE pc[q] \notin Relying
    BY <2>1 DEF Same, Relies, Relying
  <2>2. CASE pc[q] \in Relying
    <3>1. target[q] \in Tenants
      BY <1>2, <2>2 DEF Relying, Working, Guarded
    <3>2. Improves(target[q])
      BY <2>2, <3>1 DEF Keeps, Unneeded
    <3>3. Alone' \/ db'[target[q]].exists \/ target[q] \in recordedOnce'
      <4>1. Alone \/ db[target[q]].exists \/ target[q] \in recordedOnce
        BY <2>2 DEF IInv, ProcessInv, Relies, Keeps
      <4>2. q \in staff /\ AtWork(q, target[q])
        BY <1>2, <2>2 DEF AtWork, Relying, Working, Guarded
      <4> QED BY <3>1, <4>1, <4>2 DEF Keeps, Alone
    <3>4. Relies(q) /\ target[q] \notin caught
      BY DEF IInv, ProcessInv, Keeps
    <3> QED BY <2>2, <3>1, <3>2, <3>3, <3>4 DEF Same, Relies, Improves, Keeps
  <2> QED BY <2>1, <2>2
<1>4. MayCreate(q)'
  <2> SUFFICES ASSUME pc[q] = "create" \/ (pc[q] = "exists" /\ seen[q] = 0),
                      target[q] \in recordedOnce' \ caught'
               PROVE  ~Alone /\ db'[target[q]].exists
    BY DEF MayCreate, Same, Keeps, Alone
  <2>1. target[q] \in Tenants /\ q \in staff /\ AtWork(q, target[q])
    BY <1>2 DEF AtWork, Working, Guarded
  <2>2. CASE target[q] \notin recordedOnce
    BY <2>2
  <2>3. CASE target[q] \in recordedOnce
    <3>1. ~Alone /\ db[target[q]].exists
      BY <2>3 DEF IInv, ProcessInv, MayCreate, Keeps
    <3> QED BY <2>1, <3>1 DEF Keeps
  <2> QED BY <2>2, <2>3
<1>5. Settled(q)'
  <2> SUFFICES ASSUME command[q] = "upgrade_all",
                      NEW t \in listed[q]
                                \ (left[q] \cup {target[q]} \cup caught')
               PROVE  Kept(t)'.revision = head \/ row'[t].status = "failed"
    BY DEF Settled, Same, Keeps
  <2>1. t \in Tenants /\ t \in recordedOnce
    BY DEF IInv, TypeOK, Control
  <2>2. Kept(t).revision = head \/ row[t].status = "failed"
    BY DEF IInv, ProcessInv, Settled, Keeps
  <2>3. Improves(t)
    BY <2>1 DEF Keeps, Unneeded
  <2> QED BY <2>1, <2>2, <2>3 DEF Keeps, Improves
<1> QED BY <1>1, <1>3, <1>4, <1>5

\* Every step of a process leaves the others where they are.
LEMMA OthersStay ==
    ASSUME TypeOK, NEW p \in Operators, NEW q \in Operators \ {p},
           \/ Command(p) \/ Progress(p) \/ Fault(p)
           \/ \E t \in customers : Rerun(p, t)
    PROVE  Same(q)
<1>1. CASE Complete(p) \/ Migrate(p)
  BY <1>1 DEF TypeOK, Same, Complete, Migrate, Load, CheckExists,
              CreateDatabase, GrantConnect, BindOwner, StartMigration,
              ApplyMigration, Step, Goto, Read
<1>2. CASE Record(p) \/ UpgradeAll(p)
  BY <1>2 DEF TypeOK, Same, Record, RecordReady, RecordFailed, Resume, Finish,
              UpgradeAll, Visit, EndUpgrade, Goto
<1>3. CASE Fault(p)
  BY <1>3 DEF TypeOK, Same, Fault, Raise, Die, Finish
<1>4. CASE Command(p) \/ \E t \in customers : Rerun(p, t)
  BY <1>4 DEF TypeOK, Same, Command, ListReady, Provision, Rerun, Begin, Goto
<1> QED BY <1>1, <1>2, <1>3, <1>4 DEF Progress

----------------------------------------------------------------------------
(* The steps of complete and upgrade_all that work on the databases.       *)

\* None of these steps touches the registry, and only CreateDatabase replaces
\* what there is of a database; it does so where nobody needs it.
LEMMA WorkKeeps ==
    ASSUME IInv, NEW p \in Operators, Complete(p) \/ Migrate(p)
    PROVE  /\ Keeps
           /\ UNCHANGED <<row, recordedOnce, caught, backup>>
           /\ \A t \in Tenants : db'[t].revision <= head
<1> DEFINE u == target[p]
<1>1. /\ UNCHANGED <<staff, backup, head, row, recordedOnce, caught>>
      /\ u \in Tenants
      /\ p \in staff
  BY DEF IInv, Control, Complete, Migrate, Load, CheckExists, CreateDatabase,
         GrantConnect, BindOwner, StartMigration, ApplyMigration, Step, Goto,
         Working, Guarded
<1>2. \A t \in Tenants : db[t] \in Databases /\ db[t].revision <= head
  BY DEF IInv, TypeOK, RowHolds
<1>3. 0 <= head
  BY DEF IInv, TypeOK
<1>4. SUFFICES ASSUME NEW t \in Tenants
               PROVE  /\ t \notin caught => Improves(t) \/ Unneeded(t)
                      /\ db[t].exists => db'[t].exists
                      /\ db'[t].revision <= head
  BY <1>1 DEF Keeps
<1>5. CASE Load(p) \/ CheckExists(p) \/ StartMigration(p)
  <2>1. db' = db
    BY <1>5 DEF Load, CheckExists, StartMigration
  <2> QED BY <1>1, <1>2, <2>1 DEF Improves, Kept
<1>6. CASE GrantConnect(p)
  <2>1. /\ db'[t].exists = db[t].exists
        /\ db'[t].revision = db[t].revision
        /\ db'[t].bound = db[t].bound
        /\ db[t].exists /\ db[t].granted => db'[t].granted
    BY <1>1, <1>2, <1>6 DEF IInv, TypeOK, GrantConnect, Databases
  <2> QED BY <1>1, <1>2, <2>1 DEF Improves, Kept
<1>7. CASE BindOwner(p)
  <2>1. /\ db'[t].exists = db[t].exists
        /\ db'[t].revision = db[t].revision
        /\ db'[t].granted = db[t].granted
        /\ db[t].exists /\ db[t].bound => db'[t].bound
    BY <1>1, <1>2, <1>7 DEF IInv, TypeOK, BindOwner, Databases
  <2> QED BY <1>1, <1>2, <2>1 DEF Improves, Kept
<1>8. CASE ApplyMigration(p)
  <2>1. /\ db'[t].exists = db[t].exists
        /\ db'[t].bound = db[t].bound
        /\ db'[t].granted = db[t].granted
        /\ db'[t].revision \in {db[t].revision, head}
    BY <1>1, <1>2, <1>8 DEF IInv, TypeOK, ApplyMigration, Databases
  <2>2. head <= head
    BY DEF IInv, TypeOK
  <2> QED BY <1>1, <1>2, <2>1, <2>2 DEF Improves, Kept
<1>9. CASE CreateDatabase(p)
  <2>1. CASE db[u].exists \/ t # u
    <3>1. db'[t] = db[t]
      BY <1>1, <1>9, <2>1 DEF IInv, TypeOK, CreateDatabase
    <3> QED BY <1>1, <1>2, <3>1 DEF Improves, Kept
  <2>2. CASE ~db[u].exists /\ t = u
    <3>1. db'[t].revision = 0
      BY <1>1, <1>9, <2>2, DatabaseValues DEF IInv, TypeOK, CreateDatabase
    <3>2. pc[p] = "create"
      BY <1>9 DEF CreateDatabase, Step, Goto
    <3>3. t \notin recordedOnce \ caught
      BY <2>2, <3>2 DEF IInv, ProcessInv, MayCreate
    <3>4. ASSUME NEW q \in Operators, pc[q] \in Relying, target[q] = t,
                 t \notin caught
          PROVE  FALSE
      <4>1. q # p /\ q \in staff
        BY <3>2, <3>4 DEF IInv, Control, Relying
      <4>2. ~Alone
        BY <1>1, <4>1 DEF Alone
      <4>3. Alone \/ db[t].exists \/ t \in recordedOnce
        BY <3>4 DEF IInv, ProcessInv, Relies
      <4> QED BY <2>2, <3>3, <3>4, <4>2, <4>3
    <3> QED BY <1>2, <1>3, <2>2, <3>1, <3>3, <3>4 DEF Unneeded
  <2> QED BY <2>1, <2>2
<1> QED BY <1>5, <1>6, <1>7, <1>8, <1>9 DEF Complete, Migrate

\* What the process itself counts on after its step.
LEMMA WorkSelf ==
    ASSUME IInv, NEW p \in Operators, Complete(p) \/ Migrate(p)
    PROVE  Control(p)' /\ Relies(p)' /\ MayCreate(p)' /\ Settled(p)'
<1> DEFINE u == target[p]
<1>1. /\ UNCHANGED <<staff, backup, head, row, recordedOnce, caught, command,
                     target, left, listed>>
      /\ u \in Tenants
      /\ p \in staff
      /\ pc[p] \in Working
      /\ pc[p] \in OfComplete => command[p] = "complete"
  BY DEF IInv, Control, Complete, Migrate, Load, CheckExists, CreateDatabase,
         GrantConnect, BindOwner, StartMigration, ApplyMigration, Step, Goto,
         Working, Guarded
<1>2. /\ db[u] \in Databases
      /\ pc \in [Operators ->
                 Guarded \cup {"idle", "load", "ready", "failed", "visit"}]
      /\ seen \in [Operators -> Revisions]
      /\ db \in [Tenants -> Databases]
      /\ row[u] \in Rows
  BY <1>1 DEF IInv, TypeOK
<1>3. Keeps
  BY WorkKeeps
<1>4. Settled(p)'
  <2> SUFFICES ASSUME command[p] = "upgrade_all",
                      NEW t \in listed[p]
                                \ (left[p] \cup {target[p]} \cup caught)
               PROVE  Kept(t)'.revision = head \/ row[t].status = "failed"
    BY <1>1 DEF Settled
  <2>1. t \in Tenants /\ t \in recordedOnce
    BY DEF IInv, TypeOK, Control
  <2>2. Kept(t).revision = head \/ row[t].status = "failed"
    BY DEF IInv, ProcessInv, Settled
  <2>3. Improves(t)
    BY <1>1, <1>3, <2>1 DEF Keeps, Unneeded
  <2> QED BY <2>2, <2>3 DEF Improves
<1>5. CASE Load(p)
  <2>1. pc'[p] = "exists" /\ seen'[p] = row[u].revision
        /\ pc[p] = "load"
    BY <1>2, <1>5 DEF Load, Step, Goto, Read
  <2>2. seen'[p] = 0 => u \notin recordedOnce
    <3>1. RowTells(u)
      BY <1>1 DEF IInv
    <3>2. row[u].revision = 0 => ~(row[u].revision > 0)
      OBVIOUS
    <3> QED BY <2>1, <3>1, <3>2 DEF RowTells
  <2>3. MayCreate(p)'
    BY <1>1, <2>1, <2>2 DEF MayCreate
  <2> QED BY <1>1, <1>4, <2>1, <2>3 DEF IInv, Control, Relies, Relying,
                                        Working, OfComplete, Guarded
<1>6. CASE CheckExists(p)
  <2>1. /\ pc[p] = "exists" /\ seen'[p] = seen[p] /\ db' = db
        /\ pc'[p] \in {"grant", "create", "failed"}
        /\ pc'[p] = "create" => seen[p] = 0
    BY <1>2, <1>6 DEF CheckExists, Step, Goto
  <2>2. MayCreate(p)'
    <3>1. MayCreate(p)
      BY DEF IInv, ProcessInv
    <3>2. Alone' <=> Alone
      BY <1>1 DEF Alone
    <3> QED BY <1>1, <2>1, <3>1, <3>2 DEF MayCreate
  <2> QED BY <1>1, <1>4, <2>1, <2>2 DEF IInv, Control, Relies, Relying,
                                        Working, OfComplete, Guarded
<1>7. CASE CreateDatabase(p)
  <2>1. pc[p] = "create" /\ pc'[p] \in {"grant", "failed"}
    BY <1>2, <1>7 DEF CreateDatabase, Step, Goto
  <2> QED BY <1>1, <1>4, <2>1 DEF IInv, Control, Relies, MayCreate, Relying,
                                  Working, OfComplete, Guarded
<1>8. CASE GrantConnect(p)
  <2>1. /\ pc[p] = "grant" /\ pc'[p] \in {"migrate", "failed"}
        /\ pc'[p] = "migrate" => db'[u].exists /\ db'[u].granted
    BY <1>1, <1>2, <1>8 DEF GrantConnect, Step, Goto, Databases
  <2> QED BY <1>1, <1>4, <2>1 DEF IInv, Control, Relies, MayCreate, Relying,
                                  Working, OfComplete, Guarded, Kept
<1>9. CASE StartMigration(p)
  <2>1. /\ pc[p] = "migrate" /\ pc'[p] \in {"apply", "failed"} /\ db' = db
    BY <1>1, <1>2, <1>9 DEF StartMigration, Step, Goto
  <2>2. u \notin caught =>
          /\ Kept(u).exists /\ Kept(u).granted
          /\ Alone \/ db[u].exists \/ u \in recordedOnce
    BY <2>1 DEF IInv, ProcessInv, Relies, Relying
  <2>3. Relies(p)'
    BY <1>1, <2>1, <2>2 DEF Relies, Relying, Kept, Alone
  <2> QED BY <1>1, <1>4, <2>1, <2>3 DEF IInv, Control, MayCreate,
                                  Working, OfComplete, Guarded
<1>10. CASE ApplyMigration(p)
  <2>1. /\ pc[p] = "apply" /\ pc'[p] \in {"bind", "ready", "failed"}
        /\ pc'[p] = "bind" => command[p] = "complete"
        /\ pc'[p] = "ready" => command[p] # "complete"
        /\ pc'[p] # "failed" =>
             /\ db'[u].exists /\ db[u].exists
             /\ db'[u].revision = head
             /\ seen'[p] = head
             /\ db'[u].bound = db[u].bound
             /\ db'[u].granted = db[u].granted
    BY <1>1, <1>2, <1>10 DEF ApplyMigration, Step, Goto, Read, Databases
  <2>2. u \notin caught => Kept(u).exists /\ Kept(u).granted
    BY <2>1 DEF IInv, ProcessInv, Relies, Relying
  <2>3. pc'[p] = "ready" /\ u \notin caught => Kept(u).bound
    BY <1>1, <2>1 DEF IInv, TypeOK, Control, RowHolds
  <2>4. Relies(p)'
    BY <1>1, <2>1, <2>2, <2>3 DEF Relies, Relying, Kept
  <2> QED BY <1>1, <1>4, <2>1, <2>4 DEF IInv, Control, MayCreate,
                                  Working, OfComplete, Guarded
<1>11. CASE BindOwner(p)
  <2>1. /\ pc[p] = "bind" /\ pc'[p] \in {"ready", "failed"}
        /\ seen'[p] = seen[p]
        /\ pc'[p] # "failed" =>
             /\ db'[u].exists /\ db[u].exists
             /\ db'[u].bound
             /\ db'[u].revision = db[u].revision
             /\ db'[u].granted = db[u].granted
    BY <1>1, <1>2, <1>11 DEF BindOwner, Step, Goto, Databases
  <2>2. /\ seen[p] = head
        /\ u \notin caught =>
             /\ Kept(u).exists /\ Kept(u).granted
             /\ Kept(u).revision = head
    BY <2>1 DEF IInv, ProcessInv, Relies, Relying
  <2>3. Relies(p)'
    BY <1>1, <2>1, <2>2 DEF Relies, Relying, Kept
  <2> QED BY <1>1, <1>4, <2>1, <2>3 DEF IInv, Control, MayCreate,
                                  Working, OfComplete, Guarded
<1> QED BY <1>5, <1>6, <1>7, <1>8, <1>9, <1>10, <1>11 DEF Complete, Migrate

\* A working step keeps the whole invariant.
LEMMA WorkInv ==
    ASSUME IInv, NEW p \in Operators, Complete(p) \/ Migrate(p)
    PROVE  IInv'
<1>1. Keeps /\ UNCHANGED <<row, recordedOnce, caught, backup>>
      /\ \A t \in Tenants : db'[t].revision <= head
  BY WorkKeeps
<1>2. TypeOK'
  BY WorkType DEF IInv, Control, Targeted
<1>3. \A t \in Tenants : (RowTells(t) /\ RowHolds(t))'
  <2> SUFFICES ASSUME NEW t \in Tenants PROVE (RowTells(t) /\ RowHolds(t))'
    OBVIOUS
  <2>1. RowTells(t)'
    BY <1>1 DEF IInv, RowTells
  <2>2. ASSUME t \in recordedOnce \ caught
        PROVE  /\ Kept(t)'.exists /\ Kept(t)'.granted /\ Kept(t)'.bound
               /\ Kept(t)'.revision >= row[t].revision
    <3>1. Improves(t)
      BY <1>1, <2>2 DEF Keeps, Unneeded
    <3>2. Kept(t) \in Databases /\ Kept(t).revision <= head
      BY DEF IInv, TypeOK, RowHolds, Kept
    <3>3. row[t].revision \in Nat /\ head \in Nat /\ Kept(t).revision \in Nat
      BY <3>2 DEF IInv, TypeOK, Rows, Databases, Revisions
    <3>4. /\ Kept(t).exists /\ Kept(t).granted /\ Kept(t).bound
          /\ Kept(t).revision >= row[t].revision
      BY <2>2 DEF IInv, RowHolds
    <3> QED BY <3>1, <3>2, <3>3, <3>4 DEF Improves
  <2> QED BY <1>1, <2>1, <2>2 DEF IInv, RowHolds, Keeps
<1>4. Alone' => caught' = {}
  BY <1>1 DEF IInv, Keeps, Alone
<1>5. ASSUME NEW q \in Operators
      PROVE  (Control(q) /\ Relies(q) /\ MayCreate(q) /\ Settled(q))'
  <2>1. CASE q = p
    BY <2>1, WorkSelf
  <2>2. CASE q # p
    <3>1. Same(q)
      BY <2>2, OthersStay DEF IInv, Progress
    <3>2. \A t \in recordedOnce' \ caught' :
              t \in recordedOnce \/ (~Alone /\ db'[t].exists)
      BY <1>1
    <3> QED BY <1>1, <3>1, <3>2, OthersKeep
  <2> QED BY <2>1, <2>2
<1> QED BY <1>2, <1>3, <1>4, <1>5 DEF IInv, ProcessInv

----------------------------------------------------------------------------
(* _record, the loop of upgrade_all, commands and faults.                  *)

\* These steps leave the databases alone.
LEMMA DatabasesStay ==
    ASSUME IInv, UNCHANGED <<db, backup, head>>
    PROVE  /\ \A t \in Tenants : Improves(t)
           /\ \A t \in Tenants : Kept(t)' = Kept(t)
BY DEF Improves, Kept

\* The method returns or raises.
LEMMA FinishSelf ==
    ASSUME IInv, NEW p \in Operators, Finish(p)
    PROVE  Control(p)' /\ Relies(p)' /\ MayCreate(p)' /\ Settled(p)'
<1>1. /\ pc'[p] = "idle" /\ command'[p] = "none" /\ listed'[p] = {}
      /\ target'[p] = NoTenant
  BY DEF Finish, IInv, TypeOK
<1> QED BY <1>1 DEF Control, Relies, MayCreate, Settled, Relying, OfComplete,
                    Working, Guarded

\* After _record complete returns and upgrade_all is done with the tenant.
LEMMA ResumeSelf ==
    ASSUME IInv, NEW p \in Operators, Resume(p), pc[p] \in Working,
           recordedOnce \subseteq recordedOnce',
           \A t \in Tenants \ {target[p]} : row'[t] = row[t],
           \/ target[p] \in caught
           \/ Kept(target[p]).revision = head
           \/ row'[target[p]].status = "failed"
    PROVE  Control(p)' /\ Relies(p)' /\ MayCreate(p)' /\ Settled(p)'
<1>1. CASE command[p] = "complete"
  BY <1>1, FinishSelf DEF Resume
<1>2. CASE command[p] # "complete"
  <2>1. /\ pc'[p] = "visit" /\ target'[p] = NoTenant
        /\ UNCHANGED <<command, left, listed, staff, db, backup, head, caught>>
        /\ command[p] = "upgrade_all"
        /\ p \in staff
    BY <1>2 DEF Resume, IInv, TypeOK, Control, Working, Guarded
  <2>2. Settled(p)'
    <3> SUFFICES ASSUME NEW t \in listed[p] \ (left[p] \cup caught)
                 PROVE  Kept(t)'.revision = head \/ row'[t].status = "failed"
      BY <2>1 DEF Settled
    <3>1. t \in Tenants
      BY DEF IInv, TypeOK
    <3>2. Kept(t)' = Kept(t)
      BY <2>1, <3>1, DatabasesStay
    <3>3. CASE t = target[p]
      BY <3>2, <3>3
    <3>4. CASE t # target[p]
      <4>1. row'[t] = row[t]
        BY <3>1, <3>4
      <4>2. Settled(p)
        BY DEF IInv, ProcessInv
      <4>3. Kept(t).revision = head \/ row[t].status = "failed"
        BY <2>1, <3>4, <4>2 DEF Settled
      <4> QED BY <3>2, <4>1, <4>3
    <3> QED BY <3>3, <3>4
  <2>3. Control(p)'
    BY <2>1 DEF IInv, Control, OfComplete, Working, Guarded
  <2> QED BY <2>1, <2>2, <2>3 DEF Relies, MayCreate, Relying
<1> QED BY <1>1, <1>2

\* Recording the success: what the process relied on is what the row says.
LEMMA RecordReadyInv ==
    ASSUME IInv, NEW p \in Operators, RecordReady(p)
    PROVE  IInv'
<1> DEFINE u == target[p]
<1>1. /\ pc[p] = "ready" /\ Resume(p)
      /\ row' = [row EXCEPT ![u] = [status |-> "ready", revision |-> seen[p]]]
      /\ recordedOnce' = recordedOnce \cup {u}
  BY DEF RecordReady
<1>2. u \in Tenants /\ p \in staff
  BY <1>1 DEF IInv, Control, Working
<1>3. /\ seen[p] = head
      /\ u \notin caught =>
           /\ Kept(u).exists /\ Kept(u).granted /\ Kept(u).bound
           /\ Kept(u).revision = head
           /\ Alone \/ db[u].exists \/ u \in recordedOnce
  BY <1>1 DEF IInv, ProcessInv, Relies, Relying
<1>4. UNCHANGED <<customers, staff, db, backup, head, caught>>
  BY <1>1 DEF Resume
<1>5. TypeOK'
  BY RecordType DEF IInv, Control, Targeted, Record
<1>6. head \in Nat \ {0} /\ row \in [Tenants -> Rows]
  BY DEF IInv, TypeOK
<1>7. /\ row'[u].status = "ready" /\ row'[u].revision = head
      /\ \A t \in Tenants \ {u} : row'[t] = row[t]
  BY <1>1, <1>2, <1>3, <1>6
<1>8. \A t \in Tenants : (RowTells(t) /\ RowHolds(t))'
  <2> SUFFICES ASSUME NEW t \in Tenants PROVE (RowTells(t) /\ RowHolds(t))'
    OBVIOUS
  <2>1. Kept(t)' = Kept(t)
    BY <1>4, DatabasesStay
  <2>2. CASE t = u
    <3>1. RowTells(t)'
      BY <1>1, <1>6, <1>7, <2>2 DEF RowTells
    <3>2. head >= head
      BY <1>6
    <3> QED BY <1>3, <1>4, <1>7, <2>1, <2>2, <3>1, <3>2 DEF IInv, RowHolds
  <2>3. CASE t # u
    BY <1>1, <1>4, <1>7, <2>1, <2>3 DEF IInv, RowTells, RowHolds
  <2> QED BY <2>2, <2>3
<1>9. Alone' => caught' = {}
  BY <1>4 DEF IInv, Alone
<1>10. Keeps
  <2>1. \A t \in Tenants : Improves(t) /\ Kept(t)' = Kept(t)
    BY <1>4, DatabasesStay
  <2> QED BY <1>1, <1>3, <1>4, <1>7, <2>1 DEF Keeps
<1>11. ASSUME NEW q \in Operators
       PROVE  (Control(q) /\ Relies(q) /\ MayCreate(q) /\ Settled(q))'
  <2>1. CASE q = p
    BY <1>1, <1>3, <1>7, <2>1, ResumeSelf DEF Working
  <2>2. CASE q # p
    <3>1. Same(q)
      BY <2>2, OthersStay DEF IInv, Progress, Record
    <3>2. ASSUME pc[q] # "idle", u \notin recordedOnce \cup caught
          PROVE  ~Alone /\ db[u].exists
      <4>1. ~Alone
        BY <1>2, <2>2, <3>2 DEF IInv, Control, Alone
      <4> QED BY <1>3, <3>2, <4>1
    <3>3. pc[q] # "idle" => \A t \in recordedOnce' \ caught' :
                               t \in recordedOnce \/ (~Alone /\ db'[t].exists)
      BY <1>1, <1>4, <3>2
    <3> QED BY <1>10, <3>1, <3>3, OthersKeep
  <2> QED BY <2>1, <2>2
<1> QED BY <1>5, <1>8, <1>9, <1>11 DEF IInv, ProcessInv

\* A step of p that records no revision and touches no database.
LEMMA QuietInv ==
    ASSUME IInv, TypeOK', NEW p \in Operators,
           \A q \in Operators \ {p} : Same(q),
           UNCHANGED <<staff, db, backup, head, recordedOnce, caught>>,
           \A t \in Tenants :
               /\ RowTells(t)'
               /\ row'[t].revision = row[t].revision
               /\ row[t].status = "failed" => row'[t].status = "failed",
           (Control(p) /\ Relies(p) /\ MayCreate(p) /\ Settled(p))'
    PROVE  IInv'
<1>1. \A t \in Tenants : Improves(t) /\ Kept(t)' = Kept(t)
  BY DatabasesStay
<1>2. \A t \in Tenants : RowHolds(t)'
  BY <1>1 DEF IInv, RowHolds
<1>3. Alone' => caught' = {}
  BY DEF IInv, Alone
<1>4. Keeps
  BY <1>1 DEF Keeps
<1>5. ASSUME NEW q \in Operators \ {p}
      PROVE  (Control(q) /\ Relies(q) /\ MayCreate(q) /\ Settled(q))'
  <2>1. \A t \in recordedOnce' \ caught' :
            t \in recordedOnce \/ (~Alone /\ db'[t].exists)
    OBVIOUS
  <2> QED BY <1>4, <2>1, OthersKeep
<1> QED BY <1>2, <1>3, <1>5 DEF IInv, ProcessInv

\* Recording a failure keeps the revision.
LEMMA RecordFailedInv ==
    ASSUME IInv, NEW p \in Operators, RecordFailed(p)
    PROVE  IInv'
<1> DEFINE u == target[p]
<1>1. /\ pc[p] = "failed" /\ Resume(p) /\ recordedOnce' = recordedOnce
      /\ row' = [row EXCEPT ![u].status = "failed"]
  BY DEF RecordFailed
<1>2. u \in Tenants
  BY <1>1 DEF IInv, Control, Working
<1>3. UNCHANGED <<customers, staff, db, backup, head, caught>>
  BY <1>1 DEF Resume
<1>4. /\ row'[u].status = "failed" /\ row'[u].revision = row[u].revision
      /\ \A t \in Tenants \ {u} : row'[t] = row[t]
  BY <1>1, <1>2 DEF IInv, TypeOK, Rows
<1>5. TypeOK'
  BY RecordType DEF IInv, Control, Targeted, Record
<1>6. \A q \in Operators \ {p} : Same(q)
  BY OthersStay DEF IInv, Progress, Record
<1>7. \A t \in Tenants : RowTells(t)'
  BY <1>1, <1>4 DEF IInv, RowTells
<1>8. (Control(p) /\ Relies(p) /\ MayCreate(p) /\ Settled(p))'
  BY <1>1, <1>4, ResumeSelf DEF Working
<1>9. \A t \in Tenants :
          /\ row'[t].revision = row[t].revision
          /\ row[t].status = "failed" => row'[t].status = "failed"
  BY <1>4
<1> QED BY <1>1, <1>3, <1>5, <1>6, <1>7, <1>8, <1>9, QuietInv

\* The rounds of upgrade_all.
LEMMA UpgradeAllInv ==
    ASSUME IInv, NEW p \in Operators, UpgradeAll(p)
    PROVE  IInv'
<1>1. UNCHANGED <<staff, db, backup, head, recordedOnce, caught, row>>
  BY DEF UpgradeAll, Visit, EndUpgrade, histVars
<1>2. TypeOK'
  BY RecordType DEF IInv, Control, Targeted
<1>3. \A q \in Operators \ {p} : Same(q)
  BY OthersStay DEF IInv, Progress
<1>4. (Control(p) /\ Relies(p) /\ MayCreate(p) /\ Settled(p))'
  <2>1. CASE EndUpgrade(p)
    BY <2>1, FinishSelf DEF EndUpgrade
  <2>2. CASE Visit(p)
    <3>1. PICK t \in left[p] :
              /\ target' = [target EXCEPT ![p] = t]
              /\ left' = [left EXCEPT ![p] = @ \ {t}]
      BY <2>2 DEF Visit
    <3>2. /\ pc[p] = "visit" /\ pc'[p] = "migrate"
          /\ target'[p] = t /\ left'[p] = left[p] \ {t}
          /\ UNCHANGED <<command, listed>>
      BY <2>2, <3>1 DEF Visit, Goto, IInv, TypeOK
    <3>3. /\ command[p] = "upgrade_all" /\ p \in staff
          /\ t \in listed[p] /\ t \in recordedOnce /\ t \in Tenants
          /\ target[p] = NoTenant /\ NoTenant \notin Tenants
          /\ listed[p] \subseteq Tenants
      BY <3>2 DEF IInv, TypeOK, Control, NoTenant
    <3>4. t \notin caught => Kept(t).exists /\ Kept(t).granted
      BY <3>3 DEF IInv, RowHolds
    <3>5. \A s \in Tenants : Kept(s)' = Kept(s)
      BY <1>1, DatabasesStay
    <3>6. Relies(p)'
      BY <1>1, <3>2, <3>3, <3>4, <3>5 DEF Relies, Relying
    <3>7. Settled(p)'
      BY <1>1, <3>2, <3>3, <3>5 DEF IInv, ProcessInv, Settled
    <3>8. Control(p)'
      BY <1>1, <3>2, <3>3 DEF IInv, Control, OfComplete, Working, Guarded
    <3> QED BY <3>2, <3>6, <3>7, <3>8 DEF MayCreate
  <2> QED BY <2>1, <2>2 DEF UpgradeAll
<1>5. \A t \in Tenants : RowTells(t)'
  BY <1>1 DEF IInv, RowTells
<1> QED BY <1>1, <1>2, <1>3, <1>4, <1>5, QuietInv

\* A step that raises, and a process that dies.
LEMMA FaultInv ==
    ASSUME IInv, NEW p \in Operators, Fault(p)
    PROVE  IInv'
<1>1. UNCHANGED <<staff, db, backup, head, recordedOnce, caught, row>>
  BY DEF Fault
<1>2. TypeOK'
  BY CommandType DEF IInv
<1>3. \A q \in Operators \ {p} : Same(q)
  BY OthersStay DEF IInv
<1>4. (Control(p) /\ Relies(p) /\ MayCreate(p) /\ Settled(p))'
  <2>1. CASE Die(p)
    BY <2>1, FinishSelf DEF Die
  <2>2. CASE Raise(p)
    <3>1. /\ pc[p] \in Guarded \cup {"ready"} /\ pc'[p] = "failed"
          /\ UNCHANGED <<command, target, left, listed>>
      BY <2>2 DEF Raise, IInv, TypeOK
    <3>2. \A t \in Tenants : Kept(t)' = Kept(t)
      BY <1>1, DatabasesStay
    <3>3. Control(p)'
      BY <1>1, <3>1 DEF IInv, Control, OfComplete, Working, Guarded
    <3>4. Settled(p)'
      BY <1>1, <3>1, <3>2 DEF IInv, TypeOK, ProcessInv, Settled
    <3> QED BY <3>1, <3>3, <3>4 DEF Relies, MayCreate, Relying
  <2> QED BY <2>1, <2>2 DEF Fault
<1>5. \A t \in Tenants : RowTells(t)'
  BY <1>1 DEF IInv, RowTells
<1> QED BY <1>1, <1>2, <1>3, <1>4, <1>5, QuietInv

\* provision, complete called again, and the start of upgrade_all.
LEMMA CommandInv ==
    ASSUME IInv, NEW p \in staff,
           Command(p) \/ \E t \in customers : Rerun(p, t)
    PROVE  IInv'
<1>1. /\ UNCHANGED <<staff, db, backup, head, recordedOnce, caught>>
      /\ p \in Operators
  BY DEF IInv, TypeOK, Command, ListReady, Provision, Rerun, Begin, histVars
<1>2. TypeOK'
  BY <1>1, CommandType DEF IInv
<1>3. \A q \in Operators \ {p} : Same(q)
  BY <1>1, OthersStay DEF IInv
<1>4. CASE ListReady(p)
  <2>1. /\ pc[p] = "idle" /\ pc'[p] = "visit"
        /\ command'[p] = "upgrade_all"
        /\ target' = target /\ row' = row
        /\ listed'[p] = {t \in Tenants : row[t].status = "ready"}
        /\ left'[p] = listed'[p]
    BY <1>1, <1>4 DEF IInv, TypeOK, ListReady, Goto
  <2>2. listed'[p] \subseteq recordedOnce
    BY <2>1 DEF IInv, RowTells
  <2>3. Control(p)'
    BY <1>1, <2>1, <2>2 DEF IInv, Control, OfComplete, Working, Guarded
  <2>4. (Relies(p) /\ MayCreate(p) /\ Settled(p))'
    BY <2>1 DEF Relies, Relying, MayCreate, Settled
  <2>5. \A t \in Tenants : RowTells(t)'
    BY <1>1, <2>1 DEF IInv, RowTells
  <2> QED BY <1>1, <1>2, <1>3, <2>1, <2>3, <2>4, <2>5, QuietInv
<1>5. ASSUME NEW u \in customers, Begin(p, u),
             \/ row' = row
             \/ /\ row[u].status = "none"
                /\ row' = [row EXCEPT ![u].status = "provisioning"]
      PROVE  IInv'
  <2>1. /\ pc'[p] = "load" /\ command'[p] = "complete" /\ target'[p] = u
        /\ u \in Tenants
    BY <1>1, <1>5 DEF IInv, TypeOK, Begin, Goto
  <2>2. (Control(p) /\ Relies(p) /\ MayCreate(p) /\ Settled(p))'
    BY <1>1, <2>1 DEF Control, Relies, Relying, MayCreate, Settled,
                      OfComplete, Working, Guarded
  <2>3. \A t \in Tenants :
            /\ row'[t].revision = row[t].revision
            /\ \/ row'[t].status = row[t].status
               \/ row[t].status = "none" /\ row'[t].status = "provisioning"
    BY <1>5, <2>1 DEF IInv, TypeOK, Rows
  <2>4. \A t \in Tenants : RowTells(t)'
    BY <1>1, <2>3 DEF IInv, RowTells
  <2> QED BY <1>1, <1>2, <1>3, <2>2, <2>3, <2>4, QuietInv
<1> QED BY <1>4, <1>5 DEF Command, Provision, Rerun

----------------------------------------------------------------------------
(* What happens around the tool.                                           *)

\* While no process runs, nothing depends on the head revision.
LEMMA ReleaseInv == IInv /\ Release => IInv'
<1> SUFFICES ASSUME IInv, Release PROVE IInv'
  OBVIOUS
<1>1. /\ UNCHANGED <<customers, staff, row, db, backup, processVars, histVars>>
      /\ head' = head + 1
      /\ \A p \in Operators : pc[p] = "idle"
  BY DEF Release
<1>2. TypeOK'
  BY SurroundingsType DEF IInv
<1>3. \A p \in Operators : Control(p)'
  BY <1>1 DEF IInv, Control, processVars, histVars
<1>4. \A p \in Operators : (Relies(p) /\ MayCreate(p) /\ Settled(p))'
  BY <1>1 DEF IInv, Control, Relies, Relying, MayCreate, Settled, processVars
<1>5. \A t \in Tenants : (RowTells(t) /\ RowHolds(t))'
  <2> SUFFICES ASSUME NEW t \in Tenants PROVE (RowTells(t) /\ RowHolds(t))'
    OBVIOUS
  <2>1. db[t].revision \in Nat /\ backup[t].revision \in Nat /\ head \in Nat
    BY DEF IInv, TypeOK, Databases, Revisions
  <2> QED BY <1>1, <2>1 DEF IInv, RowTells, RowHolds, Kept, histVars
<1>6. Alone' => caught' = {}
  BY <1>1 DEF IInv, Alone, histVars
<1> QED BY <1>2, <1>3, <1>4, <1>5, <1>6 DEF IInv, ProcessInv

\* There are several processes exactly when one is not alone.
LEMMA Company == TypeOK => (Cardinality(staff) > 1 <=> ~Alone)
<1> SUFFICES ASSUME TypeOK PROVE Cardinality(staff) > 1 <=> ~Alone
  OBVIOUS
<1>1. IsFiniteSet(staff)
  <2>1. staff \in SUBSET Operators
    BY DEF TypeOK
  <2> QED BY <2>1, OperatorsAssumption, FS_Subset
<1>2. Cardinality(staff) \in Nat
  BY <1>1, FS_CardinalityType
<1>3. Cardinality(staff) = 0 <=> staff = {}
  BY <1>1, FS_EmptySet
<1>4. Cardinality(staff) = 1 <=> \E p : staff = {p}
  BY <1>1, FS_Singleton
<1>5. Alone <=> staff = {} \/ \E p : staff = {p}
  BY DEF Alone
<1> QED BY <1>2, <1>3, <1>4, <1>5

\* A loss takes nothing that cannot be restored, and catches the tenants
\* whose database others are at work on.
LEMMA LoseInv ==
    ASSUME IInv, NEW u \in Tenants, Lose(u) \/ Restore(u)
    PROVE  IInv'
<1>1. /\ UNCHANGED <<customers, staff, row, head, processVars, migratedOnce,
                     recordedOnce>>
      /\ db \in [Tenants -> Databases] /\ backup \in [Tenants -> Databases]
      /\ caught \subseteq caught'
  BY DEF IInv, TypeOK, Lose, Restore, histVars
<1>2. TypeOK'
  BY SurroundingsType DEF IInv
<1>3. /\ \A t \in Tenants : Kept(t)' = Kept(t)
      /\ \A t \in Tenants : db'[t].revision <= head /\ backup'[t].revision <= head
  <2>1. \A t \in Tenants : 0 <= head /\ db[t].revision <= head
                           /\ backup[t].revision <= head
    BY DEF IInv, TypeOK, RowHolds
  <2>2. CASE Lose(u)
    <3>1. /\ db' = [db EXCEPT ![u] = NoDatabase]
          /\ backup' = [backup EXCEPT ![u] = db[u]]
          /\ db[u].exists
      BY <2>2 DEF Lose
    <3> QED BY <1>1, <2>1, <3>1, DatabaseValues DEF Kept
  <2>3. CASE Restore(u)
    <3>1. /\ db' = [db EXCEPT ![u] = backup[u]]
          /\ backup' = [backup EXCEPT ![u] = NoDatabase]
          /\ ~db[u].exists /\ backup[u].exists
      BY <2>3 DEF Restore
    <3> QED BY <1>1, <2>1, <3>1, DatabaseValues DEF Kept
  <2> QED BY <2>2, <2>3
<1>4. Alone => caught' = {}
  BY Company DEF IInv, Lose, Restore, histVars
<1>5. Alone' => caught' = {}
  BY <1>1, <1>4 DEF Alone
<1>6. Keeps
  <2>1. \A t \in Tenants : Improves(t)
    BY <1>1, <1>3 DEF Improves
  <2>2. ASSUME NEW t \in Tenants \ caught', db[t].exists, ~db'[t].exists, ~Alone
        PROVE  \A q \in staff : ~AtWork(q, t)
    <3>1. Lose(u) /\ t = u
      <4>1. db' \in [Tenants -> Databases]
        BY <1>2 DEF TypeOK
      <4>2. CASE Restore(u)
        BY <1>1, <2>2, <4>2 DEF Restore
      <4>3. CASE Lose(u)
        BY <1>1, <2>2, <4>3 DEF Lose
      <4> QED BY <4>2, <4>3
    <3>2. Cardinality(staff) > 1
      BY <2>2, Company DEF IInv
    <3> QED BY <2>2, <3>1, <3>2 DEF Lose
  <2> QED BY <1>1, <2>1, <2>2 DEF Keeps
<1>7. \A t \in Tenants : (RowTells(t) /\ RowHolds(t))'
  BY <1>1, <1>3 DEF IInv, RowTells, RowHolds
<1>8. ASSUME NEW q \in Operators
      PROVE  (Control(q) /\ Relies(q) /\ MayCreate(q) /\ Settled(q))'
  <2>1. Same(q)
    BY <1>1 DEF Same, processVars
  <2>2. \A t \in recordedOnce' \ caught' :
            t \in recordedOnce \/ (~Alone /\ db'[t].exists)
    BY <1>1
  <2> QED BY <1>6, <2>1, <2>2, OthersKeep
<1> QED BY <1>2, <1>5, <1>7, <1>8 DEF IInv, ProcessInv

----------------------------------------------------------------------------
(* The theorems.                                                           *)

\* Rows, databases and processes keep their types, losses or not.
THEOREM TypeCorrect == Spec => []TypeOK
<1> DEFINE TInv == TypeOK /\ \A p \in Operators : Targeted(p)
<1>1. Init => TInv
  <2> SUFFICES ASSUME Init PROVE TInv
    OBVIOUS
  <2>1. TypeOK
    BY DatabaseValues DEF Init, TypeOK, Unregistered, Rows, Revisions
  <2> QED BY <2>1 DEF Init, Targeted, Working, Guarded
<1>2. TInv /\ [Next]_vars => TInv'
  <2> SUFFICES ASSUME TInv, [Next]_vars PROVE TInv'
    OBVIOUS
  <2>1. ASSUME NEW p \in staff,
               \/ Command(p) \/ Progress(p) \/ Fault(p)
               \/ \E t \in customers : Rerun(p, t)
        PROVE  TInv'
    <3>1. p \in Operators /\ Targeted(p)
      BY DEF TypeOK
    <3>2. TypeOK'
      BY <2>1, <3>1, WorkType, RecordType, CommandType DEF Progress
    <3>3. \A q \in Operators \ {p} : Targeted(q)'
      BY <2>1, <3>1, OthersStay DEF Same, Targeted
    <3>4. Targeted(p)'
      <4>1. CASE Complete(p) \/ Migrate(p)
        <5>1. target' = target /\ pc[p] \in Working
          BY <4>1 DEF Complete, Migrate, Load, CheckExists, CreateDatabase,
                      GrantConnect, BindOwner, StartMigration, ApplyMigration,
                      Step, Goto, Working, Guarded
        <5> QED BY <3>1, <5>1 DEF Targeted
      <4>2. CASE Record(p) \/ UpgradeAll(p)
        BY <3>1, <4>2 DEF TypeOK, Targeted, Record, RecordReady, RecordFailed,
                          Resume, Finish, UpgradeAll, Visit, EndUpgrade, Goto,
                          Working, Guarded
      <4>3. CASE Fault(p)
        BY <3>1, <4>3 DEF TypeOK, Targeted, Fault, Raise, Die, Finish, Working,
                          Guarded
      <4>4. CASE Command(p) \/ \E t \in customers : Rerun(p, t)
        BY <3>1, <4>4 DEF TypeOK, Targeted, Command, ListReady, Provision,
                          Rerun, Begin, Goto, Working, Guarded
      <4> QED BY <2>1, <4>1, <4>2, <4>3, <4>4 DEF Progress
    <3> QED BY <3>2, <3>3, <3>4
  <2>2. CASE Release \/ \E t \in Tenants : Lose(t) \/ Restore(t)
    <3>1. UNCHANGED <<pc, target>>
      BY <2>2 DEF Release, Lose, Restore, processVars
    <3> QED BY <2>2, <3>1, SurroundingsType DEF Targeted
  <2>3. CASE UNCHANGED vars
    BY <2>3 DEF vars, processVars, histVars, TypeOK, Targeted
  <2> QED BY <2>1, <2>2, <2>3 DEF Next
<1>3. TInv => TypeOK
  OBVIOUS
<1> QED BY <1>1, <1>2, <1>3, PTL DEF Spec

\* Nothing is registered, created or running at first.
LEMMA InitInv == Init => IInv
<1> SUFFICES ASSUME Init PROVE IInv
  OBVIOUS
<1>1. TypeOK
  BY DatabaseValues DEF Init, TypeOK, Unregistered, Rows, Revisions
<1>2. \A p \in Operators : Control(p) /\ Relies(p) /\ MayCreate(p) /\ Settled(p)
  BY DEF Init, Control, Relies, Relying, MayCreate, Settled, OfComplete,
         Working, Guarded
<1>3. Alone => caught = {}
  BY DEF Init
<1>4. \A t \in Tenants : RowTells(t) /\ RowHolds(t)
  BY DatabaseValues DEF Init, RowTells, RowHolds, Unregistered
<1> QED BY <1>1, <1>2, <1>3, <1>4 DEF IInv, ProcessInv

\* Every step keeps the invariant.
LEMMA NextInv ==
    ASSUME IInv, [Next]_vars
    PROVE  IInv'
<1>1. ASSUME NEW p \in staff,
             \/ Command(p) \/ Progress(p) \/ Fault(p)
             \/ \E t \in customers : Rerun(p, t)
      PROVE  IInv'
  <2>1. p \in Operators
    BY DEF IInv, TypeOK
  <2>2. CASE Complete(p) \/ Migrate(p)
    BY <2>1, <2>2, WorkInv
  <2>3. CASE Record(p)
    BY <2>1, <2>3, RecordReadyInv, RecordFailedInv DEF Record
  <2>4. CASE UpgradeAll(p)
    BY <2>1, <2>4, UpgradeAllInv
  <2>5. CASE Fault(p)
    BY <2>1, <2>5, FaultInv
  <2>6. CASE Command(p) \/ \E t \in customers : Rerun(p, t)
    BY <2>6, CommandInv
  <2> QED BY <1>1, <2>2, <2>3, <2>4, <2>5, <2>6 DEF Progress
<1>2. CASE Release
  BY <1>2, ReleaseInv
<1>3. ASSUME NEW t \in Tenants, Lose(t) \/ Restore(t) PROVE IInv'
  BY <1>3, LoseInv
<1>4. CASE UNCHANGED vars
  BY <1>4 DEF vars, processVars, histVars, IInv, TypeOK, Control, Alone,
              RowTells, RowHolds, Kept, ProcessInv, Relies, MayCreate,
              Settled
<1> QED BY <1>1, <1>2, <1>3, <1>4 DEF Next

\* The inductive invariant holds.
THEOREM InvariantHolds == Spec => []IInv
<1>1. Init => IInv
  BY InitInv
<1>2. IInv /\ [Next]_vars => IInv'
  BY NextInv
<1> QED BY <1>1, <1>2, PTL DEF Spec

\* A tenant marked ready can be used: its database, if it is there, is bound
\* to the tenant, open to the runtime roles and at least as new as recorded,
\* whatever processes overlapped (complete, upgrade_all) and whatever was
\* lost, unless a loss caught several processes with this very tenant.
THEOREM ReadyMeansUsable == Spec => []ReadyIsUsable
<1>1. IInv => ReadyIsUsable
  <2> SUFFICES ASSUME IInv, NEW t \in Tenants, row[t].status = "ready"
               PROVE  /\ row[t].revision > 0
                      /\ db[t].exists /\ t \notin caught =>
                            /\ db[t].granted
                            /\ db[t].bound
                            /\ db[t].revision >= row[t].revision
    BY DEF ReadyIsUsable
  <2>1. t \in recordedOnce
    BY DEF IInv, RowTells
  <2> QED BY <2>1 DEF IInv, RowTells, RowHolds, Kept
<1> QED BY <1>1, InvariantHolds, PTL

\* The database of a tenant whose revision was once recorded is created again
\* only after a loss that caught several processes, one at work on this very
\* tenant (MissingTenantDatabaseError keeps all others from it): only
\* CreateDatabase makes an empty database, and without such a loss it never
\* meets a recorded tenant without one.
THEOREM RecreatedOnlyIfCaught == Spec => OnlyTheCaughtAreRecreated
<1>1. IInv /\ IInv' /\ [Next]_vars
        => [\A t \in Tenants :
              Recreated(t) => t \notin recordedOnce \/ t \in caught]_vars
  <2> SUFFICES ASSUME IInv, IInv', [Next]_vars, NEW t \in Tenants,
                      Recreated(t), t \in recordedOnce, t \notin caught
               PROVE  FALSE
    OBVIOUS
  <2>1. db'[t].exists /\ db'[t].revision = 0
    BY DEF Recreated
  <2>2. t \in recordedOnce' /\ t \notin caught'
    <3>1. ASSUME NEW p \in staff,
                 \/ Command(p) \/ Progress(p) \/ Fault(p)
                 \/ \E u \in customers : Rerun(p, u)
          PROVE  t \in recordedOnce' /\ caught' = caught
      <4>1. CASE Complete(p) \/ Migrate(p)
        BY <4>1, WorkKeeps DEF IInv, TypeOK
      <4>2. CASE Record(p) \/ UpgradeAll(p)
        BY <4>2 DEF Record, RecordReady, RecordFailed, Resume, UpgradeAll,
                    Visit, EndUpgrade, histVars
      <4>3. CASE Fault(p)
        BY <4>3 DEF Fault
      <4>4. CASE Command(p) \/ \E u \in customers : Rerun(p, u)
        BY <4>4 DEF Command, ListReady, Provision, Rerun, Begin, histVars
      <4> QED BY <3>1, <4>1, <4>2, <4>3, <4>4 DEF Progress
    <3>2. CASE Release
      BY <3>2 DEF Release, histVars
    <3>3. ASSUME NEW u \in Tenants, Lose(u) \/ Restore(u)
          PROVE  t \in recordedOnce' /\ t \notin caught'
      <4>1. ~Lose(u) \/ u # t
        <5>1. Lose(t) => ~db'[t].exists
          BY DatabaseValues DEF Lose, IInv, TypeOK
        <5> QED BY <2>1, <5>1
      <4> QED BY <3>3, <4>1 DEF Lose, Restore, histVars
    <3>4. CASE UNCHANGED vars
      BY <3>4 DEF vars, histVars
    <3> QED BY <3>1, <3>2, <3>3, <3>4 DEF Next
  <2>3. row'[t].revision > 0 /\ row'[t].revision \in Nat
    BY <2>2 DEF IInv, TypeOK, RowTells, Rows, Revisions
  <2>4. db'[t].revision >= row'[t].revision
    BY <2>1, <2>2 DEF IInv, RowHolds, Kept
  <2> QED BY <2>1, <2>3, <2>4
<1> QED BY <1>1, InvariantHolds, PTL DEF Spec, OnlyTheCaughtAreRecreated

\* Of one process nothing has to be excepted: it never creates a database
\* whose revision was recorded, whenever databases are lost.
COROLLARY OneProcessNeverRecreates ==
    Spec => [][Cardinality(staff) = 1 =>
                  \A t \in Tenants : Recreated(t) => t \notin recordedOnce]_vars
<1>1. IInv /\ [\A t \in Tenants :
                  Recreated(t) => t \notin recordedOnce \/ t \in caught]_vars
        => [Cardinality(staff) = 1 =>
              \A t \in Tenants : Recreated(t) => t \notin recordedOnce]_vars
  <2> SUFFICES ASSUME IInv, Cardinality(staff) = 1 PROVE caught = {}
    OBVIOUS
  <2> QED BY Company DEF IInv
<1> QED BY <1>1, InvariantHolds, RecreatedOnlyIfCaught, PTL
        DEF OnlyTheCaughtAreRecreated

\* When upgrade_all returns, every tenant it found ready is at the head
\* revision, gone, called failed, or caught by a loss; failures of some do
\* not stop the others.
THEOREM NoneIsLeftBehind == Spec => UpgradeLeavesNone
<1>1. IInv /\ [Next]_vars
        => [\A p \in Operators : EndUpgrade(p) =>
              \A t \in listed[p] :
                  \/ ~db[t].exists
                  \/ db[t].revision = head
                  \/ row[t].status = "failed"
                  \/ t \in caught]_vars
  <2> SUFFICES ASSUME IInv, NEW p \in Operators, EndUpgrade(p),
                      NEW t \in listed[p]
               PROVE  \/ ~db[t].exists
                      \/ db[t].revision = head
                      \/ row[t].status = "failed"
                      \/ t \in caught
    OBVIOUS
  <2>1. pc[p] = "visit" /\ left[p] = {}
    BY DEF EndUpgrade
  <2>2. command[p] = "upgrade_all" /\ t \notin left[p] \cup {target[p]}
    BY <2>1 DEF IInv, TypeOK, Control, NoTenant
  <2> QED BY <2>2 DEF IInv, ProcessInv, Settled, Kept
<1> QED BY <1>1, InvariantHolds, PTL DEF Spec, UpgradeLeavesNone

----------------------------------------------------------------------------
(* Commands run down.  TLC checks that re-runs settle (RerunSettles); what *)
(* is proved here for every number of tenants and processes is the measure *)
(* behind it.                                                              *)

\* How far each step is from the end of complete, or of a round of the loop.
Rank ==
    [s \in Guarded \cup {"idle", "load", "ready", "failed", "visit"} |->
        CASE s = "load"    -> 10
          [] s = "exists"  -> 9
          [] s = "create"  -> 8
          [] s = "grant"   -> 7
          [] s = "migrate" -> 6
          [] s = "apply"   -> 5
          [] s = "bind"    -> 4
          [] s = "ready"   -> 3
          [] s = "failed"  -> 2
          [] s = "visit"   -> 1
          [] s = "idle"    -> 0]

\* The process has fewer tenants before it, or is nearer to the end of this
\* one.
Nearer(p) ==
    \/ left'[p] \subseteq left[p] /\ left'[p] # left[p]
    \/ left'[p] = left[p] /\ Rank[pc'[p]] < Rank[pc[p]]

Stays(p) == pc'[p] = pc[p] /\ left'[p] = left[p] /\ command'[p] = command[p]

RunsDown(p) ==
    /\ pc[p] # "idle" => Nearer(p) \/ Stays(p)
    /\ Progress(p) => Nearer(p)

\* The numbers of Rank.
LEMMA RankIs ==
    /\ Rank["load"] = 10 /\ Rank["exists"] = 9 /\ Rank["create"] = 8
    /\ Rank["grant"] = 7 /\ Rank["migrate"] = 6 /\ Rank["apply"] = 5
    /\ Rank["bind"] = 4 /\ Rank["ready"] = 3 /\ Rank["failed"] = 2
    /\ Rank["visit"] = 1 /\ Rank["idle"] = 0
BY DEF Rank, Guarded

\* No statement goes back, whatever it finds, and a recorded tenant is the
\* last, or leads to the next one.
LEMMA ProgressRunsDown ==
    ASSUME TypeOK, NEW p \in Operators, Progress(p)
    PROVE  Nearer(p)
<1>1. CASE Complete(p) \/ Migrate(p)
  <2>1. left'[p] = left[p]
    BY <1>1 DEF Complete, Load, CheckExists, CreateDatabase, GrantConnect,
                BindOwner, Migrate, StartMigration, ApplyMigration, Step
  <2>2. CASE Load(p)
    BY <2>1, <2>2, RankIs DEF TypeOK, Load, Step, Goto, Nearer
  <2>3. CASE CheckExists(p)
    BY <2>1, <2>3, RankIs DEF TypeOK, CheckExists, Step, Goto, Nearer
  <2>4. CASE CreateDatabase(p)
    BY <2>1, <2>4, RankIs DEF TypeOK, CreateDatabase, Step, Goto, Nearer
  <2>5. CASE GrantConnect(p)
    BY <2>1, <2>5, RankIs DEF TypeOK, GrantConnect, Step, Goto, Nearer
  <2>6. CASE BindOwner(p)
    BY <2>1, <2>6, RankIs DEF TypeOK, BindOwner, Step, Goto, Nearer
  <2>7. CASE StartMigration(p)
    BY <2>1, <2>7, RankIs DEF TypeOK, StartMigration, Step, Goto, Nearer
  <2>8. CASE ApplyMigration(p)
    <3>1. pc[p] = "apply" /\ pc'[p] \in {"failed", "bind", "ready"}
      BY <2>8 DEF TypeOK, ApplyMigration, Step, Goto
    <3> QED BY <2>1, <3>1, RankIs DEF Nearer
  <2> QED BY <1>1, <2>2, <2>3, <2>4, <2>5, <2>6, <2>7, <2>8
          DEF Complete, Migrate
<1>2. CASE Record(p)
  <2>1. pc[p] \in {"ready", "failed"} /\ Resume(p)
    BY <1>2 DEF Record, RecordReady, RecordFailed
  <2>2. CASE Finish(p)
    <3>1. left'[p] = {} /\ pc'[p] = "idle"
      BY <2>2 DEF TypeOK, Finish
    <3> QED BY <2>1, <3>1, RankIs DEF Nearer
  <2>3. CASE ~Finish(p)
    <3>1. left'[p] = left[p] /\ pc'[p] = "visit"
      BY <2>1, <2>3 DEF TypeOK, Resume
    <3> QED BY <2>1, <3>1, RankIs DEF Nearer
  <2> QED BY <2>2, <2>3
<1>3. CASE Visit(p)
  <2>1. PICK t \in left[p] : left' = [left EXCEPT ![p] = left[p] \ {t}]
    BY <1>3 DEF Visit
  <2>2. left'[p] = left[p] \ {t}
    BY <2>1 DEF TypeOK
  <2> QED BY <2>2 DEF Nearer
<1>4. CASE EndUpgrade(p)
  <2>1. left[p] = {} /\ left'[p] = {} /\ pc[p] = "visit" /\ pc'[p] = "idle"
    BY <1>4 DEF TypeOK, EndUpgrade, Finish
  <2> QED BY <2>1, RankIs DEF Nearer
<1> QED BY <1>1, <1>2, <1>3, <1>4 DEF Progress, UpgradeAll

\* A fault only shortens what is left to do.
LEMMA FaultRunsDown ==
    ASSUME TypeOK, NEW p \in Operators, Fault(p)
    PROVE  Nearer(p)
<1>1. CASE Raise(p)
  <2>1. /\ pc[p] \in Guarded \cup {"ready"}
        /\ pc'[p] = "failed" /\ left'[p] = left[p]
    BY <1>1 DEF TypeOK, Raise
  <2> QED BY <2>1, RankIs DEF Nearer, Guarded
<1>2. CASE Die(p)
  <2>1. pc[p] # "idle" /\ pc'[p] = "idle" /\ left'[p] = {}
    BY <1>2 DEF TypeOK, Die, Finish
  <2>2. Rank["idle"] < Rank[pc[p]]
    BY <2>1, RankIs DEF TypeOK, Guarded
  <2> QED BY <2>1, <2>2 DEF Nearer
<1> QED BY <1>1, <1>2 DEF Fault

\* Every step of a command, complete or upgrade_all, brings it nearer to its
\* end, whatever it finds and whatever the other processes, releases and
\* losses do meanwhile: no command runs for ever.
THEOREM CommandsRunDown == Spec => [][\A p \in Operators : RunsDown(p)]_vars
<1>1. TypeOK /\ [Next]_vars => [\A p \in Operators : RunsDown(p)]_vars
  <2> SUFFICES ASSUME TypeOK, Next, NEW p \in Operators PROVE RunsDown(p)
    OBVIOUS
  <2>1. ASSUME NEW q \in staff,
               \/ Command(q) \/ Progress(q) \/ Fault(q)
               \/ \E t \in customers : Rerun(q, t)
        PROVE  pc[p] # "idle" => Nearer(p) \/ Stays(p)
    <3>1. q \in Operators
      BY DEF TypeOK
    <3>2. CASE p # q
      <4>1. Same(p)
        BY <2>1, <3>1, <3>2, OthersStay
      <4> QED BY <4>1 DEF Same, Stays
    <3>3. CASE p = q /\ (Progress(q) \/ Fault(q))
      BY <3>3, ProgressRunsDown, FaultRunsDown
    <3>4. CASE p = q /\ (Command(q) \/ \E t \in customers : Rerun(q, t))
      BY <3>4 DEF Command, ListReady, Provision, Rerun, Begin, Goto
    <3> QED BY <2>1, <3>2, <3>3, <3>4
  <2>2. Release \/ (\E t \in Tenants : Lose(t) \/ Restore(t)) => Stays(p)
    BY DEF Release, Lose, Restore, processVars, Stays
  <2> QED BY <2>1, <2>2, ProgressRunsDown DEF Next, RunsDown
<1> QED BY <1>1, TypeCorrect, PTL DEF Spec
=============================================================================
