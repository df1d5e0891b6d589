------------------------- MODULE TenantProvisioner -------------------------
(***************************************************************************)
(* Creating, migrating and upgrading tenant databases (platform/           *)
(* provisioning.py).  Several operator processes may run at once.  The     *)
(* registry row and the database live on different servers: every step     *)
(* below commits on its own, and a process may fail or die between any     *)
(* two.                                                                    *)
(***************************************************************************)
EXTENDS Integers, FiniteSets

CONSTANTS
    Tenants,      \* numbered in the order of "tenantId"
    Operators,    \* processes that run provision, complete or upgrade_all
    MaxActors,    \* bound on the tenants plus processes of a behaviour
    MaxHead,      \* bound on the releases that add a migration
    MaxFaults,    \* bound on raised exceptions and killed processes
    MaxLosses     \* bound on the losses of a database

ASSUME BoundsAssumption ==
    /\ Tenants \subseteq Nat
    /\ MaxActors \in Nat
    /\ MaxHead \in Nat \ {0}
    /\ MaxFaults \in Nat
    /\ MaxLosses \in Nat
ASSUME OperatorsAssumption == IsFiniteSet(Operators)

VARIABLES
    customers,    \* the tenants of this behaviour
    staff,        \* the processes of this behaviour
    row,          \* registry "Tenants": databaseStatus and schemaRevision
    db,           \* the tenants' databases
    backup,       \* what can be restored after a loss
    head,         \* head revision of the tenant migrations (0: none)
    pc,           \* where each process is
    command,      \* the method it runs
    target,       \* the tenant it works on
    left,         \* the tenants the loop of upgrade_all has still to visit
    seen,         \* the revision a process has read: "schemaRevision" up to
                  \* "create", "alembic_version" at "apply", then the result
    faults,       \* history: faults so far
    losses,       \* history: losses so far
    migratedOnce, \* history: tenants whose database was migrated once
    recordedOnce, \* history: tenants whose revision was recorded once
    caught,       \* history: tenants whose database was lost while several
                  \* processes ran and one was at work on it
    listed        \* history: the tenants upgrade_all found ready

processVars == <<pc, command, target, left, seen, listed>>
histVars == <<faults, losses, migratedOnce, recordedOnce, caught>>
vars == <<customers, staff, row, db, backup, head, processVars, histVars>>

Revisions == 0..MaxHead    \* 0 is "no revision": NULL, or an empty database
NoTenant == -1

Rows == [status : {"none", "provisioning", "failed", "ready"},
         revision : Revisions]
Databases == [exists : BOOLEAN, revision : Revisions, granted : BOOLEAN,
              bound : BOOLEAN]

Unregistered == [status |-> "none", revision |-> 0]
NoDatabase == [exists |-> FALSE, revision |-> 0, granted |-> FALSE,
               bound |-> FALSE]
EmptyDatabase == [exists |-> TRUE, revision |-> 0, granted |-> FALSE,
                  bound |-> FALSE]

\* The steps inside the try blocks of complete and upgrade_all.
Guarded == {"exists", "create", "grant", "migrate", "apply", "bind"}

TypeOK ==
    /\ customers \subseteq Tenants
    /\ staff \subseteq Operators
    /\ row \in [Tenants -> Rows]
    /\ db \in [Tenants -> Databases]
    /\ backup \in [Tenants -> Databases]
    /\ head \in 1..MaxHead
    /\ pc \in [Operators ->
                 Guarded \cup {"idle", "load", "ready", "failed", "visit"}]
    /\ command \in [Operators -> {"none", "complete", "upgrade_all"}]
    /\ target \in [Operators -> Tenants \cup {NoTenant}]
    /\ left \in [Operators -> SUBSET Tenants]
    /\ seen \in [Operators -> Revisions]
    /\ faults \in 0..MaxFaults
    /\ losses \in 0..MaxLosses
    /\ migratedOnce \subseteq Tenants
    /\ recordedOnce \subseteq Tenants
    /\ caught \subseteq Tenants
    /\ listed \in [Operators -> SUBSET Tenants]

Init ==
    /\ customers \in SUBSET Tenants \ {{}}
    /\ staff \in SUBSET Operators \ {{}}
    /\ Cardinality(customers) + Cardinality(staff) <= MaxActors
    /\ row = [t \in Tenants |-> Unregistered]
    /\ db = [t \in Tenants |-> NoDatabase]
    /\ backup = [t \in Tenants |-> NoDatabase]
    /\ head = 1
    /\ pc = [p \in Operators |-> "idle"]
    /\ command = [p \in Operators |-> "none"]
    /\ target = [p \in Operators |-> NoTenant]
    /\ left = [p \in Operators |-> {}]
    /\ seen = [p \in Operators |-> 0]
    /\ faults = 0
    /\ losses = 0
    /\ migratedOnce = {}
    /\ recordedOnce = {}
    /\ caught = {}
    /\ listed = [p \in Operators |-> {}]

----------------------------------------------------------------------------
(* How a process moves from step to step.                                  *)

Goto(p, from, to) == pc[p] = from /\ pc' = [pc EXCEPT ![p] = to]

Read(p, revision) == seen' = [seen EXCEPT ![p] = revision]

\* A step of complete, or of one round of upgrade_all.
Step(p, from, to) ==
    /\ Goto(p, from, to)
    /\ UNCHANGED <<customers, staff, backup, head, command, target, left,
                   faults, losses, recordedOnce, caught, listed>>

\* The method returns or raises: nothing of it stays.
Finish(p) ==
    /\ pc' = [pc EXCEPT ![p] = "idle"]
    /\ command' = [command EXCEPT ![p] = "none"]
    /\ target' = [target EXCEPT ![p] = NoTenant]
    /\ left' = [left EXCEPT ![p] = {}]
    /\ seen' = [seen EXCEPT ![p] = 0]
    /\ listed' = [listed EXCEPT ![p] = {}]

\* complete is called for t.
Begin(p, t) ==
    /\ Goto(p, "idle", "load")
    /\ command' = [command EXCEPT ![p] = "complete"]
    /\ target' = [target EXCEPT ![p] = t]
    /\ UNCHANGED <<customers, staff, db, backup, head, left, seen, listed,
                   histVars>>

----------------------------------------------------------------------------
(* provision and complete.                                                 *)

\* provision: the row is committed before anything else is done.
Provision(p, t) ==
    /\ row[t].status = "none"
    /\ Begin(p, t)
    /\ row' = [row EXCEPT ![t].status = "provisioning"]

\* complete called again for a registered tenant.
Rerun(p, t) ==
    /\ row[t].status # "none"
    /\ Begin(p, t)
    /\ UNCHANGED row

Load(p) ==
    /\ Step(p, "load", "exists")
    /\ Read(p, row[target[p]].revision)
    /\ UNCHANGED <<row, db, migratedOnce>>

\* Fault: an existing database is taken to be open to the runtime roles.
CheckExistsSkipsGrant(p) ==
    LET there == db[target[p]].exists
    IN  /\ Step(p, "exists", CASE there -> "migrate"
                               [] ~there /\ seen[p] = 0 -> "create"
                               [] OTHER -> "failed")
        /\ UNCHANGED <<row, db, seen, migratedOnce>>

\* A missing database is created only if no revision was recorded when the
\* row was loaded; otherwise MissingTenantDatabaseError.
CheckExists(p) ==
    LET there == db[target[p]].exists
    IN  /\ Step(p, "exists", CASE there -> "grant"
                               [] ~there /\ seen[p] = 0 -> "create"
                               [] OTHER -> "failed")
        /\ UNCHANGED <<row, db, seen, migratedOnce>>

\* CREATE DATABASE fails if another process created it meanwhile.
CreateDatabase(p) ==
    LET t == target[p]
    IN  /\ Step(p, "create", IF db[t].exists THEN "failed" ELSE "grant")
        /\ db' = IF db[t].exists THEN db
                                 ELSE [db EXCEPT ![t] = EmptyDatabase]
        /\ UNCHANGED <<row, seen, migratedOnce>>

GrantConnect(p) ==
    LET t == target[p]
    IN  /\ Step(p, "grant", IF db[t].exists THEN "migrate" ELSE "failed")
        /\ db' = [db EXCEPT ![t].granted = db[t].exists]
        /\ UNCHANGED <<row, seen, migratedOnce>>

\* TenantMigrator.upgrade: Alembic reads the version, then all pending
\* migrations run in one transaction (core/migrations.py).
StartMigration(p) ==
    LET t == target[p]
    IN  /\ Step(p, "migrate", IF db[t].exists THEN "apply" ELSE "failed")
        /\ Read(p, db[t].revision)
        /\ UNCHANGED <<row, db, migratedOnce>>

\* Two processes may have read the same version: the objects of the one that
\* commits first make the other roll back.
ApplyMigration(p) ==
    LET t == target[p]
        applied == db[t].exists /\ seen[p] \in {db[t].revision, head}
    IN  /\ Step(p, "apply", CASE ~applied -> "failed"
                              [] applied /\ command[p] = "complete" -> "bind"
                              [] OTHER -> "ready")
        /\ db' = IF applied THEN [db EXCEPT ![t].revision = head] ELSE db
        /\ migratedOnce' = IF applied THEN migratedOnce \cup {t}
                                      ELSE migratedOnce
        /\ Read(p, db'[t].revision)
        /\ UNCHANGED row

\* Fault: a plain INSERT, which fails when the owner is bound already.
BindOwnerOnce(p) ==
    LET t == target[p]
    IN  /\ Step(p, "bind", IF db[t].exists /\ ~db[t].bound THEN "ready"
                                                           ELSE "failed")
        /\ db' = [db EXCEPT ![t].bound = db[t].exists]
        /\ UNCHANGED <<row, seen, migratedOnce>>

\* ON CONFLICT DO NOTHING; the database name is derived from the tenant id,
\* so the owner found is always this tenant.
BindOwner(p) ==
    LET t == target[p]
    IN  /\ Step(p, "bind", IF db[t].exists THEN "ready" ELSE "failed")
        /\ db' = [db EXCEPT ![t].bound = db[t].exists]
        /\ UNCHANGED <<row, seen, migratedOnce>>

----------------------------------------------------------------------------
(* _record, in a transaction of its own.  complete ends with it,           *)
(* upgrade_all goes on with the next tenant.                               *)

Resume(p) ==
    /\ IF command[p] = "complete"
       THEN Finish(p)
       ELSE /\ pc' = [pc EXCEPT ![p] = "visit"]
            /\ target' = [target EXCEPT ![p] = NoTenant]
            /\ seen' = [seen EXCEPT ![p] = 0]
            /\ UNCHANGED <<command, left, listed>>
    /\ UNCHANGED <<customers, staff, db, backup, head, faults, losses,
                   migratedOnce, caught>>

RecordReady(p) ==
    /\ pc[p] = "ready"
    /\ row' = [row EXCEPT ![target[p]] =
                   [status |-> "ready", revision |-> seen[p]]]
    /\ recordedOnce' = recordedOnce \cup {target[p]}
    /\ Resume(p)

\* Fault: the failure resets the recorded revision.
RecordFailedForgets(p) ==
    /\ pc[p] = "failed"
    /\ row' = [row EXCEPT ![target[p]] =
                   [status |-> "failed", revision |-> 0]]
    /\ UNCHANGED recordedOnce
    /\ Resume(p)

\* Fault: the loop of upgrade_all is left at the first failure.
RecordFailedBreaks(p) ==
    /\ pc[p] = "failed"
    /\ row' = [row EXCEPT ![target[p]].status = "failed"]
    /\ IF command[p] = "complete"
       THEN Finish(p)
       ELSE /\ pc' = [pc EXCEPT ![p] = "visit"]
            /\ left' = [left EXCEPT ![p] = {}]
            /\ UNCHANGED <<command, target, seen, listed>>
    /\ UNCHANGED <<customers, staff, db, backup, head, histVars>>

\* A failure keeps the recorded revision.
RecordFailed(p) ==
    /\ pc[p] = "failed"
    /\ row' = [row EXCEPT ![target[p]].status = "failed"]
    /\ UNCHANGED recordedOnce
    /\ Resume(p)

----------------------------------------------------------------------------
(* upgrade_all.                                                            *)

\* The tenants are read once, before the loop; only ready ones.
ListReady(p) ==
    LET ready == {t \in Tenants : row[t].status = "ready"}
    IN  /\ ready # {}
        /\ Goto(p, "idle", "visit")
        /\ command' = [command EXCEPT ![p] = "upgrade_all"]
        /\ left' = [left EXCEPT ![p] = ready]
        /\ listed' = [listed EXCEPT ![p] = ready]
        /\ UNCHANGED <<customers, staff, row, db, backup, head, target, seen,
                       histVars>>

Visit(p) ==
    /\ Goto(p, "visit", "migrate")
    /\ \E t \in left[p] :
          /\ \A u \in left[p] : t <= u
          /\ target' = [target EXCEPT ![p] = t]
          /\ left' = [left EXCEPT ![p] = @ \ {t}]
    /\ UNCHANGED <<customers, staff, row, db, backup, head, command, seen,
                   listed, histVars>>

EndUpgrade(p) ==
    /\ pc[p] = "visit"
    /\ left[p] = {}
    /\ Finish(p)
    /\ UNCHANGED <<customers, staff, row, db, backup, head, histVars>>

----------------------------------------------------------------------------
(* What goes wrong, and what happens around the tool.                      *)

\* A step raises, before or after it took effect: except blocks record it.
Raise(p) ==
    /\ pc[p] \in Guarded \cup {"ready"}
    /\ pc' = [pc EXCEPT ![p] = "failed"]
    /\ UNCHANGED <<command, target, left, seen, listed>>

\* The process is killed, or the registry itself fails: the error leaves
\* complete and upgrade_all, with the rest of the loop.
Die(p) == pc[p] # "idle" /\ Finish(p)

Fault(p) ==
    /\ faults < MaxFaults
    /\ faults' = faults + 1
    /\ Raise(p) \/ Die(p)
    /\ UNCHANGED <<customers, staff, row, db, backup, head, losses,
                   migratedOnce, recordedOnce, caught>>

\* A release adds migrations; the tool is not running while it is installed.
Release ==
    /\ head < MaxHead
    /\ \A p \in Operators : pc[p] = "idle"
    /\ head' = head + 1
    /\ UNCHANGED <<customers, staff, row, db, backup, processVars, histVars>>

\* Between the statement that read the row and the one that records it.
AtWork(p, t) == target[p] = t /\ pc[p] \in Guarded \cup {"ready"}

\* A server loses the database, whatever is being done to it.
Lose(t) ==
    /\ db[t].exists
    /\ losses < MaxLosses
    /\ losses' = losses + 1
    /\ backup' = [backup EXCEPT ![t] = db[t]]
    /\ db' = [db EXCEPT ![t] = NoDatabase]
    /\ caught' = IF Cardinality(staff) > 1 /\ \E p \in staff : AtWork(p, t)
                 THEN caught \cup {t} ELSE caught
    /\ UNCHANGED <<customers, staff, row, head, processVars, faults,
                   migratedOnce, recordedOnce>>

\* An administrator restores it from backup.
Restore(t) ==
    /\ ~db[t].exists
    /\ backup[t].exists
    /\ db' = [db EXCEPT ![t] = backup[t]]
    /\ backup' = [backup EXCEPT ![t] = NoDatabase]
    /\ UNCHANGED <<customers, staff, row, head, processVars, histVars>>

----------------------------------------------------------------------------
Complete(p) ==
    \/ Load(p) \/ CheckExists(p) \/ CreateDatabase(p) \/ GrantConnect(p)
    \/ BindOwner(p)

Migrate(p) == StartMigration(p) \/ ApplyMigration(p)

UpgradeAll(p) == Visit(p) \/ EndUpgrade(p)

Record(p) == RecordReady(p) \/ RecordFailed(p)

Progress(p) == Complete(p) \/ Migrate(p) \/ UpgradeAll(p) \/ Record(p)

\* provision-tenant and upgrade-tenants; there is no command for complete.
Command(p) == ListReady(p) \/ \E t \in customers : Provision(p, t)

Next ==
    \/ \E p \in staff :
          \/ Command(p) \/ Progress(p) \/ Fault(p)
          \/ \E t \in customers : Rerun(p, t)
    \/ Release
    \/ \E t \in Tenants : Lose(t) \/ Restore(t)

Spec == Init /\ [][Next]_vars

Repair(t) ==
    /\ row[t].status # "ready"
    /\ \E p \in staff : Rerun(p, t)

\* A process that is not killed goes on, and the operator re-runs complete
\* for a tenant that is not ready, whatever other commands are given.
FairSpec ==
    /\ Spec
    /\ \A p \in Operators : WF_vars(Progress(p))
    /\ \A t \in Tenants : SF_vars(Repair(t))

----------------------------------------------------------------------------
(* Properties.                                                             *)

\* A tenant marked ready has a recorded revision; and it can be used: if its
\* database is there, it is bound to the tenant, open to the runtime roles
\* and at least as new as recorded, although two processes may have worked on
\* it at once.  A tenant in "caught" is excepted: a process that was past
\* these steps when the database went may record it after another has made
\* it again.
ReadyIsUsable ==
    \A t \in Tenants :
        row[t].status = "ready" =>
            /\ row[t].revision > 0
            /\ db[t].exists /\ t \notin caught =>
                  /\ db[t].granted
                  /\ db[t].bound
                  /\ db[t].revision >= row[t].revision

Recreated(t) == ~db[t].exists /\ db'[t].exists /\ db'[t].revision = 0

\* "Restore it from backup; never re-create it empty": a database whose
\* revision was recorded once is never created again.  The code does not
\* ensure it of two processes: one that read the row before the other
\* recorded the revision still creates the database after it is lost.
RecordedNeverRecreated ==
    [][\A t \in Tenants : Recreated(t) => t \notin recordedOnce]_vars

\* What the code does ensure of it, across faults, releases, restores and
\* losses of every kind: a database whose revision was recorded once is
\* created again only if it was lost under the hands of several processes,
\* one of them at work on it.
OnlyTheCaughtAreRecreated ==
    [][\A t \in Tenants :
          Recreated(t) => t \notin recordedOnce \/ t \in caught]_vars

\* "A database that was migrated before and is now missing is never
\* silently re-created."
MigratedNeverRecreated ==
    [][\A t \in Tenants : Recreated(t) => t \notin migratedOnce]_vars

\* "Upgrade every ready tenant DB; failures don't stop others": when
\* upgrade_all returns, no tenant it found ready is left at an old revision
\* and still called ready, whatever failed in between.  Tenants in "caught"
\* are excepted: another process may have called such a tenant ready.
UpgradeLeavesNone ==
    [][\A p \in Operators : EndUpgrade(p) =>
          \A t \in listed[p] :
              \/ ~db[t].exists
              \/ db[t].revision = head
              \/ row[t].status = "failed"
              \/ t \in caught]_vars

Missing(t) == ~db[t].exists /\ row[t].revision > 0

\* "Safe to re-run": from whatever faults, losses, upgrades and a second
\* process leave behind, re-running complete makes the tenant ready, and a
\* process that lost a race does not call it failed for ever.  A database
\* with a recorded revision that is gone has to be restored first.
RerunSettles ==
    \A t \in Tenants :
        row[t].status # "none"
            ~> [](row[t].status = "ready" \/ Missing(t))
=============================================================================
