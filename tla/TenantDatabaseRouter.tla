------------------------ MODULE TenantDatabaseRouter ------------------------
(***************************************************************************)
(* The per-process cache of tenant connection pools (platform/             *)
(* tenant_db.py).  Threads share one lock; for_tenant releases it while it *)
(* reads the registry and builds a Database, and takes it again to install *)
(* the result.  The caller then runs a session on the pool it was given,   *)
(* whatever became of that pool meanwhile.                                 *)
(***************************************************************************)
EXTENDS Integers, SequencesExt

CONSTANTS
    Tenants,
    Threads,
    Places,      \* values of (databaseServer, databaseName) of a tenant
    MaxCached,   \* max_cached
    MaxPools     \* bound on the Database objects ever built

ASSUME RouterAssumption ==
    /\ MaxCached \in Nat \ {0}
    /\ MaxPools \in Nat

VARIABLES
    placement,   \* registry: where each tenant's database is, if it is ready
    cache,       \* the OrderedDict: pools, least recently used first
    pools,       \* every Database built: its tenant, place and whether it
                 \* still has connections (dispose was not called)
    pc,          \* "idle", "place", "install", "dispose" or "session"
    target,      \* the tenant a thread's for_tenant is about
    own,         \* pools only this thread refers to
    given,       \* the pool a thread got from for_tenant and has not used
    strays,      \* history: pools that were reopened after their disposal
    moved,       \* history: tenants moved since their last evict
    raced        \* history: tenants whose last evict met an install under way

vars == <<placement, cache, pools, pc, target, own, given, strays, moved,
          raced>>

Unavailable == "unavailable"
NoTenant == "none"
NoPool == 0

TypeOK ==
    /\ placement \in [Tenants -> Places \cup {Unavailable}]
    /\ cache \in Seq(1..Len(pools))
    /\ pools \in Seq([tenant : Tenants, place : Places, open : BOOLEAN])
    /\ pc \in [Threads -> {"idle", "place", "install", "dispose", "session"}]
    /\ target \in [Threads -> Tenants \cup {NoTenant}]
    /\ own \in [Threads -> SUBSET (1..Len(pools))]
    /\ given \in [Threads -> 0..Len(pools)]
    /\ strays \in SUBSET (1..Len(pools))
    /\ moved \in SUBSET Tenants
    /\ raced \in SUBSET Tenants

Init ==
    /\ placement \in [Tenants -> Places]
    /\ cache = <<>>
    /\ pools = <<>>
    /\ pc = [th \in Threads |-> "idle"]
    /\ target = [th \in Threads |-> NoTenant]
    /\ own = [th \in Threads |-> {}]
    /\ given = [th \in Threads |-> NoPool]
    /\ strays = {}
    /\ moved = {}
    /\ raced = {}

\* Where in the cache a tenant's pool is.
Cached(t) == {i \in DOMAIN cache : pools[cache[i]].tenant = t}

Disposed(ids) ==
    [id \in DOMAIN pools |-> IF id \in ids
                             THEN [pools[id] EXCEPT !.open = FALSE]
                             ELSE pools[id]]

\* The thread's call returns or raises; it keeps no pool of its own.
Return(th) ==
    /\ pc' = [pc EXCEPT ![th] = "idle"]
    /\ target' = [target EXCEPT ![th] = NoTenant]
    /\ own' = [own EXCEPT ![th] = {}]
    /\ UNCHANGED <<given, strays>>

\* for_tenant returns pool id.
Give(th, id) ==
    /\ pc' = [pc EXCEPT ![th] = "session"]
    /\ target' = [target EXCEPT ![th] = NoTenant]
    /\ own' = [own EXCEPT ![th] = {}]
    /\ given' = [given EXCEPT ![th] = id]
    /\ UNCHANGED strays

----------------------------------------------------------------------------
\* for_tenant, first critical section: a hit becomes the most recently used.
Hit(th, t) ==
    /\ pc[th] = "idle"
    /\ \E i \in Cached(t) :
          /\ cache' = Append(RemoveAt(cache, i), cache[i])
          /\ Give(th, cache[i])
    /\ UNCHANGED <<placement, pools, moved, raced>>

Miss(th, t) ==
    /\ pc[th] = "idle"
    /\ Cached(t) = {}
    /\ pc' = [pc EXCEPT ![th] = "place"]
    /\ target' = [target EXCEPT ![th] = t]
    /\ UNCHANGED <<placement, cache, pools, own, given, strays, moved, raced>>

\* _placement outside the lock, and the new Database.
Place(th) ==
    LET t == target[th]
    IN  /\ pc[th] = "place"
        /\ placement[t] # Unavailable
        /\ Len(pools) < MaxPools
        /\ pools' = Append(pools, [tenant |-> t, place |-> placement[t],
                                   open |-> TRUE])
        /\ own' = [own EXCEPT ![th] = {Len(pools) + 1}]
        /\ pc' = [pc EXCEPT ![th] = "install"]
        /\ UNCHANGED <<placement, cache, target, given, strays, moved, raced>>

\* NotFoundError or TenantUnavailableError.
PlaceFails(th) ==
    /\ pc[th] = "place"
    /\ placement[target[th]] = Unavailable
    /\ Return(th)
    /\ UNCHANGED <<placement, cache, pools, moved, raced>>

\* Fault: the loser's Database is dropped without dispose().
LostRaceLeaks(th) ==
    /\ pc[th] = "install"
    /\ \E i \in Cached(target[th]) : Give(th, cache[i])
    /\ UNCHANGED <<placement, cache, pools, moved, raced>>

\* Fault: existing.dispose() instead of database.dispose().
LostRaceDisposesWinner(th) ==
    /\ pc[th] = "install"
    /\ \E i \in Cached(target[th]) :
          /\ pools' = Disposed({cache[i]})
          /\ Give(th, cache[i])
    /\ UNCHANGED <<placement, cache, moved, raced>>

\* Fault: the loser returns its own Database.
LostRaceReturnsOwn(th) ==
    /\ pc[th] = "install"
    /\ Cached(target[th]) # {}
    /\ pools' = Disposed(own[th])
    /\ \E id \in own[th] : Give(th, id)
    /\ UNCHANGED <<placement, cache, moved, raced>>

\* Second critical section: another thread won, or the pool is installed and
\* the least recently used ones beyond max_cached are disposed of.
LostRace(th) ==
    /\ pc[th] = "install"
    /\ pools' = Disposed(own[th])
    /\ \E i \in Cached(target[th]) : Give(th, cache[i])
    /\ UNCHANGED <<placement, cache, moved, raced>>

\* The entries beyond max_cached, at the front of the cache.
Excess(s) == IF Len(s) > MaxCached THEN Len(s) - MaxCached ELSE 0

\* Fault: the cache is trimmed before the pool is added to it.
InstallTrimsFirst(th) ==
    /\ pc[th] = "install"
    /\ Cached(target[th]) = {}
    /\ pools' = Disposed(ToSet(SubSeq(cache, 1, Excess(cache))))
    /\ \E id \in own[th] :
          /\ cache' =
                Append(SubSeq(cache, Excess(cache) + 1, Len(cache)), id)
          /\ Give(th, id)
    /\ UNCHANGED <<placement, moved, raced>>

Install(th) ==
    /\ pc[th] = "install"
    /\ Cached(target[th]) = {}
    /\ \E id \in own[th] :
          LET filled == Append(cache, id)
          IN  /\ cache' = SubSeq(filled, Excess(filled) + 1, Len(filled))
              /\ pools' = Disposed(ToSet(SubSeq(filled, 1, Excess(filled))))
              /\ Give(th, id)
    /\ UNCHANGED <<placement, moved, raced>>

\* Whether the last evict of a tenant met an install of it under way.
NoteRace(t) ==
    raced' = IF \E o \in Threads : pc[o] = "install" /\ target[o] = t
             THEN raced \cup {t} ELSE raced \ {t}

\* Fault: get() instead of pop().
EvictKeeps(th, t) ==
    /\ pc[th] = "idle"
    /\ own' = [own EXCEPT ![th] = {cache[i] : i \in Cached(t)}]
    /\ pc' = [pc EXCEPT ![th] = "dispose"]
    /\ moved' = moved \ {t}
    /\ NoteRace(t)
    /\ UNCHANGED <<placement, cache, pools, target, given, strays>>

\* evict: popped under the lock, disposed of after it.
Evict(th, t) ==
    /\ pc[th] = "idle"
    /\ \/ /\ Cached(t) = {}
          /\ UNCHANGED <<cache, own>>
       \/ \E i \in Cached(t) :
            /\ cache' = RemoveAt(cache, i)
            /\ own' = [own EXCEPT ![th] = {cache[i]}]
    /\ pc' = [pc EXCEPT ![th] = "dispose"]
    /\ moved' = moved \ {t}
    /\ NoteRace(t)
    /\ UNCHANGED <<placement, pools, target, given, strays>>

DisposeAll(th) ==
    /\ pc[th] = "idle"
    /\ cache' = <<>>
    /\ own' = [own EXCEPT ![th] = ToSet(cache)]
    /\ pc' = [pc EXCEPT ![th] = "dispose"]
    /\ UNCHANGED <<placement, pools, target, given, strays, moved, raced>>

Dispose(th) ==
    /\ pc[th] = "dispose"
    /\ pools' = Disposed(own[th])
    /\ Return(th)
    /\ UNCHANGED <<placement, cache, moved, raced>>

\* The caller's session.  The engine of a pool disposed of meanwhile opens a
\* new pool, which nobody disposes of.
Session(th) ==
    LET id == given[th]
    IN  /\ pc[th] = "session"
        /\ pools' = [pools EXCEPT ![id].open = TRUE]
        /\ strays' = IF pools[id].open THEN strays ELSE strays \cup {id}
        /\ given' = [given EXCEPT ![th] = NoPool]
        /\ pc' = [pc EXCEPT ![th] = "idle"]
        /\ UNCHANGED <<placement, cache, target, own, moved, raced>>

\* An administrator moves or restores the tenant's database, or it stops
\* being ready; evict is to be called afterwards.
Move(t) ==
    /\ \E p \in Places \cup {Unavailable} :
          /\ p # placement[t]
          /\ placement' = [placement EXCEPT ![t] = p]
    /\ moved' = moved \cup {t}
    /\ UNCHANGED <<cache, pools, pc, target, own, given, strays, raced>>

ForTenant(th) ==
    \/ \E t \in Tenants : Hit(th, t) \/ Miss(th, t)
    \/ Place(th) \/ PlaceFails(th) \/ LostRace(th) \/ Install(th)

Next ==
    \/ \E th \in Threads :
          \/ ForTenant(th)
          \/ \E t \in Tenants : Evict(th, t)
          \/ DisposeAll(th)
          \/ Dispose(th)
          \/ Session(th)
    \/ \E t \in Tenants : Move(t)

Spec == Init /\ [][Next]_vars

----------------------------------------------------------------------------
(* Properties.                                                             *)

\* At most max_cached pools, and never two of one tenant, whoever wins.
CacheIsBounded ==
    /\ Len(cache) <= MaxCached
    /\ \A i, j \in 1..Len(cache) :
          pools[cache[i]].tenant = pools[cache[j]].tenant => i = j

\* No Database keeps connections open unless it is cached, some thread is
\* about to install or dispose of it, or a session reopened it: none leaks
\* when a race is lost, a pool is pushed out or the cache is cleared.
NoPoolLeaks ==
    \A id \in DOMAIN pools :
        pools[id].open =>
            id \in ToSet(cache) \cup strays
                      \cup UNION {own[th] : th \in Threads}

\* A pool is reopened after its disposal only by a caller that got it while
\* it was cached: for_tenant never returns a pool that is out of the cache
\* already, pushed out by its own installation or by another thread.
GivenWasCached ==
    [][\A th \in Threads :
          given'[th] \notin {given[th], NoPool}
              => /\ given'[th] \in ToSet(cache')
                 /\ pools'[given'[th]].open]_vars

\* The cache never offers a pool that was disposed of: the pools pushed out
\* or evicted are gone from it first.
CachedIsOpen == \A id \in ToSet(cache) : pools[id].open

Fresh(t) ==
    \A id \in ToSet(cache) :
        pools[id].tenant = t => pools[id].place = placement[t]

\* An evict that meets no install under way makes the router follow the move
\* (tenant_db.py: "Call evict() after moving or restoring a tenant
\* database").  One that does meet an install may be undone by it.
QuietEvictRefreshes == \A t \in Tenants \ (moved \cup raced) : Fresh(t)
=============================================================================
