--------------------- MODULE TenantDatabaseRouterProofs ---------------------
(***************************************************************************)
(* Safety of the pool cache of TenantDatabaseRouter, for every number of   *)
(* threads, tenants and places and every max_cached.                       *)
(***************************************************************************)
EXTENDS TenantDatabaseRouter, SequenceTheorems, TLAPS

\* A pool that for_tenant has built and not installed yet is this thread's
\* alone, open, and of the tenant asked for; where that tenant is, unless it
\* has moved meanwhile or an evict of it came in between.
Building(th) ==
    \E id \in 1..Len(pools) :
        /\ own[th] = {id}
        /\ pools[id].tenant = target[th]
        /\ pools[id].open
        /\ target[th] \in moved \cup raced
             \/ pools[id].place = placement[target[th]]

Serving(th) ==
    /\ pc[th] \in {"place", "install"} => target[th] \in Tenants
    /\ pc[th] = "install" => Building(th)
    /\ pc[th] \notin {"install", "dispose"} => own[th] = {}
    /\ pc[th] = "session" => given[th] \in 1..Len(pools)

\* A pool has one holder: the cache, or one thread.
OneHolder ==
    /\ \A th \in Threads : own[th] \cap ToSet(cache) = {}
    /\ \A th, u \in Threads : th # u => own[th] \cap own[u] = {}

NoRepeat(s) == \A i, j \in 1..Len(s) : s[i] = s[j] => i = j

\* CacheIsBounded, with the order of the cache and its entries apart.
Bounded ==
    /\ Len(cache) <= MaxCached
    /\ NoRepeat(cache)
    /\ \A id, x \in ToSet(cache) : pools[id].tenant = pools[x].tenant => id = x

\* NoPoolLeaks, holder by holder.
Held ==
    \A id \in 1..Len(pools) :
        pools[id].open => \/ id \in ToSet(cache)
                          \/ \E th \in Threads : id \in own[th]
                          \/ id \in strays

IInv ==
    /\ TypeOK
    /\ Bounded
    /\ CachedIsOpen
    /\ \A th \in Threads : Serving(th)
    /\ OneHolder
    /\ Held
    /\ QuietEvictRefreshes
USE RouterAssumption

Ids == 1..Len(pools)
Pool == [tenant : Tenants, place : Places, open : BOOLEAN]

----------------------------------------------------------------------------
(* Sequences: removing one entry, and cutting off the front.               *)

LEMMA RemoveAtIs ==
    ASSUME NEW S, NEW s \in Seq(S), NEW i \in 1..Len(s)
    PROVE  /\ RemoveAt(s, i) \in Seq(S)
           /\ Len(RemoveAt(s, i)) = Len(s) - 1
           /\ \A j \in 1..i - 1 : RemoveAt(s, i)[j] = s[j]
           /\ \A j \in i..Len(s) - 1 : RemoveAt(s, i)[j] = s[j + 1]
<1>1. Len(s) \in Nat /\ \A j \in 1..Len(s) : s[j] \in S
  BY LenProperties, ElementOfSeq
<1> DEFINE a == SubSeq(s, 1, i - 1)
           b == SubSeq(s, i + 1, Len(s))
<1>2. /\ a \in Seq(S) /\ Len(a) = i - 1
      /\ \A j \in 1..i - 1 : a[j] = s[j]
  <2>1. \A j \in 1..i - 1 : s[j] \in S
    BY <1>1
  <2> QED BY <1>1, <2>1, SubSeqProperties
<1>3. /\ b \in Seq(S) /\ Len(b) = Len(s) - i
      /\ \A j \in 1..Len(s) - i : b[j] = s[j + i]
  <2>1. \A j \in i + 1..Len(s) : s[j] \in S
    BY <1>1
  <2>2. /\ b \in Seq(S)
        /\ Len(b) = IF i + 1 <= Len(s) THEN Len(s) - (i + 1) + 1 ELSE 0
        /\ \A j \in 1..Len(s) - (i + 1) + 1 : b[j] = s[i + 1 + j - 1]
    BY <1>1, <2>1, SubSeqProperties
  <2> QED BY <1>1, <2>2
<1>4. /\ a \o b \in Seq(S)
      /\ Len(a \o b) = Len(a) + Len(b)
      /\ \A j \in 1..Len(a) + Len(b) :
            (a \o b)[j] = IF j <= Len(a) THEN a[j] ELSE b[j - Len(a)]
  BY <1>2, <1>3, ConcatProperties
<1>5. RemoveAt(s, i) = a \o b
  BY DEF RemoveAt
<1> HIDE DEF a, b
<1>6. ASSUME NEW j \in 1..i - 1
      PROVE  (a \o b)[j] = s[j]
  BY <1>1, <1>2, <1>3, <1>4
<1>7. ASSUME NEW j \in i..Len(s) - 1
      PROVE  (a \o b)[j] = s[j + 1]
  <2>1. /\ j \in 1..Len(a) + Len(b) /\ ~(j <= Len(a))
        /\ j - Len(a) \in 1..Len(s) - i /\ (j - Len(a)) + i = j + 1
    BY <1>1, <1>2, <1>3
  <2>2. (a \o b)[j] = b[j - Len(a)]
    BY <1>4, <2>1
  <2>3. b[j - Len(a)] = s[(j - Len(a)) + i]
    BY <1>3, <2>1
  <2> QED BY <2>1, <2>2, <2>3
<1> QED BY <1>1, <1>2, <1>3, <1>4, <1>5, <1>6, <1>7

LEMMA CutIs ==
    ASSUME NEW S, NEW s \in Seq(S), NEW e \in 0..Len(s)
    PROVE  /\ SubSeq(s, e + 1, Len(s)) \in Seq(S)
           /\ Len(SubSeq(s, e + 1, Len(s))) = Len(s) - e
           /\ \A j \in 1..Len(s) - e : SubSeq(s, e + 1, Len(s))[j] = s[j + e]
           /\ SubSeq(s, 1, e) \in Seq(S)
           /\ Len(SubSeq(s, 1, e)) = e
           /\ \A j \in 1..e : SubSeq(s, 1, e)[j] = s[j]
<1>1. Len(s) \in Nat /\ \A j \in 1..Len(s) : s[j] \in S
  BY LenProperties, ElementOfSeq
<1>2. /\ SubSeq(s, 1, e) \in Seq(S)
      /\ Len(SubSeq(s, 1, e)) = IF 1 <= e THEN e - 1 + 1 ELSE 0
      /\ \A j \in 1..e - 1 + 1 : SubSeq(s, 1, e)[j] = s[1 + j - 1]
  <2>1. \A j \in 1..e : s[j] \in S
    BY <1>1
  <2> QED BY <1>1, <2>1, SubSeqProperties
<1>3. /\ SubSeq(s, e + 1, Len(s)) \in Seq(S)
      /\ Len(SubSeq(s, e + 1, Len(s)))
            = IF e + 1 <= Len(s) THEN Len(s) - (e + 1) + 1 ELSE 0
      /\ \A j \in 1..Len(s) - (e + 1) + 1 :
            SubSeq(s, e + 1, Len(s))[j] = s[e + 1 + j - 1]
  <2>1. \A j \in e + 1..Len(s) : s[j] \in S
    BY <1>1
  <2> QED BY <1>1, <2>1, SubSeqProperties
<1> QED BY <1>1, <1>2, <1>3

LEMMA ToSetIs ==
    ASSUME NEW S, NEW s \in Seq(S)
    PROVE  \A x : x \in ToSet(s) <=> \E j \in 1..Len(s) : s[j] = x
<1>1. DOMAIN s = 1..Len(s)
  BY LenProperties
<1> QED BY <1>1 DEF ToSet

\* What a hit makes of the cache, and an installation keeps of it and cuts
\* off.
MovedToEnd(s, i) == Append(RemoveAt(s, i), s[i])
Kept(s, id, e) == SubSeq(Append(s, id), e + 1, Len(Append(s, id)))
Gone(s, id, e) == SubSeq(Append(s, id), 1, e)

\* A hit moves an entry to the end.
LEMMA MoveToEndIs ==
    ASSUME NEW S, NEW s \in Seq(S), NoRepeat(s), NEW i \in 1..Len(s)
    PROVE  /\ MovedToEnd(s, i) \in Seq(S)
           /\ Len(MovedToEnd(s, i)) = Len(s)
           /\ NoRepeat(MovedToEnd(s, i))
           /\ ToSet(MovedToEnd(s, i)) = ToSet(s)
<1> DEFINE r == MovedToEnd(s, i)
<1>1. Len(s) \in Nat /\ \A j \in 1..Len(s) : s[j] \in S
  BY LenProperties, ElementOfSeq
<1> DEFINE a == RemoveAt(s, i)
<1>2. /\ a \in Seq(S) /\ Len(a) = Len(s) - 1
      /\ \A j \in 1..i - 1 : a[j] = s[j]
      /\ \A j \in i..Len(s) - 1 : a[j] = s[j + 1]
  BY RemoveAtIs
<1> HIDE DEF a
<1>3. /\ Append(a, s[i]) \in Seq(S)
      /\ Len(Append(a, s[i])) = Len(a) + 1
      /\ \A j \in 1..Len(a) : Append(a, s[i])[j] = a[j]
      /\ Append(a, s[i])[Len(a) + 1] = s[i]
  BY <1>1, <1>2, AppendProperties
<1>4. r = Append(a, s[i])
  BY DEF a, MovedToEnd
<1> HIDE DEF r
<1>5. /\ r \in Seq(S) /\ Len(r) = Len(s)
      /\ \A j \in 1..i - 1 : r[j] = s[j]
      /\ \A j \in i..Len(s) - 1 : r[j] = s[j + 1]
      /\ r[Len(s)] = s[i]
  BY <1>1, <1>2, <1>3, <1>4
<1>6. NoRepeat(r)
  BY <1>1, <1>5 DEF NoRepeat
<1>7. ASSUME NEW j \in 1..Len(s)
      PROVE  \E k \in 1..Len(s) : r[j] = s[k]
  <2>1. CASE j < i
    BY <1>1, <1>5, <2>1
  <2>2. CASE j >= i /\ j < Len(s)
    <3>1. r[j] = s[j + 1] /\ j + 1 \in 1..Len(s)
      BY <1>1, <1>5, <2>2
    <3> QED BY <3>1
  <2>3. CASE j = Len(s)
    BY <1>1, <1>5, <2>3
  <2>4. j < i \/ (j >= i /\ j < Len(s)) \/ j = Len(s)
    BY <1>1
  <2> QED BY <2>1, <2>2, <2>3, <2>4
<1>8. ASSUME NEW j \in 1..Len(s)
      PROVE  \E k \in 1..Len(s) : s[j] = r[k]
  <2>1. CASE j < i
    BY <1>1, <1>5, <2>1
  <2>2. CASE j > i
    <3>1. j - 1 \in i..Len(s) - 1 /\ (j - 1) + 1 = j
      BY <1>1, <2>2
    <3>2. r[j - 1] = s[(j - 1) + 1]
      BY <1>5, <3>1
    <3>3. j - 1 \in 1..Len(s)
      BY <1>1, <2>2
    <3> QED BY <3>1, <3>2, <3>3
  <2>3. CASE j = i
    BY <1>1, <1>5, <2>3
  <2>4. j < i \/ j > i \/ j = i
    BY <1>1
  <2> QED BY <2>1, <2>2, <2>3, <2>4
<1>9. ToSet(r) = ToSet(s)
  <2>1. \A x : x \in ToSet(r) <=> \E j \in 1..Len(s) : r[j] = x
    BY <1>5, ToSetIs
  <2>2. \A x : x \in ToSet(s) <=> \E j \in 1..Len(s) : s[j] = x
    BY ToSetIs
  <2>3. \A x : x \in ToSet(r) <=> x \in ToSet(s)
    BY <1>7, <1>8, <2>1, <2>2
  <2> QED BY <2>3
<1> QED BY <1>5, <1>6, <1>9 DEF r

\* An eviction takes one entry out.
LEMMA TakeOutIs ==
    ASSUME NEW S, NEW s \in Seq(S), NoRepeat(s), NEW i \in 1..Len(s)
    PROVE  /\ RemoveAt(s, i) \in Seq(S)
           /\ Len(RemoveAt(s, i)) = Len(s) - 1
           /\ NoRepeat(RemoveAt(s, i))
           /\ ToSet(RemoveAt(s, i)) = ToSet(s) \ {s[i]}
<1> DEFINE r == RemoveAt(s, i)
<1>1. Len(s) \in Nat
  BY LenProperties
<1>2. /\ r \in Seq(S) /\ Len(r) = Len(s) - 1
      /\ \A j \in 1..i - 1 : r[j] = s[j]
      /\ \A j \in i..Len(s) - 1 : r[j] = s[j + 1]
  BY RemoveAtIs
<1> HIDE DEF r
<1>3. NoRepeat(r)
  BY <1>1, <1>2 DEF NoRepeat
<1>4. ASSUME NEW j \in 1..Len(r)
      PROVE  \E k \in 1..Len(s) : r[j] = s[k] /\ k # i
  <2>1. CASE j < i
    BY <1>1, <1>2, <2>1
  <2>2. CASE j >= i
    <3>1. r[j] = s[j + 1] /\ j + 1 \in 1..Len(s) /\ j + 1 # i
      BY <1>1, <1>2, <2>2
    <3> QED BY <3>1
  <2> QED BY <1>1, <2>1, <2>2
<1>5. ASSUME NEW j \in 1..Len(s), j # i
      PROVE  \E k \in 1..Len(r) : s[j] = r[k]
  <2>1. CASE j < i
    BY <1>1, <1>2, <2>1
  <2>2. CASE j > i
    <3>1. j - 1 \in i..Len(s) - 1 /\ (j - 1) + 1 = j
      BY <1>1, <2>2
    <3>2. r[j - 1] = s[(j - 1) + 1]
      BY <1>2, <3>1
    <3>3. j - 1 \in 1..Len(r)
      BY <1>1, <1>2, <2>2
    <3> QED BY <3>1, <3>2, <3>3
  <2> QED BY <1>1, <1>5, <2>1, <2>2
<1>6. \A k \in 1..Len(s) : k # i => s[k] # s[i]
  BY DEF NoRepeat
<1>7. ToSet(r) = ToSet(s) \ {s[i]}
  <2>1. \A x : x \in ToSet(r) <=> \E j \in 1..Len(r) : r[j] = x
    BY <1>2, ToSetIs
  <2>2. \A x : x \in ToSet(s) <=> \E j \in 1..Len(s) : s[j] = x
    BY ToSetIs
  <2>3. \A x : x \in ToSet(r) <=> x \in ToSet(s) /\ x # s[i]
    <3> TAKE x
    <3>1. ASSUME x \in ToSet(r)
          PROVE  x \in ToSet(s) /\ x # s[i]
      BY <1>4, <1>6, <2>1, <2>2, <3>1
    <3>2. ASSUME x \in ToSet(s), x # s[i]
          PROVE  x \in ToSet(r)
      <4>1. PICK j \in 1..Len(s) : s[j] = x
        BY <2>2, <3>2
      <4>2. j # i
        BY <3>2, <4>1
      <4> QED BY <1>5, <2>1, <4>1, <4>2
    <3> QED BY <3>1, <3>2
  <2> QED BY <2>3
<1> QED BY <1>2, <1>3, <1>7 DEF r

\* An installation adds an entry at the end and cuts some off the front.
LEMMA PushIs ==
    ASSUME NEW S, NEW s \in Seq(S), NoRepeat(s), NEW id \in S, id \notin ToSet(s),
           NEW e \in 0..Len(s)
    PROVE  /\ Kept(s, id, e) \in Seq(S)
           /\ Len(Kept(s, id, e)) = Len(s) + 1 - e
           /\ NoRepeat(Kept(s, id, e))
           /\ id \in ToSet(Kept(s, id, e))
           /\ ToSet(Gone(s, id, e)) \cap ToSet(Kept(s, id, e)) = {}
           /\ ToSet(Gone(s, id, e)) \cup ToSet(Kept(s, id, e))
                 = ToSet(s) \cup {id}
<1> DEFINE filled == Append(s, id)
           kept == SubSeq(filled, e + 1, Len(filled))
           gone == SubSeq(filled, 1, e)
<1>1. Len(s) \in Nat /\ e \in Nat /\ e <= Len(s)
  BY LenProperties
<1>2. /\ filled \in Seq(S) /\ Len(filled) = Len(s) + 1
      /\ \A j \in 1..Len(s) : filled[j] = s[j]
      /\ filled[Len(s) + 1] = id
  BY AppendProperties
<1> HIDE DEF filled
<1>3. \A x : x \in ToSet(s) <=> \E j \in 1..Len(s) : s[j] = x
  BY ToSetIs
<1>4. NoRepeat(filled)
  <2> SUFFICES ASSUME NEW j \in 1..Len(s) + 1, NEW k \in 1..Len(s) + 1,
                      filled[j] = filled[k], j < k
               PROVE  FALSE
    BY <1>1, <1>2 DEF NoRepeat
  <2>1. j \in 1..Len(s) /\ filled[j] = s[j]
    BY <1>1, <1>2
  <2>2. CASE k = Len(s) + 1
    BY <1>2, <1>3, <2>1, <2>2
  <2>3. CASE k # Len(s) + 1
    <3>1. k \in 1..Len(s) /\ filled[k] = s[k]
      BY <1>1, <1>2, <2>3
    <3>2. j = k
      BY <2>1, <3>1 DEF NoRepeat
    <3> QED BY <1>1, <3>2
  <2> QED BY <2>2, <2>3
<1>5. /\ kept \in Seq(S) /\ Len(kept) = Len(filled) - e
      /\ \A j \in 1..Len(filled) - e : kept[j] = filled[j + e]
      /\ gone \in Seq(S) /\ Len(gone) = e
      /\ \A j \in 1..e : gone[j] = filled[j]
  <2>1. e \in 0..Len(filled)
    BY <1>1, <1>2
  <2> QED BY <1>2, <2>1, CutIs
<1> HIDE DEF kept, gone
<1>6. NoRepeat(kept)
  <2> SUFFICES ASSUME NEW j \in 1..Len(kept), NEW k \in 1..Len(kept),
                      kept[j] = kept[k]
               PROVE  j = k
    BY DEF NoRepeat
  <2>1. /\ j + e \in 1..Len(filled) /\ k + e \in 1..Len(filled)
        /\ filled[j + e] = filled[k + e]
    BY <1>1, <1>2, <1>5
  <2>2. j + e = k + e
    BY <1>4, <2>1 DEF NoRepeat
  <2> QED BY <1>1, <2>2
<1>7. \A x : x \in ToSet(kept) <=> \E j \in e + 1..Len(filled) : filled[j] = x
  <2> TAKE x
  <2>1. x \in ToSet(kept) <=> \E j \in 1..Len(kept) : kept[j] = x
    BY <1>5, ToSetIs
  <2>2. ASSUME NEW j \in 1..Len(kept), kept[j] = x
        PROVE  \E k \in e + 1..Len(filled) : filled[k] = x
    <3>1. j + e \in e + 1..Len(filled) /\ filled[j + e] = x
      BY <1>1, <1>2, <1>5, <2>2
    <3> QED BY <3>1
  <2>3. ASSUME NEW k \in e + 1..Len(filled), filled[k] = x
        PROVE  \E j \in 1..Len(kept) : kept[j] = x
    <3>1. k - e \in 1..Len(kept) /\ (k - e) + e = k
      BY <1>1, <1>2, <1>5
    <3>2. kept[k - e] = filled[(k - e) + e]
      BY <1>5, <3>1
    <3> QED BY <2>3, <3>1, <3>2
  <2> QED BY <2>1, <2>2, <2>3
<1>8. \A x : x \in ToSet(gone) <=> \E j \in 1..e : filled[j] = x
  BY <1>5, ToSetIs
<1>9. id \in ToSet(kept)
  <2>1. Len(s) + 1 \in e + 1..Len(filled)
    BY <1>1, <1>2
  <2> QED BY <1>2, <1>7, <2>1
<1>10. ToSet(gone) \cap ToSet(kept) = {}
  <2> SUFFICES ASSUME NEW x, x \in ToSet(gone), x \in ToSet(kept) PROVE FALSE
    OBVIOUS
  <2>1. PICK j \in 1..e : filled[j] = x
    BY <1>8
  <2>2. PICK k \in e + 1..Len(filled) : filled[k] = x
    BY <1>7
  <2>3. j \in 1..Len(filled) /\ k \in 1..Len(filled) /\ j # k
    BY <1>1, <1>2
  <2> QED BY <1>4, <2>1, <2>2, <2>3 DEF NoRepeat
<1>11. ToSet(gone) \cup ToSet(kept) = ToSet(s) \cup {id}
  <2>1. \A x : x \in ToSet(gone) \cup ToSet(kept)
                 <=> \E j \in 1..Len(filled) : filled[j] = x
    <3>1. \A j : j \in 1..Len(filled) <=> j \in 1..e \/ j \in e + 1..Len(filled)
      BY <1>1, <1>2
    <3> QED BY <1>7, <1>8, <3>1
  <2>2. \A x : x \in ToSet(s) \cup {id}
                 <=> \E j \in 1..Len(filled) : filled[j] = x
    <3>1. \A j : j \in 1..Len(filled) <=> j \in 1..Len(s) \/ j = Len(s) + 1
      BY <1>1, <1>2
    <3> QED BY <1>2, <1>3, <3>1
  <2> QED BY <2>1, <2>2
<1> QED BY <1>1, <1>2, <1>5, <1>6, <1>9, <1>10, <1>11
        DEF Kept, Gone, kept, gone, filled

----------------------------------------------------------------------------
(* What dispose(), a new Database and a session do to the pools.           *)

\* A function on 1..n is a sequence of length n.
LEMMA FunctionIsSeq ==
    ASSUME NEW S, NEW n \in Nat, NEW f \in [1..n -> S]
    PROVE  f \in Seq(S) /\ Len(f) = n
<1>1. f \in Seq(S)
  BY SeqDef
<1>2. Len(f) \in Nat /\ DOMAIN f = 1..Len(f) /\ DOMAIN f = 1..n
  BY <1>1, LenProperties
<1>3. ~(Len(f) < n)
  <2>1. CASE Len(f) < n
    <3>1. n \in 1..n /\ n \notin 1..Len(f)
      BY <1>2, <2>1
    <3> QED BY <1>2, <3>1
  <2> QED BY <2>1
<1>4. ~(Len(f) > n)
  <2>1. CASE Len(f) > n
    <3>1. Len(f) \in 1..Len(f) /\ Len(f) \notin 1..n
      BY <1>2, <2>1
    <3> QED BY <1>2, <3>1
  <2> QED BY <2>1
<1> QED BY <1>1, <1>2, <1>3, <1>4

LEMMA DisposedIs ==
    ASSUME pools \in Seq(Pool), NEW ids
    PROVE  /\ Disposed(ids) \in Seq(Pool)
           /\ Len(Disposed(ids)) = Len(pools)
           /\ \A id \in Ids :
                 /\ Disposed(ids)[id].tenant = pools[id].tenant
                 /\ Disposed(ids)[id].place = pools[id].place
                 /\ Disposed(ids)[id].open <=> pools[id].open /\ id \notin ids
<1>1. Len(pools) \in Nat /\ DOMAIN pools = Ids /\ \A id \in Ids : pools[id] \in Pool
  BY LenProperties, ElementOfSeq DEF Ids
<1>2. ASSUME NEW id \in Ids
      PROVE  /\ Disposed(ids)[id] \in Pool
             /\ Disposed(ids)[id].tenant = pools[id].tenant
             /\ Disposed(ids)[id].place = pools[id].place
             /\ Disposed(ids)[id].open <=> pools[id].open /\ id \notin ids
  <2>1. pools[id] \in Pool
    BY <1>1
  <2>2. Disposed(ids)[id] = IF id \in ids
                            THEN [pools[id] EXCEPT !.open = FALSE]
                            ELSE pools[id]
    BY <1>1 DEF Disposed
  <2> QED BY <2>1, <2>2 DEF Pool
<1>3. Disposed(ids) \in [1..Len(pools) -> Pool]
  <2>1. DOMAIN Disposed(ids) = Ids
    BY <1>1 DEF Disposed
  <2>2. Disposed(ids) = [id \in Ids |-> Disposed(ids)[id]]
    BY <1>1 DEF Disposed
  <2> QED BY <1>2, <2>2 DEF Ids
<1> QED BY <1>1, <1>2, <1>3, FunctionIsSeq

----------------------------------------------------------------------------
(* What the steps have in common.                                          *)

\* A Database never changes its tenant or place, and none is forgotten.
KeepPools ==
    /\ pools' \in Seq(Pool)
    /\ Len(pools') >= Len(pools)
    /\ \A id \in Ids : /\ pools'[id].tenant = pools[id].tenant
                       /\ pools'[id].place = pools[id].place

\* The types, with Ids for the pools.
LEMMA Types ==
    TypeOK <=>
        /\ placement \in [Tenants -> Places \cup {Unavailable}]
        /\ cache \in Seq(Ids)
        /\ pools \in Seq(Pool)
        /\ pc \in [Threads -> {"idle", "place", "install", "dispose", "session"}]
        /\ target \in [Threads -> Tenants \cup {NoTenant}]
        /\ own \in [Threads -> SUBSET Ids]
        /\ given \in [Threads -> 0..Len(pools)]
        /\ strays \in SUBSET Ids
        /\ moved \in SUBSET Tenants
        /\ raced \in SUBSET Tenants
BY DEF TypeOK, Ids, Pool

LEMMA Lengths ==
    ASSUME TypeOK
    PROVE  /\ Len(pools) \in Nat /\ DOMAIN pools = Ids
           /\ \A id \in Ids : pools[id] \in Pool
           /\ Len(cache) \in Nat /\ DOMAIN cache = 1..Len(cache)
           /\ \A i \in 1..Len(cache) : cache[i] \in Ids /\ cache[i] \in ToSet(cache)
           /\ ToSet(cache) \subseteq Ids
<1>1. cache \in Seq(Ids) /\ pools \in Seq(Pool)
  BY Types
<1>2. /\ Len(pools) \in Nat /\ DOMAIN pools = Ids
      /\ \A id \in Ids : pools[id] \in Pool
  BY <1>1, LenProperties, ElementOfSeq DEF Ids
<1>3. /\ Len(cache) \in Nat /\ DOMAIN cache = 1..Len(cache)
      /\ \A i \in 1..Len(cache) : cache[i] \in Ids
  BY <1>1, LenProperties, ElementOfSeq
<1>4. \A x : x \in ToSet(cache) <=> \E j \in 1..Len(cache) : cache[j] = x
  BY <1>1, ToSetIs
<1> QED BY <1>2, <1>3, <1>4

\* The part of the types that a step with KeepPools leaves to show.
LEMMA TypesKept ==
    ASSUME TypeOK, KeepPools, cache' \in Seq(Ids), UNCHANGED placement,
           pc' \in [Threads -> {"idle", "place", "install", "dispose", "session"}],
           target' \in [Threads -> Tenants \cup {NoTenant}],
           own' \in [Threads -> SUBSET Ids], given' \in [Threads -> {0} \cup Ids],
           strays' \in SUBSET Ids, moved' \in SUBSET Tenants,
           raced' \in SUBSET Tenants
    PROVE  TypeOK'
<1>1. Len(pools) \in Nat /\ Len(pools') \in Nat
  BY LenProperties, Types DEF KeepPools
<1>2. Ids \subseteq 1..Len(pools')
  BY <1>1 DEF KeepPools, Ids
<1>3. cache' \in Seq(1..Len(pools'))
  BY <1>2, SeqMonotonic
<1>4. own' \in [Threads -> SUBSET (1..Len(pools'))]
  BY <1>2
<1>5. given' \in [Threads -> 0..Len(pools')]
  <2>1. {0} \cup Ids \subseteq 0..Len(pools')
    BY <1>1 DEF KeepPools, Ids
  <2> QED BY <2>1
<1>6. strays' \in SUBSET (1..Len(pools'))
  BY <1>2
<1> QED BY <1>3, <1>4, <1>5, <1>6 DEF TypeOK, KeepPools, Pool

\* A thread that does not move, whose own pools stay open, is served still;
\* a move or an evict of its tenant meanwhile is on record.
LEMMA ServingStays ==
    ASSUME TypeOK, KeepPools, NEW u \in Threads, Serving(u),
           pc'[u] = pc[u], own'[u] = own[u], target'[u] = target[u],
           given'[u] = given[u],
           \A id \in own[u] : pools[id].open => pools'[id].open,
           pc[u] = "install" =>
               \/ target[u] \in moved' \cup raced'
               \/ /\ target[u] \notin moved \cup raced
                  /\ placement'[target[u]] = placement[target[u]]
    PROVE  Serving(u)'
<1>1. Len(pools) \in Nat /\ Len(pools') \in Nat /\ Ids \subseteq 1..Len(pools')
  BY LenProperties, Types DEF KeepPools, Ids
<1>2. ASSUME pc[u] = "install"
      PROVE  Building(u)'
  <2>1. PICK id \in Ids :
            /\ own[u] = {id}
            /\ pools[id].tenant = target[u]
            /\ pools[id].open
            /\ target[u] \in moved \cup raced
                 \/ pools[id].place = placement[target[u]]
    BY <1>2 DEF Serving, Building, Ids
  <2>2. /\ id \in 1..Len(pools')
        /\ own'[u] = {id}
        /\ pools'[id].tenant = target'[u]
        /\ pools'[id].open
    BY <1>1, <2>1 DEF KeepPools
  <2>3. target'[u] \in moved' \cup raced'
          \/ pools'[id].place = placement'[target'[u]]
    BY <1>2, <2>1 DEF KeepPools
  <2> QED BY <2>2, <2>3 DEF Building
<1>3. given[u] \in Ids => given'[u] \in 1..Len(pools')
  BY <1>1
<1> QED BY <1>2, <1>3 DEF Serving, Ids

\* A step that changes neither the cache nor the pools keeps the bounds.
LEMMA CacheStays ==
    ASSUME Bounded, CachedIsOpen, UNCHANGED <<cache, pools>>
    PROVE  Bounded' /\ CachedIsOpen'
BY DEF Bounded, CachedIsOpen, NoRepeat

----------------------------------------------------------------------------
(* The initial states, and the steps one by one.                           *)

LEMMA InitInv == Init => IInv
<1> SUFFICES ASSUME Init PROVE IInv
  OBVIOUS
<1>1. cache = <<>> /\ pools = <<>> /\ Len(cache) = 0 /\ Len(pools) = 0
  BY EmptySeq DEF Init
<1>2. ToSet(cache) = {}
  <2>1. cache \in Seq(Ids)
    BY <1>1, EmptySeq
  <2>2. \A x : x \in ToSet(cache) <=> \E j \in 1..Len(cache) : cache[j] = x
    BY <2>1, ToSetIs
  <2>3. \A j : j \notin 1..Len(cache)
    BY <1>1
  <2> QED BY <2>2, <2>3
<1>3. TypeOK
  <2>1. cache \in Seq(Ids) /\ pools \in Seq(Pool)
    BY <1>1, EmptySeq
  <2> QED BY <1>1, <2>1, Types DEF Init, NoPool
<1>4. Bounded /\ CachedIsOpen /\ Held
  BY <1>1, <1>2 DEF Bounded, NoRepeat, CachedIsOpen, Held
<1>5. OneHolder /\ \A th \in Threads : Serving(th)
  BY DEF Init, OneHolder, Serving
<1>6. QuietEvictRefreshes
  BY <1>2 DEF QuietEvictRefreshes, Fresh
<1> QED BY <1>3, <1>4, <1>5, <1>6 DEF IInv

\* A hit: the pool found was cached, and stays so.
LEMMA HitInv ==
    ASSUME IInv, NEW th \in Threads, NEW t \in Tenants, Hit(th, t)
    PROVE  /\ IInv'
           /\ given'[th] \in ToSet(cache') /\ pools'[given'[th]].open
           /\ \A u \in Threads : u # th => given'[u] = given[u]
<1>1. /\ TypeOK /\ Bounded /\ CachedIsOpen /\ Held /\ QuietEvictRefreshes
      /\ OneHolder /\ \A u \in Threads : Serving(u)
  BY DEF IInv
<1>2. PICK i \in 1..Len(cache) :
          cache' = MovedToEnd(cache, i) /\ Give(th, cache[i])
  BY <1>1, Lengths DEF Hit, Cached, MovedToEnd
<1>3. /\ cache' \in Seq(Ids) /\ Len(cache') = Len(cache) /\ NoRepeat(cache')
      /\ ToSet(cache') = ToSet(cache)
  BY <1>1, <1>2, Types, MoveToEndIs DEF Bounded
<1>4. /\ cache[i] \in ToSet(cache) /\ cache[i] \in Ids
      /\ pc[th] = "idle" /\ own[th] = {}
      /\ UNCHANGED <<placement, pools, moved, raced, strays>>
  BY <1>1, <1>2, Lengths DEF Hit, Give, Serving
<1>5. /\ pc' = [pc EXCEPT ![th] = "session"]
      /\ target' = [target EXCEPT ![th] = NoTenant]
      /\ own' = [own EXCEPT ![th] = {}] /\ own' = own
      /\ given' = [given EXCEPT ![th] = cache[i]]
  BY <1>1, <1>2, <1>4, Types DEF Give
<1>6. KeepPools
  BY <1>1, <1>4, Lengths, Types DEF KeepPools
<1>7. TypeOK'
  <2>1. given \in [Threads -> {0} \cup Ids]
    BY <1>1, Types, Lengths DEF Ids
  <2> QED BY <1>1, <1>3, <1>4, <1>5, <1>6, <2>1, Types, TypesKept
<1>8. Bounded' /\ CachedIsOpen' /\ Held' /\ OneHolder' /\ QuietEvictRefreshes'
  BY <1>1, <1>3, <1>4, <1>5
     DEF Bounded, CachedIsOpen, Held, OneHolder, QuietEvictRefreshes, Fresh
<1>9. ASSUME NEW u \in Threads
      PROVE  Serving(u)'
  <2>1. CASE u = th
    BY <1>1, <1>4, <1>5, <2>1, Types DEF Serving, Ids
  <2>2. CASE u # th
    <3>1. pc'[u] = pc[u] /\ target'[u] = target[u] /\ given'[u] = given[u]
      BY <1>1, <1>5, <2>2, Types
    <3> QED BY <1>1, <1>4, <1>5, <1>6, <3>1, ServingStays
  <2> QED BY <2>1, <2>2
<1>10. /\ given'[th] = cache[i]
       /\ \A u \in Threads : u # th => given'[u] = given[u]
  BY <1>1, <1>5, Types
<1>11. cache[i] \in ToSet(cache') /\ pools'[cache[i]].open
  BY <1>1, <1>3, <1>4 DEF CachedIsOpen
<1> QED BY <1>7, <1>8, <1>9, <1>10, <1>11 DEF IInv

\* A miss only remembers the tenant.
LEMMA MissInv ==
    ASSUME IInv, NEW th \in Threads, NEW t \in Tenants, Miss(th, t)
    PROVE  IInv' /\ given' = given
<1>1. /\ TypeOK /\ Bounded /\ CachedIsOpen /\ Held /\ QuietEvictRefreshes
      /\ OneHolder /\ \A u \in Threads : Serving(u)
  BY DEF IInv
<1>2. /\ pc[th] = "idle" /\ own[th] = {}
      /\ pc' = [pc EXCEPT ![th] = "place"]
      /\ target' = [target EXCEPT ![th] = t]
      /\ UNCHANGED <<placement, cache, pools, own, given, strays, moved, raced>>
  BY <1>1 DEF Miss, Serving
<1>3. KeepPools
  BY <1>1, <1>2, Lengths, Types DEF KeepPools
<1>4. TypeOK'
  BY <1>1, <1>2 DEF TypeOK
<1>5. Bounded' /\ CachedIsOpen' /\ Held' /\ OneHolder' /\ QuietEvictRefreshes'
  BY <1>1, <1>2, CacheStays DEF Held, OneHolder, QuietEvictRefreshes, Fresh
<1>6. ASSUME NEW u \in Threads
      PROVE  Serving(u)'
  <2>1. CASE u = th
    BY <1>1, <1>2, <2>1, Types DEF Serving
  <2>2. CASE u # th
    <3>1. pc'[u] = pc[u] /\ target'[u] = target[u]
      BY <1>1, <1>2, <2>2, Types
    <3> QED BY <1>1, <1>2, <1>3, <3>1, ServingStays
  <2> QED BY <2>1, <2>2
<1> QED BY <1>2, <1>4, <1>5, <1>6 DEF IInv

\* A new Database is where the registry says, and this thread's alone.
LEMMA PlaceInv ==
    ASSUME IInv, NEW th \in Threads, Place(th)
    PROVE  IInv' /\ given' = given
<1>1. /\ TypeOK /\ Bounded /\ CachedIsOpen /\ Held /\ QuietEvictRefreshes
      /\ OneHolder /\ \A u \in Threads : Serving(u)
  BY DEF IInv
<1> DEFINE t == target[th]
           new == [tenant |-> t, place |-> placement[t], open |-> TRUE]
           n == Len(pools) + 1
<1>2. /\ pc[th] = "place" /\ own[th] = {}
      /\ t \in Tenants /\ placement[t] # Unavailable
      /\ pools' = Append(pools, new)
      /\ own' = [own EXCEPT ![th] = {n}]
      /\ pc' = [pc EXCEPT ![th] = "install"]
      /\ UNCHANGED <<placement, cache, target, given, strays, moved, raced>>
  BY <1>1 DEF Place, Serving
<1>3. new \in Pool
  BY <1>1, <1>2, Types DEF Pool
<1>4. /\ Len(pools) \in Nat /\ ToSet(cache) \subseteq Ids
      /\ \A i \in 1..Len(cache) : cache[i] \in Ids
      /\ n \notin Ids
  BY <1>1, Lengths DEF Ids
<1>5. /\ pools' \in Seq(Pool) /\ Len(pools') = n
      /\ \A id \in Ids : pools'[id] = pools[id]
      /\ pools'[n] = new
  BY <1>1, <1>2, <1>3, Types, AppendProperties DEF Ids
<1>6. 1..Len(pools') = Ids \cup {n} /\ 0..Len(pools) \subseteq 0..Len(pools')
  BY <1>4, <1>5 DEF Ids
<1> HIDE DEF n
<1>7. KeepPools
  BY <1>4, <1>5 DEF KeepPools, n
<1>8. TypeOK'
  <2>1. cache' \in Seq(1..Len(pools'))
    BY <1>1, <1>2, <1>6, Types, SeqMonotonic
  <2>2. own' \in [Threads -> SUBSET (1..Len(pools'))]
    BY <1>1, <1>2, <1>6, Types
  <2>3. given' \in [Threads -> 0..Len(pools')]
    BY <1>1, <1>2, <1>6, Types
  <2>4. strays' \in SUBSET (1..Len(pools'))
    BY <1>1, <1>2, <1>6, Types
  <2> QED BY <1>1, <1>2, <1>5, <2>1, <2>2, <2>3, <2>4 DEF TypeOK, Pool
<1>9. /\ Bounded' /\ CachedIsOpen' /\ QuietEvictRefreshes'
  <2>1. /\ UNCHANGED <<cache, placement, moved, raced>>
        /\ \A id \in ToSet(cache) : pools'[id] = pools[id]
    BY <1>2, <1>4, <1>5
  <2>2. Bounded'
    BY <1>1, <2>1 DEF Bounded, NoRepeat
  <2>3. CachedIsOpen'
    BY <1>1, <2>1 DEF CachedIsOpen
  <2>4. QuietEvictRefreshes'
    BY <1>1, <2>1 DEF QuietEvictRefreshes, Fresh
  <2> QED BY <2>2, <2>3, <2>4
<1>10. Held'
  <2>1. ASSUME NEW id \in Ids, pools'[id].open
        PROVE  id \in ToSet(cache) \/ (\E u \in Threads : id \in own'[u])
                 \/ id \in strays
    <3>1. \/ id \in ToSet(cache)
          \/ \E u \in Threads : id \in own[u]
          \/ id \in strays
      BY <1>1, <1>5, <2>1 DEF Held, Ids
    <3>2. \A u \in Threads : id \in own[u] => id \in own'[u]
      BY <1>1, <1>2, Types
    <3> QED BY <3>1, <3>2
  <2>2. n \in own'[th]
    BY <1>1, <1>2, Types
  <2> QED BY <1>2, <1>6, <2>1, <2>2 DEF Held
<1>11. OneHolder'
  <2>1. \A u \in Threads : own[u] \subseteq Ids
                           /\ own'[u] = IF u = th THEN {n} ELSE own[u]
    BY <1>1, <1>2, Types
  <2> QED BY <1>1, <1>2, <1>4, <2>1 DEF OneHolder
<1>12. ASSUME NEW u \in Threads
       PROVE  Serving(u)'
  <2>1. CASE u = th
    <3>1. pc'[th] = "install" /\ own'[th] = {n} /\ target'[th] = t
      BY <1>1, <1>2, Types
    <3>2. /\ n \in 1..Len(pools')
          /\ pools'[n].tenant = t /\ pools'[n].open
          /\ pools'[n].place = placement'[t]
      BY <1>2, <1>5, <1>6
    <3>3. Building(th)'
      BY <3>1, <3>2 DEF Building
    <3> QED BY <1>2, <2>1, <3>1, <3>3 DEF Serving
  <2>2. CASE u # th
    <3>1. pc'[u] = pc[u] /\ own'[u] = own[u]
      BY <1>1, <1>2, <2>2, Types
    <3>2. \A id \in own[u] : pools'[id] = pools[id]
      BY <1>1, <1>5, Types
    <3> QED BY <1>1, <1>2, <1>7, <3>1, <3>2, ServingStays
  <2> QED BY <2>1, <2>2
<1> QED BY <1>2, <1>8, <1>9, <1>10, <1>11, <1>12 DEF IInv

\* A tenant that is unknown or not ready.
LEMMA PlaceFailsInv ==
    ASSUME IInv, NEW th \in Threads, PlaceFails(th)
    PROVE  IInv' /\ given' = given
<1>1. /\ TypeOK /\ Bounded /\ CachedIsOpen /\ Held /\ QuietEvictRefreshes
      /\ OneHolder /\ \A u \in Threads : Serving(u)
  BY DEF IInv
<1>2. /\ pc[th] = "place" /\ own[th] = {}
      /\ pc' = [pc EXCEPT ![th] = "idle"]
      /\ target' = [target EXCEPT ![th] = NoTenant]
      /\ own' = [own EXCEPT ![th] = {}]
      /\ UNCHANGED <<placement, cache, pools, given, strays, moved, raced>>
  BY <1>1 DEF PlaceFails, Return, Serving
<1>3. own' = own
  BY <1>1, <1>2, Types
<1>4. KeepPools
  BY <1>1, <1>2, Lengths, Types DEF KeepPools
<1>5. TypeOK'
  BY <1>1, <1>2, <1>3 DEF TypeOK
<1>6. Bounded' /\ CachedIsOpen' /\ Held' /\ OneHolder' /\ QuietEvictRefreshes'
  BY <1>1, <1>2, <1>3, CacheStays
     DEF Held, OneHolder, QuietEvictRefreshes, Fresh
<1>7. ASSUME NEW u \in Threads
      PROVE  Serving(u)'
  <2>1. CASE u = th
    BY <1>1, <1>2, <1>3, <2>1, Types DEF Serving
  <2>2. CASE u # th
    <3>1. pc'[u] = pc[u] /\ target'[u] = target[u]
      BY <1>1, <1>2, <2>2, Types
    <3> QED BY <1>1, <1>2, <1>3, <1>4, <3>1, ServingStays
  <2> QED BY <2>1, <2>2
<1> QED BY <1>2, <1>5, <1>6, <1>7 DEF IInv

\* Losing the race: the thread's own Database is disposed of, and the one in
\* the cache, which nobody else disposes of, is given.
LEMMA LostRaceInv ==
    ASSUME IInv, NEW th \in Threads, LostRace(th)
    PROVE  /\ IInv'
           /\ given'[th] \in ToSet(cache') /\ pools'[given'[th]].open
           /\ \A u \in Threads : u # th => given'[u] = given[u]
<1>1. /\ TypeOK /\ Bounded /\ CachedIsOpen /\ Held /\ QuietEvictRefreshes
      /\ OneHolder /\ \A u \in Threads : Serving(u)
  BY DEF IInv
<1>2. PICK i \in 1..Len(cache) : Give(th, cache[i])
  BY <1>1, Lengths DEF LostRace, Cached
<1>3. /\ cache[i] \in ToSet(cache) /\ cache[i] \in Ids
      /\ ToSet(cache) \subseteq Ids
      /\ UNCHANGED <<placement, cache, moved, raced, strays>>
  BY <1>1, <1>2, Lengths DEF LostRace, Give
<1>4. /\ pc' = [pc EXCEPT ![th] = "session"]
      /\ target' = [target EXCEPT ![th] = NoTenant]
      /\ own' = [own EXCEPT ![th] = {}]
      /\ given' = [given EXCEPT ![th] = cache[i]]
  BY <1>2 DEF Give
<1>5. /\ pools' \in Seq(Pool) /\ Len(pools') = Len(pools)
      /\ \A id \in Ids :
            /\ pools'[id].tenant = pools[id].tenant
            /\ pools'[id].place = pools[id].place
            /\ pools'[id].open <=> pools[id].open /\ id \notin own[th]
  BY <1>1, Types, DisposedIs DEF LostRace
<1>6. KeepPools
  BY <1>1, <1>5, Lengths DEF KeepPools
<1>7. TypeOK'
  <2>1. given \in [Threads -> {0} \cup Ids]
    BY <1>1, Types, Lengths DEF Ids
  <2> QED BY <1>1, <1>3, <1>4, <1>6, <2>1, Types, TypesKept
<1>8. own[th] \cap ToSet(cache) = {}
  BY <1>1 DEF OneHolder
<1>9. \A u \in Threads : own'[u] = IF u = th THEN {} ELSE own[u]
  BY <1>1, <1>4, Types
<1>10. Bounded' /\ CachedIsOpen' /\ QuietEvictRefreshes'
  <2>1. /\ cache' = cache
        /\ \A id \in ToSet(cache) : /\ pools'[id].tenant = pools[id].tenant
                                    /\ pools'[id].place = pools[id].place
                                    /\ pools'[id].open <=> pools[id].open
    BY <1>3, <1>5, <1>8
  <2>2. Bounded'
    BY <1>1, <2>1 DEF Bounded, NoRepeat
  <2>3. CachedIsOpen'
    BY <1>1, <2>1 DEF CachedIsOpen
  <2>4. QuietEvictRefreshes'
    BY <1>1, <1>3, <2>1 DEF QuietEvictRefreshes, Fresh
  <2> QED BY <2>2, <2>3, <2>4
<1>11. OneHolder'
  BY <1>1, <1>3, <1>9 DEF OneHolder
<1>12. Held'
  <2> SUFFICES ASSUME NEW id \in Ids, pools'[id].open
               PROVE  \/ id \in ToSet(cache)
                      \/ \E u \in Threads : id \in own'[u]
                      \/ id \in strays
    BY <1>3, <1>5 DEF Held, Ids
  <2>1. pools[id].open /\ id \notin own[th]
    BY <1>5
  <2>2. \/ id \in ToSet(cache)
        \/ \E u \in Threads : id \in own[u]
        \/ id \in strays
    BY <1>1, <2>1 DEF Held, Ids
  <2> QED BY <1>9, <2>1, <2>2
<1>13. ASSUME NEW u \in Threads
       PROVE  Serving(u)'
  <2>1. CASE u = th
    <3>1. pc'[th] = "session" /\ own'[th] = {} /\ given'[th] = cache[i]
      BY <1>1, <1>4, Types
    <3>2. cache[i] \in 1..Len(pools')
      BY <1>3, <1>5 DEF Ids
    <3> QED BY <2>1, <3>1, <3>2 DEF Serving
  <2>2. CASE u # th
    <3>1. /\ pc'[u] = pc[u] /\ own'[u] = own[u] /\ target'[u] = target[u]
          /\ given'[u] = given[u]
      BY <1>1, <1>4, <2>2, Types
    <3>2. own[u] \subseteq Ids /\ own[u] \cap own[th] = {}
      BY <1>1, <2>2, Types DEF OneHolder
    <3>3. \A id \in own[u] : pools[id].open => pools'[id].open
      BY <1>5, <3>2
    <3> QED BY <1>1, <1>3, <1>6, <3>1, <3>3, ServingStays
  <2> QED BY <2>1, <2>2
<1>14. IInv'
  BY <1>7, <1>10, <1>11, <1>12, <1>13 DEF IInv
<1>15. /\ given'[th] = cache[i]
       /\ \A u \in Threads : u # th => given'[u] = given[u]
  BY <1>1, <1>4, Types
<1>16. cache[i] \in ToSet(cache') /\ pools'[cache[i]].open
  BY <1>1, <1>3, <1>5, <1>8 DEF CachedIsOpen
<1> QED BY <1>14, <1>15, <1>16

\* An installation: the pool goes to the end of the cache, where max_cached
\* leaves it, and what is cut off the front is disposed of.
LEMMA InstallInv ==
    ASSUME IInv, NEW th \in Threads, Install(th)
    PROVE  /\ IInv'
           /\ given'[th] \in ToSet(cache') /\ pools'[given'[th]].open
           /\ \A u \in Threads : u # th => given'[u] = given[u]
<1>1. /\ TypeOK /\ Bounded /\ CachedIsOpen /\ Held /\ QuietEvictRefreshes
      /\ OneHolder /\ \A u \in Threads : Serving(u)
  BY DEF IInv
<1>2. /\ pc[th] = "install"
      /\ \A i \in 1..Len(cache) : pools[cache[i]].tenant # target[th]
      /\ UNCHANGED <<placement, moved, raced>>
  BY <1>1, Lengths DEF Install, Cached
<1>3. PICK new \in own[th] :
          /\ cache' = LET filled == Append(cache, new)
                      IN  SubSeq(filled, Excess(filled) + 1, Len(filled))
          /\ pools' = LET filled == Append(cache, new)
                      IN  Disposed(ToSet(SubSeq(filled, 1, Excess(filled))))
          /\ Give(th, new)
  BY DEF Install
<1>4. /\ new \in Ids /\ own[th] = {new} /\ new \notin ToSet(cache)
      /\ pools[new].tenant = target[th] /\ pools[new].open
      /\ target[th] \in moved \cup raced
           \/ pools[new].place = placement[target[th]]
  <2>1. PICK id \in Ids :
            /\ own[th] = {id}
            /\ pools[id].tenant = target[th]
            /\ pools[id].open
            /\ target[th] \in moved \cup raced
                 \/ pools[id].place = placement[target[th]]
    BY <1>1, <1>2 DEF Serving, Building, Ids
  <2>2. new = id
    BY <1>3, <2>1
  <2>3. own[th] \cap ToSet(cache) = {}
    BY <1>1 DEF OneHolder
  <2> QED BY <2>1, <2>2, <2>3
<1> DEFINE e == Excess(Append(cache, new))
           kept == Kept(cache, new, e)
           gone == ToSet(Gone(cache, new, e))
<1>5. /\ cache' = kept
      /\ pools' = Disposed(gone)
  BY <1>3 DEF Kept, Gone
<1>6. e \in 0..Len(cache) /\ Len(cache) + 1 - e <= MaxCached
  <2>1. Len(Append(cache, new)) = Len(cache) + 1 /\ Len(cache) \in Nat
    BY <1>1, <1>4, Types, Lengths, AppendProperties
  <2>2. Len(cache) <= MaxCached /\ MaxCached \in Nat \ {0}
    BY <1>1 DEF Bounded
  <2> QED BY <2>1, <2>2 DEF Excess
<1> HIDE DEF e
<1>7. /\ cache' \in Seq(Ids) /\ Len(cache') <= MaxCached /\ NoRepeat(cache')
      /\ new \in ToSet(cache')
      /\ gone \cap ToSet(cache') = {}
      /\ gone \cup ToSet(cache') = ToSet(cache) \cup {new}
  <2>1. /\ cache \in Seq(Ids) /\ NoRepeat(cache)
    BY <1>1, Types DEF Bounded
  <2>2. /\ kept \in Seq(Ids) /\ Len(kept) = Len(cache) + 1 - e /\ NoRepeat(kept)
        /\ new \in ToSet(kept)
        /\ gone \cap ToSet(kept) = {}
        /\ gone \cup ToSet(kept) = ToSet(cache) \cup {new}
    BY <1>4, <1>6, <2>1, PushIs
  <2> QED BY <1>5, <1>6, <2>2
<1>8. /\ pools' \in Seq(Pool) /\ Len(pools') = Len(pools)
      /\ \A id \in Ids :
            /\ pools'[id].tenant = pools[id].tenant
            /\ pools'[id].place = pools[id].place
            /\ pools'[id].open <=> pools[id].open /\ id \notin gone
  BY <1>1, <1>5, Types, DisposedIs
<1> HIDE DEF gone, kept
<1>9. /\ pc' = [pc EXCEPT ![th] = "session"]
      /\ target' = [target EXCEPT ![th] = NoTenant]
      /\ own' = [own EXCEPT ![th] = {}]
      /\ given' = [given EXCEPT ![th] = new]
      /\ strays' = strays
  BY <1>3 DEF Give
<1>10. KeepPools
  BY <1>1, <1>8, Lengths DEF KeepPools
<1>11. TypeOK'
  <2>1. given \in [Threads -> {0} \cup Ids]
    BY <1>1, Types, Lengths DEF Ids
  <2> QED BY <1>1, <1>2, <1>4, <1>7, <1>9, <1>10, <2>1, Types, TypesKept
<1>12. /\ ToSet(cache) \subseteq Ids
       /\ \A id \in ToSet(cache) : pools[id].tenant # target[th]
  <2>1. \A x : x \in ToSet(cache) <=> \E j \in 1..Len(cache) : cache[j] = x
    BY <1>1, Types, ToSetIs
  <2> QED BY <1>1, <1>2, <2>1, Lengths
<1>13. ToSet(cache') \subseteq Ids /\ ToSet(cache') \subseteq ToSet(cache) \cup {new}
  BY <1>4, <1>7, <1>12
<1>14. Bounded'
  <2>1. ASSUME NEW id \in ToSet(cache'), NEW x \in ToSet(cache'),
               pools'[id].tenant = pools'[x].tenant
        PROVE  id = x
    <3>1. pools[id].tenant = pools[x].tenant
      BY <1>8, <1>13, <2>1
    <3> QED BY <1>1, <1>4, <1>12, <1>13, <3>1 DEF Bounded
  <2> QED BY <1>7, <2>1 DEF Bounded
<1>15. CachedIsOpen'
  <2> SUFFICES ASSUME NEW id \in ToSet(cache') PROVE pools'[id].open
    BY DEF CachedIsOpen
  <2>1. pools[id].open
    BY <1>1, <1>4, <1>13 DEF CachedIsOpen
  <2> QED BY <1>7, <1>8, <1>13, <2>1
<1>16. QuietEvictRefreshes'
  <2> SUFFICES ASSUME NEW t \in Tenants \ (moved \cup raced),
                      NEW id \in ToSet(cache'), pools'[id].tenant = t
               PROVE  pools'[id].place = placement[t]
    BY <1>2 DEF QuietEvictRefreshes, Fresh
  <2>1. pools[id].tenant = t /\ pools'[id].place = pools[id].place
    BY <1>8, <1>13
  <2>2. CASE id = new
    BY <1>4, <2>1, <2>2
  <2>3. CASE id \in ToSet(cache)
    BY <1>1, <2>1, <2>3 DEF QuietEvictRefreshes, Fresh
  <2> QED BY <1>13, <2>2, <2>3
<1>17. \A u \in Threads : own'[u] = IF u = th THEN {} ELSE own[u]
  BY <1>1, <1>9, Types
<1>18. \A u \in Threads : u # th => new \notin own[u]
  BY <1>1, <1>4 DEF OneHolder
<1>19. OneHolder'
  BY <1>1, <1>13, <1>17, <1>18 DEF OneHolder
<1>20. Held'
  <2> SUFFICES ASSUME NEW id \in Ids, pools'[id].open
               PROVE  \/ id \in ToSet(cache')
                      \/ \E u \in Threads : id \in own'[u]
                      \/ id \in strays
    BY <1>8, <1>9 DEF Held, Ids
  <2>1. pools[id].open /\ id \notin gone
    BY <1>8
  <2>2. \/ id \in ToSet(cache)
        \/ \E u \in Threads : id \in own[u]
        \/ id \in strays
    BY <1>1, <2>1 DEF Held, Ids
  <2>3. id \in ToSet(cache) \cup {new} => id \in ToSet(cache')
    BY <1>7, <2>1
  <2>4. \A u \in Threads : id \in own[u] => id \in own'[u] \/ id = new
    BY <1>4, <1>17
  <2> QED BY <2>2, <2>3, <2>4
<1>21. ASSUME NEW u \in Threads
       PROVE  Serving(u)'
  <2>1. CASE u = th
    <3>1. pc'[th] = "session" /\ own'[th] = {} /\ given'[th] = new
      BY <1>1, <1>9, Types
    <3>2. new \in 1..Len(pools')
      BY <1>4, <1>8 DEF Ids
    <3> QED BY <2>1, <3>1, <3>2 DEF Serving
  <2>2. CASE u # th
    <3>1. /\ pc'[u] = pc[u] /\ own'[u] = own[u] /\ target'[u] = target[u]
          /\ given'[u] = given[u]
      BY <1>1, <1>9, <2>2, Types
    <3>2. own[u] \subseteq Ids /\ own[u] \cap gone = {}
      <4>1. own[u] \subseteq Ids /\ own[u] \cap ToSet(cache) = {}
        BY <1>1, Types DEF OneHolder
      <4> QED BY <1>7, <1>18, <2>2, <4>1
    <3>3. \A id \in own[u] : pools[id].open => pools'[id].open
      BY <1>8, <3>2
    <3> QED BY <1>1, <1>2, <1>10, <3>1, <3>3, ServingStays
  <2> QED BY <2>1, <2>2
<1>22. IInv'
  BY <1>11, <1>14, <1>15, <1>16, <1>19, <1>20, <1>21 DEF IInv
<1>23. /\ given'[th] = new
       /\ \A u \in Threads : u # th => given'[u] = given[u]
  BY <1>1, <1>9, Types
<1>24. pools'[new].open
  BY <1>4, <1>7, <1>8
<1> QED BY <1>7, <1>22, <1>23, <1>24

\* Pools popped from the cache under the lock, to be disposed of after it.
LEMMA PoppedInv ==
    ASSUME IInv, NEW th \in Threads, pc[th] = "idle",
           NEW popped \in SUBSET ToSet(cache),
           cache' \in Seq(Ids), Len(cache') <= Len(cache), NoRepeat(cache'),
           ToSet(cache') = ToSet(cache) \ popped,
           own' = [own EXCEPT ![th] = popped],
           pc' = [pc EXCEPT ![th] = "dispose"],
           UNCHANGED <<placement, pools, target, given, strays>>,
           moved' \in SUBSET Tenants, raced' \in SUBSET Tenants,
           \A t \in Tenants \ (moved' \cup raced') :
               \/ Fresh(t)
               \/ \A id \in ToSet(cache) : pools[id].tenant = t => id \in popped,
           \A u \in Threads : pc[u] = "install" =>
               target[u] \in moved' \cup raced' \/ target[u] \notin moved \cup raced
    PROVE  IInv'
<1>1. /\ TypeOK /\ Bounded /\ CachedIsOpen /\ Held /\ OneHolder
      /\ \A u \in Threads : Serving(u)
      /\ own[th] = {}
  BY DEF IInv, Serving
<1>2. /\ Len(pools) \in Nat /\ Len(cache) \in Nat
      /\ ToSet(cache) \subseteq Ids
      /\ Len(cache') \in Nat
  BY <1>1, Lengths, LenProperties
<1>3. KeepPools
  BY <1>1, <1>2, Types DEF KeepPools
<1>4. \A u \in Threads : own'[u] = IF u = th THEN popped ELSE own[u]
  BY <1>1, Types
<1>5. TypeOK'
  <2>1. given \in [Threads -> {0} \cup Ids]
    BY <1>1, <1>2, Types DEF Ids
  <2> QED BY <1>1, <1>2, <1>3, <2>1, Types, TypesKept
<1>6. Bounded' /\ CachedIsOpen'
  BY <1>1, <1>2 DEF Bounded, CachedIsOpen
<1>7. Held'
  <2> SUFFICES ASSUME NEW id \in Ids, pools[id].open
               PROVE  \/ id \in ToSet(cache')
                      \/ \E u \in Threads : id \in own'[u]
                      \/ id \in strays
    BY DEF Held, Ids
  <2>1. \/ id \in ToSet(cache)
        \/ \E u \in Threads : id \in own[u]
        \/ id \in strays
    BY <1>1 DEF Held, Ids
  <2> QED BY <1>1, <1>4, <2>1
<1>8. OneHolder'
  BY <1>1, <1>4 DEF OneHolder
<1>9. QuietEvictRefreshes'
  BY DEF QuietEvictRefreshes, Fresh
<1>10. ASSUME NEW u \in Threads
       PROVE  Serving(u)'
  <2>1. CASE u = th
    <3>1. pc'[th] = "dispose"
      BY <1>1, Types
    <3> QED BY <2>1, <3>1 DEF Serving
  <2>2. CASE u # th
    <3>1. pc'[u] = pc[u] /\ own'[u] = own[u]
      BY <1>1, <1>4, <2>2, Types
    <3> QED BY <1>1, <1>3, <3>1, ServingStays
  <2> QED BY <2>1, <2>2
<1> QED BY <1>5, <1>6, <1>7, <1>8, <1>9, <1>10 DEF IInv

\* An evict takes the tenant's pool, if any, out of the cache; it makes up
\* for the moves before it, unless an install is under way.
LEMMA EvictInv ==
    ASSUME IInv, NEW th \in Threads, NEW t \in Tenants, Evict(th, t)
    PROVE  IInv' /\ given' = given
<1>1. /\ TypeOK /\ Bounded /\ QuietEvictRefreshes /\ pc[th] = "idle"
      /\ own[th] = {}
  BY DEF IInv, Evict, Serving
<1>2. /\ pc' = [pc EXCEPT ![th] = "dispose"]
      /\ UNCHANGED <<placement, pools, target, given, strays>>
      /\ moved' = moved \ {t}
      /\ NoteRace(t)
  BY DEF Evict
<1>3. cache \in Seq(Ids) /\ NoRepeat(cache) /\ Len(cache) \in Nat
  BY <1>1, Types, Lengths DEF Bounded
<1>4. \A x : x \in ToSet(cache) <=> \E j \in 1..Len(cache) : cache[j] = x
  BY <1>3, ToSetIs
<1> DEFINE Pops(S) ==
          /\ cache' \in Seq(Ids) /\ Len(cache') <= Len(cache) /\ NoRepeat(cache')
          /\ ToSet(cache') = ToSet(cache) \ S
          /\ own' = [own EXCEPT ![th] = S]
          /\ \A id \in ToSet(cache) : pools[id].tenant = t => id \in S
<1>5. PICK popped \in SUBSET ToSet(cache) : Pops(popped)
  <2>1. CASE Cached(t) = {} /\ UNCHANGED <<cache, own>>
    <3>1. own' = [own EXCEPT ![th] = {}]
      BY <1>1, <2>1, Types
    <3>2. \A id \in ToSet(cache) : pools[id].tenant # t
      BY <1>1, <1>4, <2>1, Lengths DEF Cached
    <3>3. cache' = cache
      BY <2>1
    <3>4. ToSet(cache') = ToSet(cache) \ {}
      BY <3>3
    <3>5. cache' \in Seq(Ids) /\ Len(cache') <= Len(cache) /\ NoRepeat(cache')
      BY <1>3, <3>3
    <3>6. Pops({})
      BY <3>1, <3>2, <3>4, <3>5
    <3>7. {} \in SUBSET ToSet(cache)
      OBVIOUS
    <3> HIDE DEF Pops
    <3> QED BY <3>6, <3>7
  <2>2. ASSUME NEW i \in Cached(t), cache' = RemoveAt(cache, i),
               own' = [own EXCEPT ![th] = {cache[i]}]
        PROVE  \E popped \in SUBSET ToSet(cache) : Pops(popped)
    <3>1. i \in 1..Len(cache) /\ pools[cache[i]].tenant = t
      BY <1>1, Lengths DEF Cached
    <3>2. /\ cache' \in Seq(Ids) /\ Len(cache') = Len(cache) - 1
          /\ NoRepeat(cache') /\ ToSet(cache') = ToSet(cache) \ {cache[i]}
      BY <1>3, <2>2, <3>1, TakeOutIs
    <3>3. cache[i] \in ToSet(cache)
      BY <1>4, <3>1
    <3>4. \A id \in ToSet(cache) : pools[id].tenant = t => id = cache[i]
      BY <1>1, <3>1, <3>3 DEF Bounded
    <3>5. Pops({cache[i]})
      BY <1>3, <2>2, <3>2, <3>4
    <3> QED BY <3>3, <3>5
  <2> QED BY <2>1, <2>2 DEF Evict
<1>6. moved' \in SUBSET Tenants /\ raced' \in SUBSET Tenants
  BY <1>1, <1>2, Types DEF NoteRace
<1>7. \A w \in Tenants \ (moved' \cup raced') :
          \/ Fresh(w)
          \/ \A id \in ToSet(cache) : pools[id].tenant = w => id \in popped
  BY <1>1, <1>2, <1>5 DEF NoteRace, QuietEvictRefreshes
<1>8. \A u \in Threads : pc[u] = "install" =>
          target[u] \in moved' \cup raced' \/ target[u] \notin moved \cup raced
  BY <1>2 DEF NoteRace
<1> QED BY <1>1, <1>2, <1>5, <1>6, <1>7, <1>8, PoppedInv

\* dispose_all pops everything.
LEMMA DisposeAllInv ==
    ASSUME IInv, NEW th \in Threads, DisposeAll(th)
    PROVE  IInv' /\ given' = given
<1>1. /\ TypeOK /\ QuietEvictRefreshes /\ pc[th] = "idle"
  BY DEF IInv, DisposeAll
<1>2. /\ pc' = [pc EXCEPT ![th] = "dispose"]
      /\ own' = [own EXCEPT ![th] = ToSet(cache)]
      /\ cache' = <<>>
      /\ UNCHANGED <<placement, pools, target, given, strays>>
      /\ UNCHANGED <<moved, raced>>
  BY DEF DisposeAll
<1>3. cache' \in Seq(Ids) /\ Len(cache') = 0 /\ Len(cache) \in Nat
  BY <1>1, <1>2, EmptySeq, Lengths
<1>4. \A j : j \notin 1..Len(cache')
  BY <1>3
<1>5. NoRepeat(cache') /\ ToSet(cache') = ToSet(cache) \ ToSet(cache)
  <2>1. \A x : x \in ToSet(cache') <=> \E j \in 1..Len(cache') : cache'[j] = x
    BY <1>3, ToSetIs
  <2> QED BY <1>4, <2>1 DEF NoRepeat
<1>6. moved' \in SUBSET Tenants /\ raced' \in SUBSET Tenants
  BY <1>1, <1>2, Types
<1>7. \A w \in Tenants \ (moved' \cup raced') :
          \/ Fresh(w)
          \/ \A id \in ToSet(cache) : pools[id].tenant = w => id \in ToSet(cache)
  OBVIOUS
<1>8. \A u \in Threads : pc[u] = "install" =>
          target[u] \in moved' \cup raced' \/ target[u] \notin moved \cup raced
  BY <1>2
<1>9. Len(cache') <= Len(cache)
  BY <1>3
<1> QED BY <1>1, <1>2, <1>3, <1>5, <1>6, <1>7, <1>8, <1>9, PoppedInv

\* What was popped is in nobody's hands but this thread's.
LEMMA DisposeInv ==
    ASSUME IInv, NEW th \in Threads, Dispose(th)
    PROVE  IInv' /\ given' = given
<1>1. /\ TypeOK /\ Bounded /\ CachedIsOpen /\ Held /\ QuietEvictRefreshes
      /\ OneHolder /\ \A u \in Threads : Serving(u)
  BY DEF IInv
<1>2. /\ pc' = [pc EXCEPT ![th] = "idle"]
      /\ target' = [target EXCEPT ![th] = NoTenant]
      /\ own' = [own EXCEPT ![th] = {}]
      /\ UNCHANGED <<placement, cache, given, strays, moved, raced>>
  BY DEF Dispose, Return
<1>3. /\ pools' \in Seq(Pool) /\ Len(pools') = Len(pools)
      /\ \A id \in Ids :
            /\ pools'[id].tenant = pools[id].tenant
            /\ pools'[id].place = pools[id].place
            /\ pools'[id].open <=> pools[id].open /\ id \notin own[th]
  BY <1>1, Types, DisposedIs DEF Dispose
<1>4. KeepPools
  BY <1>1, <1>3, Lengths DEF KeepPools
<1>5. TypeOK'
  <2>1. given \in [Threads -> {0} \cup Ids]
    BY <1>1, Types, Lengths DEF Ids
  <2> QED BY <1>1, <1>2, <1>4, <2>1, Types, TypesKept
<1>6. own[th] \cap ToSet(cache) = {} /\ ToSet(cache) \subseteq Ids
  BY <1>1, Lengths DEF OneHolder
<1>7. \A u \in Threads : own'[u] = IF u = th THEN {} ELSE own[u]
  BY <1>1, <1>2, Types
<1>8. Bounded' /\ CachedIsOpen' /\ QuietEvictRefreshes'
  <2>1. /\ UNCHANGED <<cache, placement, moved, raced>>
        /\ \A id \in ToSet(cache) : /\ pools'[id].tenant = pools[id].tenant
                                    /\ pools'[id].place = pools[id].place
                                    /\ pools'[id].open <=> pools[id].open
    BY <1>2, <1>3, <1>6
  <2>2. Bounded'
    BY <1>1, <2>1 DEF Bounded, NoRepeat
  <2>3. CachedIsOpen'
    BY <1>1, <2>1 DEF CachedIsOpen
  <2>4. QuietEvictRefreshes'
    BY <1>1, <2>1 DEF QuietEvictRefreshes, Fresh
  <2> QED BY <2>2, <2>3, <2>4
<1>9. OneHolder'
  BY <1>1, <1>2, <1>7 DEF OneHolder
<1>10. Held'
  <2> SUFFICES ASSUME NEW id \in Ids, pools'[id].open
               PROVE  \/ id \in ToSet(cache)
                      \/ \E u \in Threads : id \in own'[u]
                      \/ id \in strays
    BY <1>2, <1>3 DEF Held, Ids
  <2>1. pools[id].open /\ id \notin own[th]
    BY <1>3
  <2>2. \/ id \in ToSet(cache)
        \/ \E u \in Threads : id \in own[u]
        \/ id \in strays
    BY <1>1, <2>1 DEF Held, Ids
  <2> QED BY <1>7, <2>1, <2>2
<1>11. ASSUME NEW u \in Threads
       PROVE  Serving(u)'
  <2>1. CASE u = th
    <3>1. pc'[th] = "idle" /\ own'[th] = {}
      BY <1>1, <1>2, Types
    <3> QED BY <2>1, <3>1 DEF Serving
  <2>2. CASE u # th
    <3>1. /\ pc'[u] = pc[u] /\ own'[u] = own[u] /\ target'[u] = target[u]
          /\ given'[u] = given[u]
      BY <1>1, <1>2, <2>2, Types
    <3>2. own[u] \subseteq Ids /\ own[u] \cap own[th] = {}
      BY <1>1, <2>2, Types DEF OneHolder
    <3>3. \A id \in own[u] : pools[id].open => pools'[id].open
      BY <1>3, <3>2
    <3> QED BY <1>1, <1>2, <1>4, <3>1, <3>3, ServingStays
  <2> QED BY <2>1, <2>2
<1> QED BY <1>2, <1>5, <1>8, <1>9, <1>10, <1>11 DEF IInv

\* A session on a pool, which may reopen one that was disposed of.
LEMMA SessionInv ==
    ASSUME IInv, NEW th \in Threads, Session(th)
    PROVE  /\ IInv'
           /\ \A u \in Threads : given'[u] \in {given[u], NoPool}
<1>1. /\ TypeOK /\ Bounded /\ CachedIsOpen /\ Held /\ QuietEvictRefreshes
      /\ OneHolder /\ \A u \in Threads : Serving(u)
  BY DEF IInv
<1> DEFINE x == given[th]
<1>2. /\ pc[th] = "session"
      /\ pools' = [pools EXCEPT ![x].open = TRUE]
      /\ strays' = IF pools[x].open THEN strays ELSE strays \cup {x}
      /\ given' = [given EXCEPT ![th] = 0]
      /\ pc' = [pc EXCEPT ![th] = "idle"]
      /\ UNCHANGED <<placement, cache, target, own, moved, raced>>
  BY DEF Session, NoPool
<1>3. x \in Ids /\ own[th] = {}
  BY <1>1, <1>2 DEF Serving, Ids
<1>4. /\ pools' \in Seq(Pool) /\ Len(pools') = Len(pools)
      /\ \A id \in Ids :
            /\ pools'[id].tenant = pools[id].tenant
            /\ pools'[id].place = pools[id].place
            /\ pools'[id].open <=> pools[id].open \/ id = x
  <2> DEFINE reopened == [pools[x] EXCEPT !.open = TRUE]
  <2>1. pools \in Seq(Pool) /\ \A id \in Ids : pools[id] \in Pool
    BY <1>1, Types, Lengths
  <2>2. /\ reopened \in Pool
        /\ reopened.tenant = pools[x].tenant
        /\ reopened.place = pools[x].place
        /\ reopened.open
    BY <1>3, <2>1 DEF Pool
  <2>3. pools' = [pools EXCEPT ![x] = reopened]
    BY <1>2
  <2> HIDE DEF reopened, x
  <2>4. /\ [pools EXCEPT ![x] = reopened] \in Seq(Pool)
        /\ Len([pools EXCEPT ![x] = reopened]) = Len(pools)
        /\ \A j \in 1..Len(pools) : [pools EXCEPT ![x] = reopened][j]
                                       = IF j = x THEN reopened ELSE pools[j]
    BY <1>3, <2>1, <2>2, ExceptSeq DEF Ids
  <2> QED BY <2>2, <2>3, <2>4 DEF Ids
<1> HIDE DEF x
<1>5. KeepPools
  BY <1>1, <1>4, Lengths DEF KeepPools
<1>6. TypeOK'
  <2>1. given \in [Threads -> {0} \cup Ids] /\ strays' \in SUBSET Ids
    BY <1>1, <1>2, <1>3, Types, Lengths DEF Ids
  <2> QED BY <1>1, <1>2, <1>5, <2>1, Types, TypesKept
<1>7. Bounded' /\ CachedIsOpen' /\ QuietEvictRefreshes'
  <2>1. /\ UNCHANGED <<cache, placement, moved, raced>>
        /\ \A id \in ToSet(cache) : /\ pools'[id].tenant = pools[id].tenant
                                    /\ pools'[id].place = pools[id].place
                                    /\ pools[id].open => pools'[id].open
    BY <1>1, <1>2, <1>4, Lengths
  <2>2. Bounded'
    BY <1>1, <2>1 DEF Bounded, NoRepeat
  <2>3. CachedIsOpen'
    BY <1>1, <2>1 DEF CachedIsOpen
  <2>4. QuietEvictRefreshes'
    BY <1>1, <2>1 DEF QuietEvictRefreshes, Fresh
  <2> QED BY <2>2, <2>3, <2>4
<1>8. OneHolder'
  BY <1>1, <1>2 DEF OneHolder
<1>9. Held'
  BY <1>1, <1>2, <1>4 DEF Held, Ids
<1>10. ASSUME NEW u \in Threads
       PROVE  Serving(u)'
  <2>1. CASE u = th
    <3>1. pc'[th] = "idle" /\ own'[th] = {}
      BY <1>1, <1>2, <1>3, Types
    <3> QED BY <2>1, <3>1 DEF Serving
  <2>2. CASE u # th
    <3>1. /\ pc'[u] = pc[u] /\ own'[u] = own[u] /\ target'[u] = target[u]
          /\ given'[u] = given[u]
      BY <1>1, <1>2, <2>2, Types
    <3>2. \A id \in own[u] : pools[id].open => pools'[id].open
      BY <1>1, <1>4, Types
    <3> QED BY <1>1, <1>2, <1>5, <3>1, <3>2, ServingStays
  <2> QED BY <2>1, <2>2
<1>11. \A u \in Threads : given'[u] \in {given[u], NoPool}
  BY <1>1, <1>2, Types DEF NoPool
<1> QED BY <1>6, <1>7, <1>8, <1>9, <1>10, <1>11 DEF IInv

\* A move is on record until the next evict.
LEMMA MoveInv ==
    ASSUME IInv, NEW t \in Tenants, Move(t)
    PROVE  IInv' /\ given' = given
<1>1. /\ TypeOK /\ Bounded /\ CachedIsOpen /\ Held /\ QuietEvictRefreshes
      /\ OneHolder /\ \A u \in Threads : Serving(u)
  BY DEF IInv
<1>2. /\ \E p \in Places \cup {Unavailable} :
            placement' = [placement EXCEPT ![t] = p]
      /\ moved' = moved \cup {t}
      /\ UNCHANGED <<cache, pools, pc, target, own, given, strays, raced>>
  BY DEF Move
<1>3. TypeOK'
  BY <1>1, <1>2 DEF TypeOK
<1>4. \A w \in Tenants : w # t => placement'[w] = placement[w]
  BY <1>1, <1>2, Types
<1>5. KeepPools
  BY <1>1, <1>2, Lengths, Types DEF KeepPools
<1>6. Bounded' /\ CachedIsOpen' /\ Held' /\ OneHolder'
  BY <1>1, <1>2, CacheStays DEF Held, OneHolder
<1>7. QuietEvictRefreshes'
  BY <1>1, <1>2, <1>4 DEF QuietEvictRefreshes, Fresh
<1>8. ASSUME NEW u \in Threads
      PROVE  Serving(u)'
  <2>1. pc[u] = "install" => target[u] \in Tenants
    BY <1>1 DEF Serving
  <2>2. pc[u] = "install" =>
          \/ target[u] \in moved' \cup raced'
          \/ /\ target[u] \notin moved \cup raced
             /\ placement'[target[u]] = placement[target[u]]
    BY <1>2, <1>4, <2>1
  <2> QED BY <1>1, <1>2, <1>5, <2>2, ServingStays
<1> QED BY <1>2, <1>3, <1>6, <1>7, <1>8 DEF IInv

----------------------------------------------------------------------------
(* The theorems.                                                           *)

\* What for_tenant gives on a step.
GivesCached ==
    \A th \in Threads :
        given'[th] \notin {given[th], NoPool}
            => given'[th] \in ToSet(cache') /\ pools'[given'[th]].open

LEMMA NextInv == IInv /\ [Next]_vars => IInv' /\ GivesCached
<1> SUFFICES ASSUME IInv, [Next]_vars PROVE IInv' /\ GivesCached
  OBVIOUS
<1>1. CASE UNCHANGED vars
  BY <1>1 DEF vars, IInv, TypeOK, Bounded, NoRepeat, CachedIsOpen, Serving,
              Building, OneHolder, Held, QuietEvictRefreshes, Fresh, GivesCached
<1>2. ASSUME NEW th \in Threads, NEW t \in Tenants, Hit(th, t)
      PROVE  IInv' /\ GivesCached
  BY <1>2, HitInv DEF GivesCached
<1>3. ASSUME NEW th \in Threads, NEW t \in Tenants, Miss(th, t)
      PROVE  IInv' /\ GivesCached
  BY <1>3, MissInv DEF GivesCached
<1>4. ASSUME NEW th \in Threads, Place(th) \/ PlaceFails(th)
      PROVE  IInv' /\ GivesCached
  BY <1>4, PlaceInv, PlaceFailsInv DEF GivesCached
<1>5. ASSUME NEW th \in Threads, LostRace(th) \/ Install(th)
      PROVE  IInv' /\ GivesCached
  BY <1>5, LostRaceInv, InstallInv DEF GivesCached
<1>6. ASSUME NEW th \in Threads, NEW t \in Tenants, Evict(th, t)
      PROVE  IInv' /\ GivesCached
  BY <1>6, EvictInv DEF GivesCached
<1>7. ASSUME NEW th \in Threads, DisposeAll(th) \/ Dispose(th)
      PROVE  IInv' /\ GivesCached
  BY <1>7, DisposeAllInv, DisposeInv DEF GivesCached
<1>8. ASSUME NEW th \in Threads, Session(th)
      PROVE  IInv' /\ GivesCached
  BY <1>8, SessionInv DEF GivesCached
<1>9. ASSUME NEW t \in Tenants, Move(t)
      PROVE  IInv' /\ GivesCached
  BY <1>9, MoveInv DEF GivesCached
<1> QED BY <1>1, <1>2, <1>3, <1>4, <1>5, <1>6, <1>7, <1>8, <1>9
        DEF Next, ForTenant

\* The inductive invariant: every open pool has one holder, and the cache at
\* most one pool per tenant.
THEOREM InvariantHolds == Spec => []IInv
BY InitInv, NextInv, PTL DEF Spec

\* Every variable keeps its type.
THEOREM TypeCorrect == Spec => []TypeOK
<1>1. IInv => TypeOK
  BY DEF IInv
<1> QED BY <1>1, InvariantHolds, PTL

\* At most max_cached pools, one per tenant, whoever wins the race between
\* two for_tenant of one tenant.
THEOREM CacheStaysBounded == Spec => []CacheIsBounded
<1>1. IInv => CacheIsBounded
  <2> SUFFICES ASSUME IInv PROVE CacheIsBounded
    OBVIOUS
  <2>1. /\ Bounded
        /\ \A i \in 1..Len(cache) : cache[i] \in ToSet(cache)
    BY Lengths DEF IInv
  <2>2. ASSUME NEW i \in 1..Len(cache), NEW j \in 1..Len(cache),
               pools[cache[i]].tenant = pools[cache[j]].tenant
        PROVE  i = j
    <3>1. cache[i] = cache[j]
      BY <2>1, <2>2 DEF Bounded
    <3> QED BY <2>1, <3>1 DEF Bounded, NoRepeat
  <2> QED BY <2>1, <2>2 DEF Bounded, CacheIsBounded
<1> QED BY <1>1, InvariantHolds, PTL

\* No pool keeps its connections unless it is cached, in the hands of a
\* thread, or was reopened by a session.
THEOREM NothingLeaks == Spec => []NoPoolLeaks
<1>1. IInv => NoPoolLeaks
  <2> SUFFICES ASSUME IInv, NEW id \in Ids, pools[id].open
               PROVE  id \in ToSet(cache) \cup strays
                                  \cup UNION {own[th] : th \in Threads}
    BY Lengths DEF IInv, NoPoolLeaks
  <2>1. \/ id \in ToSet(cache)
        \/ \E th \in Threads : id \in own[th]
        \/ id \in strays
    BY DEF IInv, Held, Ids
  <2>2. (\E th \in Threads : id \in own[th])
          => id \in UNION {own[th] : th \in Threads}
    OBVIOUS
  <2> QED BY <2>1, <2>2
<1> QED BY <1>1, InvariantHolds, PTL

\* The cache offers open pools only.
THEOREM CacheIsOpen == Spec => []CachedIsOpen
<1>1. IInv => CachedIsOpen
  BY DEF IInv
<1> QED BY <1>1, InvariantHolds, PTL

\* After an evict that met no install, and until the next move, the router
\* follows the registry.
THEOREM EvictRefreshes == Spec => []QuietEvictRefreshes
<1>1. IInv => QuietEvictRefreshes
  BY DEF IInv
<1> QED BY <1>1, InvariantHolds, PTL

\* for_tenant never gives a pool that is out of the cache or closed.
THEOREM GivesOnlyCached == Spec => GivenWasCached
<1>1. IInv /\ [Next]_vars => [GivesCached]_vars
  BY NextInv
<1>2. [GivesCached]_vars
        => [\A th \in Threads :
              given'[th] \notin {given[th], NoPool}
                  => /\ given'[th] \in ToSet(cache')
                     /\ pools'[given'[th]].open]_vars
  BY DEF GivesCached
<1> QED BY <1>1, <1>2, InvariantHolds, PTL DEF Spec, GivenWasCached
=============================================================================
