------------------------- MODULE SortedListProofs -------------------------
(***************************************************************************)
(* The two components whose answers are sorted lists.  ModuleCatalog: what *)
(* its constructor and its dependencies query compute, for every finite    *)
(* set of modules and every dependency graph.  CompanyRepository.page: what*)
(* a walk over the pages shows, for every finite set of companies and      *)
(* every page size.                                                        *)
(***************************************************************************)
EXTENDS CatalogBuild, CompanyPages, FiniteSetTheorems, SequenceTheorems,
        TLAPS

USE KeysAssumption

----------------------------------------------------------------------------
(* Every finite set of numbers has an ascending enumeration.               *)

IsAscending(s, S) ==
    /\ s \in [1..Cardinality(S) -> S]
    /\ \A i, j \in 1..Cardinality(S) : i < j => s[i] < s[j]

\* The least number principle.
LEMMA LeastNumber ==
    ASSUME NEW S \in SUBSET Nat, S # {}
    PROVE  \E m \in S : \A n \in S : m <= n
<1> DEFINE R == OpToRel(<, Nat)
<1>1. PICK m \in S : \A n \in S : <<n, m>> \notin R
  <2>1. IsWellFoundedOn(R, Nat)
    BY NatLessThanWellFounded
  <2> HIDE DEF R
  <2> QED BY <2>1, WFMin
<1>2. \A n \in S : ~(n < m)
  BY <1>1 DEF OpToRel
<1> QED BY <1>2

\* One more number in front, smaller than the others.
LEMMA AscendingPrepend ==
    ASSUME NEW S \in SUBSET Nat, IsFiniteSet(S),
           NEW m \in S, \A n \in S : m <= n,
           NEW s, IsAscending(s, S \ {m})
    PROVE  \E t : IsAscending(t, S)
<1> DEFINE c == Cardinality(S)
           t == [i \in 1..c |-> IF i = 1 THEN m ELSE s[i - 1]]
<1>1. c \in Nat \ {0} /\ Cardinality(S \ {m}) = c - 1
  BY FS_CardinalityType, FS_RemoveElement, FS_EmptySet
<1> HIDE DEF c
<1>2. \A i \in 1..c : i # 1 => i - 1 \in 1..c - 1 /\ s[i - 1] \in S \ {m}
  <2>1. s \in [1..c - 1 -> S \ {m}]
    BY <1>1 DEF IsAscending
  <2> QED BY <1>1, <2>1
<1>3. t \in [1..c -> S]
  BY <1>1, <1>2
<1>4. ASSUME NEW i \in 1..c, NEW j \in 1..c, i < j
      PROVE  t[i] < t[j]
  <2>1. j # 1 /\ t[j] = s[j - 1] /\ s[j - 1] \in S \ {m}
    BY <1>1, <1>2, <1>4
  <2>2. CASE i = 1
    <3>1. t[i] = m
      BY <1>1, <2>2
    <3>2. m \in Nat /\ s[j - 1] \in Nat /\ m <= s[j - 1] /\ m # s[j - 1]
      BY <2>1
    <3> HIDE DEF t
    <3> QED BY <2>1, <3>1, <3>2
  <2>3. CASE i # 1
    <3>1. i - 1 \in 1..c - 1 /\ j - 1 \in 1..c - 1 /\ i - 1 < j - 1
      BY <1>1, <1>2, <1>4, <2>1, <2>3
    <3>2. s[i - 1] < s[j - 1]
      BY <1>1, <3>1 DEF IsAscending
    <3> QED BY <2>1, <2>3, <3>2
  <2> QED BY <2>2, <2>3
<1> HIDE DEF t
<1> QED BY <1>3, <1>4 DEF IsAscending, c

\* By contradiction, from the smallest set that has none.
LEMMA AscendingExists ==
    ASSUME NEW S \in SUBSET Nat, IsFiniteSet(S)
    PROVE  \E s : IsAscending(s, S)
<1> DEFINE R == StrictSubsetOrdering(Nat)
           F == FiniteSubsetsOf(Nat)
           Bad == {X \in F : ~\E s : IsAscending(s, X)}
<1> SUFFICES ASSUME Bad # {} PROVE FALSE
  BY DEF FiniteSubsetsOf
<1>1. PICK X \in Bad : \A Y \in Bad : <<Y, X>> \notin R
  <2>1. IsWellFoundedOn(R, F) /\ Bad \subseteq F
    BY FS_StrictSubsetOrderingWellFounded
  <2> HIDE DEF R, F, Bad
  <2> QED BY <2>1, WFMin
<1>2. X \in SUBSET Nat /\ IsFiniteSet(X) /\ ~\E s : IsAscending(s, X)
  BY <1>1 DEF FiniteSubsetsOf
<1>3. X # {}
  <2> SUFFICES ASSUME X = {} PROVE FALSE
    OBVIOUS
  <2>1. Cardinality(X) = 0
    BY FS_EmptySet
  <2>2. [i \in 1..0 |-> 0] \in [1..0 -> X]
    OBVIOUS
  <2>3. IsAscending([i \in 1..0 |-> 0], X)
    BY <2>1, <2>2 DEF IsAscending
  <2> QED BY <1>2, <2>3
<1>4. PICK m \in X : \A n \in X : m <= n
  BY <1>2, <1>3, LeastNumber
<1>5. X \ {m} \in F /\ <<X \ {m}, X>> \in R
  <2>1. IsFiniteSet(X \ {m})
    BY <1>2, FS_RemoveElement
  <2> QED BY <1>2, <1>4, <2>1 DEF FiniteSubsetsOf, StrictSubsetOrdering
<1>6. \E s : IsAscending(s, X \ {m})
  BY <1>1, <1>5
<1> QED BY <1>2, <1>4, <1>6, AscendingPrepend

\* A list without repetition is as long as the set of its entries.
LEMMA ListSize ==
    ASSUME NEW n \in Nat, NEW S, NEW s \in [1..n -> S],
           NEW T, T = {s[i] : i \in 1..n},
           \A i, j \in 1..n : s[i] = s[j] => i = j
    PROVE  IsFiniteSet(T) /\ Cardinality(T) = n
<1>1. s \in Bijection(1..n, T)
  BY DEF Bijection, Injection, Surjection, IsInjective
<1>2. IsFiniteSet(1..n) /\ Cardinality(1..n) = n
  BY FS_Interval
<1> QED BY <1>1, <1>2, FS_Bijection DEF ExistsBijection

\* Ascending lists every member of the set exactly once.
LEMMA AscendingIs ==
    ASSUME NEW S \in SUBSET Nat, IsFiniteSet(S)
    PROVE  /\ Ascending(S) \in Seq(S)
           /\ Len(Ascending(S)) = Cardinality(S)
           /\ \A i, j \in 1..Cardinality(S) :
                 i < j => Ascending(S)[i] < Ascending(S)[j]
           /\ \A i, j \in 1..Cardinality(S) :
                 Ascending(S)[i] = Ascending(S)[j] => i = j
           /\ {Ascending(S)[i] : i \in 1..Cardinality(S)} = S
<1> DEFINE c == Cardinality(S)
           a == Ascending(S)
<1>1. c \in Nat
  BY FS_CardinalityType
<1>2. IsAscending(a, S)
  BY AscendingExists DEF IsAscending, Ascending
<1>3. a \in Seq(S) /\ Len(a) = c
  BY <1>1, <1>2 DEF IsAscending
<1> HIDE DEF a
<1>4. \A i, j \in 1..c : a[i] = a[j] => i = j
  <2> SUFFICES ASSUME NEW i \in 1..c, NEW j \in 1..c, a[i] = a[j], i # j
               PROVE  FALSE
    OBVIOUS
  <2>1. i < j \/ j < i
    BY <1>1
  <2>2. a[i] \in Nat /\ a[j] \in Nat
    BY <1>2 DEF IsAscending
  <2> QED BY <1>2, <2>1, <2>2 DEF IsAscending
<1> DEFINE T == {a[i] : i \in 1..c}
<1>5. T = S
  <2>1. Cardinality(T) = c
    <3>1. a \in [1..c -> S]
      BY <1>2 DEF IsAscending
    <3>2. T = {a[i] : i \in 1..c}
      OBVIOUS
    <3> HIDE DEF c, T
    <3> QED BY <1>1, <1>4, <3>1, <3>2, ListSize
  <2>2. T \in SUBSET S
    BY <1>2 DEF IsAscending
  <2> QED BY <2>1, <2>2, FS_Subset
<1> QED BY <1>2, <1>3, <1>4, <1>5 DEF IsAscending, a

\* The entries before the i-th.
LEMMA PrefixSet ==
    ASSUME NEW S, NEW s \in Seq(S), NEW i \in 1..Len(s)
    PROVE  ToSet(SubSeq(s, 1, i - 1)) = {s[j] : j \in 1..i - 1}
<1> DEFINE t == SubSeq(s, 1, i - 1)
<1>1. Len(s) \in Nat /\ \A j \in 1..Len(s) : s[j] \in S
  BY LenProperties, ElementOfSeq
<1>2. \A j \in 1..i - 1 : s[j] \in S
  BY <1>1
<1>3. /\ t \in Seq(S)
      /\ Len(t) = i - 1
      /\ \A j \in 1..i - 1 : t[j] = s[j]
  <2>1. /\ t \in Seq(S)
        /\ Len(t) = IF 1 <= i - 1 THEN (i - 1) - 1 + 1 ELSE 0
        /\ \A j \in 1..(i - 1) - 1 + 1 : t[j] = s[1 + j - 1]
    BY <1>1, <1>2, SubSeqProperties
  <2> QED BY <1>1, <2>1
<1> HIDE DEF t
<1>4. DOMAIN t = 1..i - 1
  BY <1>3, LenProperties
<1> QED BY <1>3, <1>4 DEF ToSet, t

----------------------------------------------------------------------------
(* The catalogue: its invariant.                                           *)

\* The modules ordered so far.
Placed == ToSet(order)

Valid == ~duplicate /\ \A k \in Keys : ValidManifest(k)

\* Nothing is ordered twice, everything after its dependencies, and what is
\* left waits for exactly the dependencies not ordered yet.
OrderInv ==
    /\ \A i, j \in 1..Len(order) : order[i] = order[j] => i = j
    /\ DOMAIN remaining = Keys \ Placed
    /\ \A k \in DOMAIN remaining : remaining[k] = dependsOn[k] \ Placed
    /\ \A i \in 1..Len(order) : \A d \in dependsOn[order[i]] :
          \E j \in 1..i - 1 : order[j] = d

\* The search finds nothing but dependencies, and what it has not found yet
\* is reached from its worklist.
SearchInv ==
    /\ query \in Keys
    /\ needed \cup stack \subseteq Catalog!Dependencies(query)
    /\ dependsOn[query] \subseteq needed \cup stack
    /\ \A d \in needed : dependsOn[d] \subseteq needed \cup stack

IInv ==
    /\ TypeOK
    /\ pc = "validate" => remaining = dependsOn /\ order = <<>>
    /\ pc \in {"validate", "sort"} => query = NoKey
    /\ pc \in {"sort", "ready", "search"} => Valid
    /\ pc # "rejected" => OrderInv
    /\ pc = "rejected" => ~Sound
    /\ pc \in {"ready", "search"} => DOMAIN remaining = {}
    /\ pc = "search" => SearchInv
    /\ pc = "ready" /\ query # NoKey
         => SearchInv /\ stack = {} /\ answer = InOrder(needed)

----------------------------------------------------------------------------
(* Dependencies, as ModuleCatalog defines them.                            *)

\* What the constructor has checked of the manifests.
Known == dependsOn \in [Keys -> SUBSET Keys]

\* The transitive dependencies are the least closed set over the direct ones.
LEMMA DependenciesAre ==
    ASSUME Known, NEW k \in Keys
    PROVE  /\ Catalog!Dependencies(k) \subseteq Keys
           /\ dependsOn[k] \subseteq Catalog!Dependencies(k)
           /\ \A d \in Catalog!Dependencies(k) :
                 dependsOn[d] \subseteq Catalog!Dependencies(k)
           /\ \A S \in SUBSET Keys :
                 /\ dependsOn[k] \subseteq S
                 /\ \A d \in S : dependsOn[d] \subseteq S
                 => Catalog!Dependencies(k) \subseteq S
BY DEF Known, Catalog!Dependencies, Catalog!Closed

\* Where everybody in a set waits for somebody in it there is a cycle: look
\* at a member with the fewest dependencies.
LEMMA WaitingIsCyclic ==
    ASSUME Known, NEW W \in SUBSET Keys, W # {},
           \A k \in W : \E d \in W : d \in dependsOn[k]
    PROVE  ~Acyclic
<1> SUFFICES ASSUME Acyclic PROVE FALSE
  OBVIOUS
<1> DEFINE R == StrictSubsetOrdering(Keys)
           F == FiniteSubsetsOf(Keys)
           T == {Catalog!Dependencies(k) : k \in W}
<1>1. T \subseteq F /\ T # {}
  <2>1. \A k \in W : Catalog!Dependencies(k) \in SUBSET Keys
    BY DependenciesAre
  <2>2. \A X \in SUBSET Keys : IsFiniteSet(X)
    BY FS_Subset
  <2> QED BY <2>1, <2>2 DEF FiniteSubsetsOf
<1>2. PICK X \in T : \A Y \in T : <<Y, X>> \notin R
  <2>1. IsWellFoundedOn(R, F)
    BY FS_StrictSubsetOrderingWellFounded
  <2> HIDE DEF R, F, T
  <2> QED BY <1>1, <2>1, WFMin
<1>3. PICK k \in W : X = Catalog!Dependencies(k)
  BY <1>2
<1>4. PICK d \in W : d \in dependsOn[k]
  OBVIOUS
<1>5. /\ Catalog!Dependencies(d) \subseteq X
      /\ d \in X /\ d \notin Catalog!Dependencies(d)
  <2>1. d \in X /\ dependsOn[d] \subseteq X /\ X \in SUBSET Keys
        /\ \A e \in X : dependsOn[e] \subseteq X
    BY <1>3, <1>4, DependenciesAre
  <2>2. Catalog!Dependencies(d) \subseteq X
    BY <2>1, DependenciesAre
  <2> QED BY <2>1, <2>2 DEF Acyclic
<1>6. <<Catalog!Dependencies(d), X>> \in R
  <2>1. X \in SUBSET Keys /\ Catalog!Dependencies(d) \in SUBSET Keys
    BY <1>3, DependenciesAre
  <2> QED BY <1>5, <2>1 DEF StrictSubsetOrdering
<1> QED BY <1>2, <1>6

----------------------------------------------------------------------------
(* What an order without repetition and in topological order gives.         *)

\* The positions of the members of a set, in ascending order.
Positions(S) == {i \in DOMAIN order : order[i] \in S}

LEMMA PositionsAre ==
    ASSUME order \in Seq(Keys), NEW S
    PROVE  /\ DOMAIN order = 1..Len(order) /\ Len(order) \in Nat
           /\ Positions(S) \in SUBSET Nat /\ IsFiniteSet(Positions(S))
<1>1. DOMAIN order = 1..Len(order) /\ Len(order) \in Nat
  BY LenProperties
<1>2. Positions(S) \in SUBSET (1..Len(order)) /\ IsFiniteSet(1..Len(order))
  BY <1>1, FS_Interval DEF Positions
<1> QED BY <1>1, <1>2, FS_Subset

\* InOrder lists a closed set of ordered modules, each once and after its
\* dependencies.
LEMMA InOrderIs ==
    ASSUME order \in Seq(Keys), OrderInv, NEW S \in SUBSET Placed,
           \A k \in S : dependsOn[k] \subseteq S
    PROVE  /\ InOrder(S) \in Seq(Keys)
           /\ ToSet(InOrder(S)) = S
           /\ Len(InOrder(S)) = Cardinality(S)
           /\ \A i \in 1..Len(InOrder(S)) :
                 dependsOn[InOrder(S)[i]] \subseteq
                     ToSet(SubSeq(InOrder(S), 1, i - 1))
<1> DEFINE P == Positions(S)
           at == Ascending(P)
           c == Cardinality(P)
           s == InOrder(S)
<1>1. DOMAIN order = 1..Len(order) /\ Len(order) \in Nat
      /\ P \in SUBSET Nat /\ IsFiniteSet(P)
  BY PositionsAre
<1>2. /\ at \in Seq(P) /\ Len(at) = c
      /\ \A i, j \in 1..c : i < j => at[i] < at[j]
      /\ \A i, j \in 1..c : at[i] = at[j] => i = j
      /\ {at[i] : i \in 1..c} = P
  BY <1>1, AscendingIs
<1>3. c \in Nat /\ DOMAIN at = 1..c /\ \A i \in 1..c : at[i] \in P
  BY <1>1, <1>2, FS_CardinalityType, LenProperties
<1>4. s = [n \in 1..c |-> order[at[n]]]
  BY <1>3 DEF InOrder, Positions
<1> HIDE DEF at, c, s
<1>5. \A p \in P : p \in 1..Len(order) /\ order[p] \in S /\ order[p] \in Keys
  BY <1>1, ElementOfSeq DEF Positions
<1>6. s \in [1..c -> S]
  BY <1>3, <1>4, <1>5
<1>7. s \in Seq(Keys) /\ Len(s) = c /\ DOMAIN s = 1..c
  <2>1. s \in [1..c -> Keys]
    BY <1>3, <1>4, <1>5
  <2> QED BY <1>3, <2>1
<1>8. \A i, j \in 1..c : s[i] = s[j] => i = j
  BY <1>2, <1>3, <1>4, <1>5 DEF OrderInv
<1>9. {s[i] : i \in 1..c} = S
  <2>1. ASSUME NEW k \in S PROVE \E i \in 1..c : s[i] = k
    <3>1. PICK p \in 1..Len(order) : order[p] = k
      BY <1>1, <2>1 DEF Placed, ToSet
    <3>2. p \in P
      BY <1>1, <3>1 DEF Positions
    <3>3. PICK i \in 1..c : at[i] = p
      BY <1>2, <3>2
    <3> QED BY <1>4, <3>1, <3>3
  <2> QED BY <1>6, <2>1
<1>10. Cardinality(S) = c
  <2> DEFINE V == {s[i] : i \in 1..c}
  <2>1. V = {s[i] : i \in 1..c} /\ c \in Nat
    BY <1>3
  <2> HIDE DEF V
  <2>2. Cardinality(V) = c
    BY <1>6, <1>8, <2>1, ListSize
  <2> QED BY <1>9, <2>1, <2>2
<1>11. ASSUME NEW i \in 1..c, NEW d \in dependsOn[s[i]]
       PROVE  \E j \in 1..i - 1 : s[j] = d
  <2>1. at[i] \in 1..Len(order) /\ s[i] = order[at[i]] /\ s[i] \in S
    BY <1>3, <1>4, <1>5
  <2>2. PICK q \in 1..at[i] - 1 : order[q] = d
    BY <1>11, <2>1 DEF OrderInv
  <2>3. d \in S
    BY <1>11, <2>1
  <2>4. q \in P
    BY <1>1, <2>1, <2>2, <2>3 DEF Positions
  <2>5. PICK j \in 1..c : at[j] = q
    BY <1>2, <2>4
  <2>6. at[i] \in Nat /\ at[j] \in Nat /\ at[j] < at[i]
    BY <2>1, <2>2, <2>5
  <2>7. j < i
    <3>1. j < i \/ j = i \/ i < j
      BY <1>3
    <3>2. ~(i < j)
      BY <1>2, <2>6
    <3> QED BY <2>6, <3>1, <3>2
  <2>8. j \in 1..i - 1
    BY <1>3, <2>7
  <2> QED BY <1>4, <2>2, <2>5, <2>8
<1>12. \A i \in 1..c : dependsOn[s[i]] \subseteq ToSet(SubSeq(s, 1, i - 1))
  <2> SUFFICES ASSUME NEW i \in 1..c
               PROVE  dependsOn[s[i]] \subseteq ToSet(SubSeq(s, 1, i - 1))
    OBVIOUS
  <2>1. ToSet(SubSeq(s, 1, i - 1)) = {s[j] : j \in 1..i - 1}
    BY <1>7, PrefixSet
  <2> QED BY <1>11, <2>1
<1>13. ToSet(s) = S
  BY <1>7, <1>9 DEF ToSet
<1> QED BY <1>7, <1>10, <1>12, <1>13 DEF s

\* When nothing remains, the order is of all modules, and each of them lacks
\* itself among its dependencies: those come before it.
LEMMA OrderedIsAcyclic ==
    ASSUME TypeOK, Known, OrderInv, DOMAIN remaining = {}
    PROVE  Placed = Keys /\ Acyclic
<1>1. order \in Seq(Keys) /\ DOMAIN order = 1..Len(order) /\ Len(order) \in Nat
      /\ \A i \in 1..Len(order) : order[i] \in Keys
  BY LenProperties, ElementOfSeq DEF TypeOK
<1>2. Placed = Keys
  BY <1>1 DEF OrderInv, Placed, ToSet
<1>3. ASSUME NEW k \in Keys PROVE k \notin Catalog!Dependencies(k)
  <2>1. PICK i \in 1..Len(order) : order[i] = k
    BY <1>1, <1>2 DEF Placed, ToSet
  <2> DEFINE S == {order[j] : j \in 1..i - 1}
  <2>2. \A j \in 1..i - 1 : j \in 1..Len(order)
    BY <1>1
  <2>3. S \in SUBSET Keys /\ k \notin S
    BY <1>1, <2>1, <2>2 DEF OrderInv
  <2>4. dependsOn[k] \subseteq S
    BY <2>1 DEF OrderInv
  <2>5. ASSUME NEW d \in S PROVE dependsOn[d] \subseteq S
    <3>1. PICK j \in 1..i - 1 : order[j] = d
      OBVIOUS
    <3>2. \A e \in dependsOn[d] : \E h \in 1..j - 1 : order[h] = e
      BY <2>2, <3>1 DEF OrderInv
    <3>3. \A h \in 1..j - 1 : h \in 1..i - 1
      BY <1>1
    <3> QED BY <3>2, <3>3
  <2> HIDE DEF S
  <2> QED BY <2>3, <2>4, <2>5, DependenciesAre
<1> QED BY <1>2, <1>3 DEF Acyclic

\* Sound says what the checks of the constructor say, and that no module
\* depends on itself.
LEMMA SoundIs ==
    ASSUME TypeOK
    PROVE  /\ Sound <=> Valid /\ Acyclic
           /\ Valid => Known
<1>1. Valid => Known
  BY DEF TypeOK, Valid, ValidManifest, Known
<1>2. (\A k \in Keys : ValidManifest(k))
        <=> /\ \A k \in Keys : Unknown \notin dependsOn[k]
            /\ ~\E k \in core : dependsOn[k] \ core # {}
  BY DEF TypeOK, ValidManifest
<1> QED BY <1>1, <1>2 DEF Sound, Valid

----------------------------------------------------------------------------
(* The invariant, step by step.                                            *)

\* Nothing is ordered yet.
LEMMA InitInv == Init => IInv
<1> SUFFICES ASSUME Init PROVE IInv
  OBVIOUS
<1>1. order = <<>> /\ Len(order) = 0 /\ Placed = {}
  BY DEF Init, Placed, ToSet
<1>2. TypeOK
  <2>1. Cardinality(Keys) \in Nat /\ <<>> \in Seq(Keys)
    BY FS_CardinalityType
  <2> QED BY <1>1, <2>1 DEF Init, TypeOK
<1>3. OrderInv
  BY <1>1 DEF Init, OrderInv
<1> QED BY <1>2, <1>3 DEF Init, IInv

\* The manifests are refused exactly when one of the checks fails.
LEMMA ValidateInv == IInv /\ Validate => IInv'
<1> SUFFICES ASSUME IInv, Validate PROVE IInv'
  OBVIOUS
<1>1. /\ UNCHANGED <<duplicate, dependsOn, core, remaining, order, query,
                     needed, stack, answer>>
      /\ pc = "validate"
      /\ pc' = IF Valid THEN "sort" ELSE "rejected"
  BY DEF Validate, graph, search, Valid
<1>2. TypeOK'
  BY <1>1 DEF IInv, TypeOK
<1>3. pc' = "rejected" => ~Sound'
  <2>1. pc' = "rejected" => ~Valid'
    BY <1>1 DEF Valid, ValidManifest
  <2> QED BY <1>2, <2>1, SoundIs, PTL
<1>4. OrderInv' /\ (pc' = "sort" => Valid')
  BY <1>1 DEF IInv, OrderInv, Placed, Valid, ValidManifest
<1> QED BY <1>1, <1>2, <1>3, <1>4 DEF IInv

\* Every module that waits for nothing any more is put behind the others.
LEMMA SortRoundInv == IInv /\ SortRound => IInv'
<1> SUFFICES ASSUME IInv, SortRound PROVE IInv'
  OBVIOUS
<1> DEFINE ready == {k \in DOMAIN remaining : remaining[k] = {}}
           a == Ascending(ready)
           n == Len(order)
           m == Cardinality(ready)
<1>1. /\ pc = "sort" /\ pc' = "sort"
      /\ order' = order \o a
      /\ remaining' = [k \in DOMAIN remaining \ ready |-> remaining[k] \ ready]
      /\ UNCHANGED <<duplicate, dependsOn, core, query, needed, stack, answer>>
  BY DEF SortRound, graph, search
<1>2. OrderInv /\ Valid /\ query = NoKey /\ order \in Seq(Keys)
      /\ DOMAIN remaining \in SUBSET Keys
  BY <1>1 DEF IInv, TypeOK
<1>3. ready \in SUBSET Keys /\ ready \in SUBSET Nat /\ IsFiniteSet(ready)
  BY <1>2, FS_Subset
<1>4. /\ a \in Seq(ready) /\ Len(a) = m
      /\ \A i, j \in 1..m : a[i] = a[j] => i = j
      /\ {a[i] : i \in 1..m} = ready
  BY <1>3, AscendingIs
<1>5. n \in Nat /\ m \in Nat /\ DOMAIN order = 1..n
      /\ \A i \in 1..n : order[i] \in Keys
  BY <1>2, <1>3, FS_CardinalityType, LenProperties, ElementOfSeq
<1>6. /\ order' \in Seq(Keys) /\ Len(order') = n + m
      /\ \A i \in 1..n + m :
            order'[i] = IF i <= n THEN order[i] ELSE a[i - n]
  <2>1. a \in Seq(Keys)
    BY <1>3, <1>4, SeqMonotonic
  <2> HIDE DEF a, m
  <2>2. /\ order \o a \in Seq(Keys)
        /\ Len(order \o a) = Len(order) + Len(a)
        /\ \A i \in 1..Len(order) + Len(a) : (order \o a)[i] =
              IF i <= Len(order) THEN order[i] ELSE a[i - Len(order)]
    BY <1>2, <2>1, ConcatProperties
  <2> QED BY <1>1, <1>4, <2>2
<1> HIDE DEF a, n, m, ready
<1>7. /\ DOMAIN order' = 1..n + m
      /\ \A i \in 1..n : i \in 1..n + m /\ order'[i] = order[i]
      /\ \A i \in (1..n + m) \ (1..n) :
            i - n \in 1..m /\ order'[i] = a[i - n] /\ order'[i] \in ready
      /\ \A i \in 1..m : n + i \in 1..n + m /\ order'[n + i] = a[i]
  <2>1. DOMAIN order' = 1..n + m
    BY <1>6, LenProperties
  <2>2. ASSUME NEW i \in 1..n
        PROVE  i \in 1..n + m /\ order'[i] = order[i]
    BY <1>5, <1>6
  <2>3. ASSUME NEW i \in 1..n + m, i \notin 1..n
        PROVE  i - n \in 1..m /\ order'[i] = a[i - n] /\ order'[i] \in ready
    <3>1. i - n \in 1..m /\ ~(i <= n)
      BY <1>5, <2>3
    <3> QED BY <1>4, <1>6, <3>1
  <2>4. ASSUME NEW i \in 1..m
        PROVE  n + i \in 1..n + m /\ order'[n + i] = a[i]
    <3>1. n + i \in 1..n + m /\ ~(n + i <= n) /\ (n + i) - n = i
      BY <1>5
    <3> QED BY <1>6, <3>1
  <2> QED BY <2>1, <2>2, <2>3, <2>4
<1>8. Placed' = Placed \cup ready
  <2>1. Placed' = {order'[i] : i \in 1..n + m}
    BY <1>7 DEF Placed, ToSet
  <2>2. Placed = {order[i] : i \in 1..n}
    BY <1>5 DEF Placed, ToSet
  <2>3. ASSUME NEW k \in Placed PROVE k \in Placed'
    BY <1>7, <2>1, <2>2
  <2>4. ASSUME NEW k \in ready PROVE k \in Placed'
    <3>1. PICK i \in 1..m : a[i] = k
      BY <1>4
    <3> QED BY <1>7, <2>1, <3>1
  <2>5. ASSUME NEW k \in Placed' PROVE k \in Placed \cup ready
    BY <1>7, <2>1, <2>2
  <2> QED BY <2>3, <2>4, <2>5
<1>9. /\ ready \cap Placed = {}
      /\ \A k \in ready : dependsOn[k] \subseteq Placed
  BY <1>2 DEF OrderInv, ready
<1>10. \A i, j \in 1..n + m : order'[i] = order'[j] => i = j
  <2> SUFFICES ASSUME NEW i \in 1..n + m, NEW j \in 1..n + m,
                      order'[i] = order'[j]
               PROVE  i = j
    OBVIOUS
  <2>1. \A x \in 1..n : order'[x] \in Placed /\ order'[x] \notin ready
    <3>1. \A x \in 1..n : order[x] \in Placed
      BY <1>5 DEF Placed, ToSet
    <3> QED BY <1>7, <1>9, <3>1
  <2>2. CASE i \in 1..n /\ j \in 1..n
    <3>1. order[i] = order[j]
      BY <1>7, <2>2
    <3> QED BY <1>2, <2>2, <3>1 DEF OrderInv, n
  <2>3. CASE i \notin 1..n /\ j \notin 1..n
    <3>1. i - n \in 1..m /\ j - n \in 1..m /\ a[i - n] = a[j - n]
      BY <1>7, <2>3
    <3>2. i - n = j - n
      BY <1>4, <3>1
    <3> QED BY <1>5, <3>2
  <2>4. CASE i \in 1..n /\ j \notin 1..n
    BY <1>7, <2>1, <2>4
  <2>5. CASE i \notin 1..n /\ j \in 1..n
    BY <1>7, <2>1, <2>5
  <2> QED BY <2>2, <2>3, <2>4, <2>5
<1>11. ASSUME NEW i \in 1..n + m, NEW d \in dependsOn[order'[i]]
       PROVE  \E j \in 1..i - 1 : order'[j] = d
  <2>1. CASE i \in 1..n
    <3>1. PICK j \in 1..i - 1 : order[j] = d
      BY <1>2, <1>7, <1>11, <2>1 DEF OrderInv, n
    <3>2. j \in 1..n
      BY <1>5, <2>1
    <3> QED BY <1>7, <3>1, <3>2
  <2>2. CASE i \notin 1..n
    <3>1. d \in Placed
      BY <1>7, <1>9, <1>11, <2>2
    <3>2. PICK j \in 1..n : order[j] = d
      BY <1>5, <3>1 DEF Placed, ToSet
    <3>3. j \in 1..i - 1
      BY <1>5, <2>2
    <3> QED BY <1>7, <3>2, <3>3
  <2> QED BY <2>1, <2>2
<1>12. OrderInv'
  <2>1. DOMAIN remaining' = DOMAIN remaining \ ready
        /\ \A k \in DOMAIN remaining' : remaining'[k] = remaining[k] \ ready
    BY <1>1
  <2>2. DOMAIN remaining' = Keys \ Placed'
    BY <1>2, <1>8, <2>1 DEF OrderInv
  <2>3. \A k \in DOMAIN remaining' : remaining'[k] = dependsOn'[k] \ Placed'
    BY <1>1, <1>2, <1>8, <2>1 DEF OrderInv
  <2> QED BY <1>1, <1>6, <1>10, <1>11, <2>2, <2>3 DEF OrderInv
<1>13. TypeOK'
  <2>1. Len(order') <= Cardinality(Keys)
    <3> DEFINE V == {order'[i] : i \in 1..n + m}
    <3>1. V \in SUBSET Keys
      <4>1. ASSUME NEW i \in 1..n + m PROVE order'[i] \in Keys
        <5>1. CASE i \in 1..n
          BY <1>5, <1>7, <5>1
        <5>2. CASE i \notin 1..n
          BY <1>3, <1>7, <5>2
        <5> QED BY <5>1, <5>2
      <4> QED BY <4>1
    <3> DEFINE l == n + m
    <3>2. V = {order'[i] : i \in 1..l} /\ l \in Nat
      BY <1>5
    <3>3. order' \in [1..l -> Keys]
      BY <1>6
    <3>4. \A i, j \in 1..l : order'[i] = order'[j] => i = j
      BY <1>10
    <3> HIDE DEF V, l
    <3>5. Cardinality(V) = l
      BY <3>2, <3>3, <3>4, ListSize
    <3> QED BY <1>6, <3>1, <3>5, FS_Subset DEF l
  <2>2. DOMAIN remaining' \in SUBSET Keys
    BY <1>1, <1>2
  <2> QED BY <1>1, <1>6, <2>1, <2>2 DEF IInv, TypeOK
<1>14. Valid'
  BY <1>1, <1>2 DEF Valid, ValidManifest
<1> QED BY <1>1, <1>2, <1>12, <1>13, <1>14 DEF IInv, NoKey

\* Where everything left waits for something left, the graph has a cycle.
LEMMA CycleInv == IInv /\ Cycle => IInv'
<1> SUFFICES ASSUME IInv, Cycle PROVE IInv'
  OBVIOUS
<1>1. /\ UNCHANGED <<duplicate, dependsOn, core, remaining, order, query,
                     needed, stack, answer>>
      /\ pc = "sort" /\ pc' = "rejected"
      /\ DOMAIN remaining # {}
      /\ \A k \in DOMAIN remaining : remaining[k] # {}
  BY DEF Cycle, graph, search
<1>2. TypeOK /\ Known /\ OrderInv
  BY <1>1, SoundIs DEF IInv
<1>3. ~Acyclic
  <2>1. ASSUME NEW k \in DOMAIN remaining
        PROVE  \E d \in DOMAIN remaining : d \in dependsOn[k]
    <3>1. PICK d \in remaining[k] : TRUE
      BY <1>1
    <3>2. k \in Keys /\ d \in dependsOn[k] /\ d \notin Placed
      BY <1>2, <3>1 DEF OrderInv
    <3>3. d \in Keys
      BY <1>2, <3>2 DEF Known
    <3> QED BY <1>2, <3>2, <3>3 DEF OrderInv
  <2>2. DOMAIN remaining \in SUBSET Keys
    BY <1>2 DEF OrderInv
  <2> QED BY <1>1, <1>2, <2>1, <2>2, WaitingIsCyclic
<1>4. ~Sound'
  <2>1. ~Sound
    BY <1>2, <1>3, SoundIs
  <2> QED BY <1>1, <2>1 DEF Sound, Acyclic, Catalog!Dependencies,
                            Catalog!Closed
<1>5. TypeOK'
  BY <1>1 DEF IInv, TypeOK
<1> QED BY <1>1, <1>4, <1>5 DEF IInv

\* Everything is ordered.
LEMMA SortedInv == IInv /\ Sorted => IInv'
<1> SUFFICES ASSUME IInv, Sorted PROVE IInv'
  OBVIOUS
<1>1. /\ UNCHANGED <<duplicate, dependsOn, core, remaining, order, query,
                     needed, stack, answer>>
      /\ pc = "sort" /\ pc' = "ready"
      /\ DOMAIN remaining = {}
  BY DEF Sorted, graph, search
<1>2. TypeOK'
  BY <1>1 DEF IInv, TypeOK
<1> QED BY <1>1, <1>2 DEF IInv, OrderInv, Placed, Valid, ValidManifest, NoKey

\* A query starts from the direct dependencies.
LEMMA QueryInv ==
    ASSUME IInv, NEW k \in Keys, Query(k)
    PROVE  IInv'
<1>1. /\ UNCHANGED <<duplicate, dependsOn, core, remaining, order, answer>>
      /\ pc = "ready" /\ pc' = "search"
      /\ query' = k /\ needed' = {} /\ stack' = dependsOn[k]
  BY DEF Query, graph
<1>2. Known
  BY <1>1, SoundIs DEF IInv
<1>3. TypeOK'
  BY <1>1, <1>2 DEF IInv, TypeOK, Known
<1>4. SearchInv'
  <2>1. Catalog!Dependencies(k)' = Catalog!Dependencies(k)
    BY <1>1 DEF Catalog!Dependencies, Catalog!Closed
  <2>2. Catalog!Dependencies(query)' = Catalog!Dependencies(k)
    BY <1>1, <2>1 DEF Catalog!Dependencies, Catalog!Closed
  <2> QED BY <1>1, <1>2, <2>2, DependenciesAre DEF SearchInv
<1> QED BY <1>1, <1>3, <1>4 DEF IInv, OrderInv, Placed, Valid, ValidManifest

\* A dependency that is new puts its own dependencies on the worklist.
LEMMA PopInv == IInv /\ Pop => IInv'
<1> SUFFICES ASSUME IInv, Pop PROVE IInv'
  OBVIOUS
<1>1. /\ UNCHANGED <<duplicate, dependsOn, core, remaining, order, query,
                     answer>>
      /\ pc = "search" /\ pc' = "search"
  BY DEF Pop, graph
<1>2. PICK d \in stack :
          /\ needed' = needed \cup {d}
          /\ stack' = (stack \ {d})
                         \cup (IF d \in needed THEN {} ELSE dependsOn[d])
  BY DEF Pop
<1>3. Known /\ SearchInv /\ d \in Keys
  BY <1>1, SoundIs DEF IInv, TypeOK
<1>4. TypeOK'
  BY <1>1, <1>2, <1>3 DEF IInv, TypeOK, Known
<1>5. SearchInv'
  <2>1. Catalog!Dependencies(query)' = Catalog!Dependencies(query)
    BY <1>1 DEF Catalog!Dependencies, Catalog!Closed
  <2>2. query \in Keys /\ d \in Catalog!Dependencies(query)
    BY <1>3 DEF SearchInv
  <2>3. dependsOn[d] \subseteq Catalog!Dependencies(query)
    BY <1>3, <2>2, DependenciesAre
  <2> QED BY <1>1, <1>2, <1>3, <2>1, <2>3 DEF SearchInv
<1> QED BY <1>1, <1>4, <1>5 DEF IInv, OrderInv, Placed, Valid, ValidManifest

\* The dependencies found, when none is left to look at, are all of them.
LEMMA SearchIsExact ==
    ASSUME TypeOK, Known, SearchInv, stack = {}
    PROVE  /\ needed = Catalog!Dependencies(query)
           /\ \A d \in needed : dependsOn[d] \subseteq needed
<1>1. needed \in SUBSET Keys /\ dependsOn[query] \subseteq needed
      /\ \A d \in needed : dependsOn[d] \subseteq needed
  BY DEF SearchInv, TypeOK
<1>2. Catalog!Dependencies(query) \subseteq needed
  BY <1>1, DependenciesAre DEF SearchInv
<1> QED BY <1>1, <1>2 DEF SearchInv

\* The answer is what was found, in the order of the catalogue.
LEMMA AnswerInv == IInv /\ Answer => IInv'
<1> SUFFICES ASSUME IInv, Answer PROVE IInv'
  OBVIOUS
<1>1. /\ UNCHANGED <<duplicate, dependsOn, core, remaining, order, query,
                     needed, stack>>
      /\ pc = "search" /\ pc' = "ready"
      /\ stack = {}
      /\ answer' = InOrder(needed)
  BY DEF Answer, graph, search
<1>2. TypeOK /\ Known /\ SearchInv /\ OrderInv /\ DOMAIN remaining = {}
  BY <1>1, SoundIs DEF IInv
<1>3. Placed = Keys
  BY <1>2, OrderedIsAcyclic
<1>4. InOrder(needed) \in Seq(Keys)
  BY <1>2, <1>1, <1>3, SearchIsExact, InOrderIs DEF TypeOK
<1>5. TypeOK'
  BY <1>1, <1>2, <1>4 DEF TypeOK
<1>6. SearchInv'
  BY <1>1, <1>2 DEF SearchInv, Catalog!Dependencies, Catalog!Closed
<1>7. InOrder(needed)' = InOrder(needed)
  BY <1>1 DEF InOrder
<1> QED BY <1>1, <1>5, <1>6, <1>7 DEF IInv, OrderInv, Placed, Valid,
                                      ValidManifest

\* A step that changes nothing.
LEMMA StutterInv == IInv /\ UNCHANGED vars => IInv'
<1> SUFFICES ASSUME IInv, UNCHANGED vars PROVE IInv'
  OBVIOUS
<1>1. UNCHANGED <<duplicate, dependsOn, core, pc, remaining, order, query,
                  needed, stack, answer>>
  BY DEF vars
<1>2. InOrder(needed)' = InOrder(needed)
  BY <1>1 DEF InOrder
<1>3. /\ TypeOK' <=> TypeOK
      /\ OrderInv' <=> OrderInv
      /\ Valid' <=> Valid
      /\ SearchInv' <=> SearchInv
  BY <1>1 DEF TypeOK, OrderInv, Placed, Valid, ValidManifest, SearchInv,
              Catalog!Dependencies, Catalog!Closed
<1>4. Sound' <=> Sound
  BY <1>1 DEF Sound, Acyclic, Catalog!Dependencies, Catalog!Closed
<1> QED BY <1>1, <1>2, <1>3, <1>4 DEF IInv

----------------------------------------------------------------------------
(* The theorems.                                                           *)

\* The inductive invariant holds in every reachable state.
THEOREM InvariantHolds == Spec => []IInv
<1>1. IInv /\ [Next]_vars => IInv'
  BY ValidateInv, SortRoundInv, CycleInv, SortedInv, QueryInv, PopInv,
     AnswerInv, StutterInv DEF Next, Construct
<1> QED BY <1>1, InitInv, PTL DEF Spec

\* Every variable of the constructor and of the query keeps its type; the
\* order never has more entries than there are modules.
THEOREM TypeCorrect == Spec => []TypeOK
<1>1. IInv => TypeOK
  BY DEF IInv
<1> QED BY <1>1, InvariantHolds, PTL

\* The constructor accepts every sound graph and refuses every other one:
\* its rounds find each cycle, however long.
THEOREM AcceptedIsSound == Spec => []AcceptsExactlySound
<1>1. IInv => AcceptsExactlySound
  <2> SUFFICES ASSUME IInv, pc \in {"ready", "search"} PROVE Sound
    BY DEF IInv, AcceptsExactlySound
  <2>1. TypeOK /\ Valid /\ Known /\ OrderInv /\ DOMAIN remaining = {}
    BY SoundIs DEF IInv
  <2> QED BY <2>1, OrderedIsAcyclic, SoundIs
<1> QED BY <1>1, InvariantHolds, PTL

\* The enable order holds every module once, after its dependencies.
THEOREM OrderIsSound == Spec => []OrderIsTopological
<1>1. IInv => OrderIsTopological
  <2> SUFFICES ASSUME IInv, pc \in {"ready", "search"}
               PROVE  /\ Len(order) = Cardinality(Keys)
                      /\ ToSet(order) = Keys
                      /\ \A i \in 1..Len(order) : dependsOn[order[i]]
                            \subseteq ToSet(SubSeq(order, 1, i - 1))
    BY DEF OrderIsTopological
  <2>1. TypeOK /\ Known /\ OrderInv /\ DOMAIN remaining = {}
        /\ order \in Seq(Keys)
    BY SoundIs DEF IInv, TypeOK
  <2>2. Placed = Keys
    BY <2>1, OrderedIsAcyclic
  <2>3. DOMAIN order = 1..Len(order) /\ Len(order) \in Nat
        /\ order \in [1..Len(order) -> Keys]
    BY <2>1, LenProperties
  <2>4. Keys = {order[i] : i \in 1..Len(order)}
    BY <2>2, <2>3 DEF Placed, ToSet
  <2>5. Cardinality(Keys) = Len(order)
    <3> DEFINE l == Len(order)
               V == {order[i] : i \in 1..l}
    <3>1. V = {order[i] : i \in 1..l} /\ l \in Nat
          /\ order \in [1..l -> Keys]
      BY <2>3
    <3>2. \A i, j \in 1..l : order[i] = order[j] => i = j
      BY <2>1 DEF OrderInv
    <3>3. V = Keys
      BY <2>4
    <3> HIDE DEF V, l
    <3>4. Cardinality(V) = l
      BY <3>1, <3>2, ListSize
    <3> QED BY <3>3, <3>4 DEF l
  <2>6. ASSUME NEW i \in 1..Len(order)
        PROVE  dependsOn[order[i]] \subseteq ToSet(SubSeq(order, 1, i - 1))
    <3>1. ToSet(SubSeq(order, 1, i - 1)) = {order[j] : j \in 1..i - 1}
      BY <2>1, PrefixSet
    <3>2. ASSUME NEW d \in dependsOn[order[i]]
          PROVE  \E j \in 1..i - 1 : order[j] = d
      BY <2>1, <3>2 DEF OrderInv
    <3> QED BY <3>1, <3>2
  <2> QED BY <2>2, <2>5, <2>6 DEF Placed
<1> QED BY <1>1, InvariantHolds, PTL

\* A query answers the transitive dependencies, no more and no less, each
\* once and after its own dependencies.
THEOREM AnswersAreExact == Spec => []AnswerIsExact
<1>1. IInv => AnswerIsExact
  <2> SUFFICES ASSUME IInv, pc = "ready", query # NoKey
               PROVE  /\ ToSet(answer) = Catalog!Dependencies(query)
                      /\ Len(answer) = Cardinality(ToSet(answer))
                      /\ \A i \in 1..Len(answer) : dependsOn[answer[i]]
                            \subseteq ToSet(SubSeq(answer, 1, i - 1))
    BY DEF AnswerIsExact
  <2>1. TypeOK /\ Known /\ OrderInv /\ DOMAIN remaining = {}
        /\ SearchInv /\ stack = {} /\ answer = InOrder(needed)
    BY SoundIs DEF IInv
  <2>2. Placed = Keys /\ order \in Seq(Keys) /\ needed \in SUBSET Keys
    BY <2>1, OrderedIsAcyclic DEF TypeOK
  <2>3. /\ needed = Catalog!Dependencies(query)
        /\ \A d \in needed : dependsOn[d] \subseteq needed
    BY <2>1, SearchIsExact
  <2>4. /\ ToSet(answer) = needed
        /\ Len(answer) = Cardinality(needed)
        /\ \A i \in 1..Len(answer) : dependsOn[answer[i]]
              \subseteq ToSet(SubSeq(answer, 1, i - 1))
    BY <2>1, <2>2, <2>3, InOrderIs
  <2> QED BY <2>3, <2>4
<1> QED BY <1>1, InvariantHolds, PTL

----------------------------------------------------------------------------
(* The loops run down.  TLC checks that they end (Terminates); what is     *)
(* proved here, for every finite graph, is the measure behind it.          *)

\* What the constructor has left to do: the rounds, then the last look.
ConstructWork ==
    CASE pc = "validate" -> Cardinality(Keys) + 2
      [] pc = "sort"     -> Cardinality(DOMAIN remaining) + 1
      [] OTHER           -> 0

\* A pop finds a dependency, or shortens the worklist for nothing.
QueryNearer ==
    \/ Cardinality(Keys \ needed') < Cardinality(Keys \ needed)
    \/ needed' = needed /\ Cardinality(stack') < Cardinality(stack)

\* A smaller set of keys has fewer of them.
LEMMA FewerKeys ==
    ASSUME NEW S \in SUBSET Keys, NEW T, T \subseteq S, T # S
    PROVE  /\ Cardinality(S) \in Nat /\ Cardinality(T) \in Nat
           /\ Cardinality(T) < Cardinality(S)
<1>1. IsFiniteSet(S)
  BY FS_Subset
<1>2. /\ IsFiniteSet(T)
      /\ Cardinality(T) <= Cardinality(S)
      /\ Cardinality(T) = Cardinality(S) => T = S
  BY <1>1, FS_Subset
<1>3. Cardinality(S) \in Nat /\ Cardinality(T) \in Nat
  BY <1>1, <1>2, FS_CardinalityType
<1> QED BY <1>2, <1>3

\* Every step of the constructor, each round of _topological_order among
\* them, leaves less of it: no graph keeps it running for ever.
THEOREM ConstructorRunsDown ==
    Spec => [][Construct => ConstructWork' < ConstructWork]_vars
<1>1. ASSUME IInv, Construct PROVE ConstructWork' < ConstructWork
  <2>1. DOMAIN remaining \in SUBSET Keys
    BY <1>1 DEF IInv, TypeOK
  <2>2. /\ Cardinality(Keys) \in Nat
        /\ Cardinality(DOMAIN remaining) \in Nat
        /\ Cardinality(DOMAIN remaining) <= Cardinality(Keys)
    BY <2>1, FS_Subset, FS_CardinalityType
  <2>3. CASE Validate
    <3>1. /\ pc = "validate" /\ pc' \in {"sort", "rejected"}
          /\ remaining' = remaining
      BY <2>3 DEF Validate
    <3> QED BY <2>2, <3>1 DEF ConstructWork
  <2>4. CASE SortRound
    <3> DEFINE ready == {k \in DOMAIN remaining : remaining[k] = {}}
    <3>1. /\ pc = "sort" /\ pc' = "sort" /\ ready # {}
          /\ DOMAIN remaining' = DOMAIN remaining \ ready
      BY <2>4 DEF SortRound
    <3>2. /\ DOMAIN remaining' \subseteq DOMAIN remaining
          /\ DOMAIN remaining' # DOMAIN remaining
      BY <3>1
    <3>3. /\ Cardinality(DOMAIN remaining') \in Nat
          /\ Cardinality(DOMAIN remaining') < Cardinality(DOMAIN remaining)
      BY <2>1, <3>2, FewerKeys
    <3> QED BY <2>2, <3>1, <3>3 DEF ConstructWork
  <2>5. CASE Cycle \/ Sorted
    <3>1. pc = "sort" /\ pc' \in {"ready", "rejected"}
      BY <2>5 DEF Cycle, Sorted
    <3> QED BY <2>2, <3>1 DEF ConstructWork
  <2> QED BY <1>1, <2>3, <2>4, <2>5 DEF Construct
<1>2. IInv /\ [Next]_vars
        => [Construct => ConstructWork' < ConstructWork]_vars
  BY <1>1
<1> QED BY <1>2, InvariantHolds, PTL DEF Spec

\* Every pop of dependencies finds a module not found before, of which there
\* are finitely many, or leaves a shorter worklist: a graph with many paths
\* to the same module does not keep the query running.
THEOREM QueryRunsDown == Spec => [][Pop => QueryNearer]_vars
<1>1. ASSUME IInv, Pop PROVE QueryNearer
  <2>1. needed \in SUBSET Keys /\ stack \in SUBSET Keys
    BY <1>1 DEF IInv, TypeOK
  <2>2. PICK d \in stack :
            /\ needed' = needed \cup {d}
            /\ stack' = (stack \ {d})
                           \cup (IF d \in needed THEN {} ELSE dependsOn[d])
    BY <1>1 DEF Pop
  <2>3. CASE d \in needed
    <3>1. needed' = needed /\ stack' \subseteq stack /\ stack' # stack
      BY <2>2, <2>3
    <3> QED BY <2>1, <3>1, FewerKeys DEF QueryNearer
  <2>4. CASE d \notin needed
    <3>1. /\ Keys \ needed \in SUBSET Keys
          /\ Keys \ needed' \subseteq Keys \ needed
          /\ Keys \ needed' # Keys \ needed
      BY <2>1, <2>2, <2>4
    <3> QED BY <3>1, FewerKeys DEF QueryNearer
  <2> QED BY <2>3, <2>4
<1>2. IInv /\ [Next]_vars => [Pop => QueryNearer]_vars
  BY <1>1
<1> QED BY <1>2, InvariantHolds, PTL DEF Spec

----------------------------------------------------------------------------
(* The pages of a walk.                                                    *)

ShownSet == {shown[i] : i \in 1..Len(shown)}

\* The cursor separates what the walk has shown from what it will show:
\* nothing shown is behind it, and of the companies visible at the start
\* nothing up to it is missing.
WalkInv ==
    /\ WalkTypeOK
    /\ \A i, j \in 1..Len(shown) : i < j => shown[i] < shown[j]
    /\ atStart \subseteq committed
    /\ walking => \A i \in 1..Len(shown) : shown[i] <= cursor
    /\ walking => \A k \in atStart : k <= cursor => k \in ShownSet
    /\ ~walking => atStart \subseteq ShownSet

\* LIMIT n returns the first rows, at most n of them.
LEMMA TakeIs ==
    ASSUME NEW S, NEW s \in Seq(S), NEW n \in Nat
    PROVE  /\ Take(s, n) \in Seq(S)
           /\ Len(Take(s, n)) = IF n < Len(s) THEN n ELSE Len(s)
           /\ \A i \in 1..Len(Take(s, n)) : Take(s, n)[i] = s[i]
<1> DEFINE m == IF n < Len(s) THEN n ELSE Len(s)
<1>1. m \in Nat /\ m <= Len(s) /\ Len(s) \in Nat
  BY LenProperties
<1>2. \A i \in 1..m : s[i] \in S
  BY <1>1, ElementOfSeq
<1> HIDE DEF m
<1>3. /\ SubSeq(s, 1, m) \in Seq(S)
      /\ Len(SubSeq(s, 1, m)) = IF 1 <= m THEN m - 1 + 1 ELSE 0
      /\ \A i \in 1..m - 1 + 1 : SubSeq(s, 1, m)[i] = s[1 + i - 1]
  BY <1>1, <1>2, SubSeqProperties
<1>4. Len(SubSeq(s, 1, m)) = m
  BY <1>1, <1>3
<1>5. \A i \in 1..m : SubSeq(s, 1, m)[i] = s[i]
  BY <1>1, <1>3
<1>6. Take(s, n) = SubSeq(s, 1, m)
  BY DEF Take, m
<1> QED BY <1>3, <1>4, <1>5, <1>6 DEF m

\* A page holds the first Limit rows after the cursor, and promises another
\* one exactly when there are more.
LEMMA PageIs ==
    ASSUME WalkTypeOK, NEW c \in Ids \cup {NoCursor},
           NEW S, S = After(c), NEW A, A = Ascending(S),
           NEW items, items = Items(c)
    PROVE  /\ S \in SUBSET Ids
           /\ Len(A) \in Nat
           /\ \A k \in S : \E i \in 1..Len(A) : A[i] = k
           /\ \A i, j \in 1..Len(A) : i < j => A[i] < A[j]
           /\ items \in Seq(S)
           /\ Len(items) = IF Limit < Len(A) THEN Limit ELSE Len(A)
           /\ \A i \in 1..Len(items) : items[i] = A[i]
           /\ Len(Fetched(c)) > Limit <=> Len(A) > Limit
<1> DEFINE F == Take(A, Limit + 1)
<1>1. S \in SUBSET Ids /\ S \in SUBSET Nat /\ IsFiniteSet(S)
  <2>1. S \subseteq Ids
    BY DEF After, WalkTypeOK
  <2> QED BY <2>1, IdsAssumption, FS_Subset
<1>2. /\ A \in Seq(S)
      /\ Len(A) = Cardinality(S)
      /\ \A i, j \in 1..Cardinality(S) : i < j => A[i] < A[j]
      /\ {A[i] : i \in 1..Cardinality(S)} = S
  <2> DEFINE B == Ascending(S)
  <2>1. /\ B \in Seq(S)
        /\ Len(B) = Cardinality(S)
        /\ \A i, j \in 1..Cardinality(S) : i < j => B[i] < B[j]
        /\ {B[i] : i \in 1..Cardinality(S)} = S
    BY <1>1, AscendingIs
  <2>2. A = B
    BY A = Ascending(S)
  <2> HIDE DEF B
  <2> QED BY <2>1, <2>2
<1>3. Limit \in Nat /\ Limit + 1 \in Nat /\ Len(A) \in Nat
  BY <1>2, LimitAssumption, LenProperties
<1>4. /\ F \in Seq(S)
      /\ Len(F) = IF Limit + 1 < Len(A) THEN Limit + 1 ELSE Len(A)
      /\ \A i \in 1..Len(F) : F[i] = A[i]
  BY <1>2, <1>3, TakeIs
<1>5. Fetched(c) = F /\ items = Take(F, Limit)
  BY DEF Fetched, Items
<1> HIDE DEF F
<1>6. /\ items \in Seq(S)
      /\ Len(items) = IF Limit < Len(F) THEN Limit ELSE Len(F)
      /\ \A i \in 1..Len(items) : items[i] = F[i]
  BY <1>3, <1>4, <1>5, TakeIs
<1>7. Len(items) = IF Limit < Len(A) THEN Limit ELSE Len(A)
  BY <1>3, <1>4, <1>6
<1>8. \A i \in 1..Len(items) : items[i] = A[i]
  BY <1>3, <1>4, <1>6, <1>7
<1>9. Len(Fetched(c)) > Limit <=> Len(A) > Limit
  BY <1>3, <1>4, <1>5
<1> QED BY <1>1, <1>2, <1>3, <1>6, <1>7, <1>8, <1>9

\* Increasing keys do not repeat, so a walk shows no more rows than exist.
LEMMA IncreasingIsShort ==
    ASSUME NEW s \in Seq(Ids),
           \A i, j \in 1..Len(s) : i < j => s[i] < s[j]
    PROVE  Len(s) <= Cardinality(Ids)
<1> DEFINE T == {s[i] : i \in 1..Len(s)}
           n == Len(s)
<1>1. n \in Nat /\ s \in [1..n -> Ids] /\ T \subseteq Ids
  BY LenProperties, ElementOfSeq
<1>2. \A i, j \in 1..n : s[i] = s[j] => i = j
  <2> SUFFICES ASSUME NEW i \in 1..n, NEW j \in 1..n, s[i] = s[j], i # j
               PROVE  FALSE
    OBVIOUS
  <2>1. s[i] \in Nat /\ s[j] \in Nat
    BY <1>1, IdsAssumption
  <2>2. i < j \/ j < i
    BY <1>1
  <2> QED BY <2>1, <2>2
<1>3. T = {s[i] : i \in 1..n}
  OBVIOUS
<1> HIDE DEF T, n
<1>4. Cardinality(T) = n
  BY <1>1, <1>2, <1>3, ListSize
<1>5. Cardinality(T) <= Cardinality(Ids)
  BY <1>1, IdsAssumption, FS_Subset
<1> QED BY <1>4, <1>5 DEF n

\* Before the first walk nothing is visible and nothing was shown.
LEMMA WalkInitInv == WalkInit => WalkInv
<1> SUFFICES ASSUME WalkInit PROVE WalkInv
  OBVIOUS
<1>1. WalkTypeOK
  <2>1. Cardinality(Ids) \in Nat
    BY IdsAssumption, FS_CardinalityType
  <2>2. shown \in Seq(Ids) /\ Len(shown) = 0
    BY DEF WalkInit
  <2>3. Len(shown) <= Cardinality(Ids)
    BY <2>1, <2>2
  <2>4. /\ committed \subseteq Ids /\ uncommitted \subseteq Ids
        /\ gone \subseteq Ids /\ atStart \subseteq Ids
        /\ walking \in BOOLEAN /\ cursor \in Ids \cup {NoCursor}
    BY DEF WalkInit
  <2> QED BY <2>2, <2>3, <2>4 DEF WalkTypeOK
<1> QED BY <1>1 DEF WalkInit, WalkInv

\* A company becomes visible or not: the walk so far is not disturbed,
\* whatever the order of the keys.
LEMMA RowInv ==
    ASSUME WalkInv, NEW k \in Ids, Add(k) \/ End(k)
    PROVE  WalkInv'
<1>1. /\ UNCHANGED <<walking, cursor, shown, atStart>>
      /\ committed \subseteq committed'
  BY DEF Add, End
<1>2. WalkTypeOK'
  BY <1>1 DEF Add, End, WalkInv, WalkTypeOK
<1> QED BY <1>1, <1>2 DEF WalkInv, ShownSet

\* A new walk has shown nothing and owes everything that is visible.
LEMMA StartWalkInv == WalkInv /\ StartWalk => WalkInv'
<1> SUFFICES ASSUME WalkInv, StartWalk PROVE WalkInv'
  OBVIOUS
<1>1. WalkTypeOK'
  <2>1. Cardinality(Ids) \in Nat
    BY IdsAssumption, FS_CardinalityType
  <2> QED BY <2>1 DEF StartWalk, rowVars, WalkInv, WalkTypeOK
<1>2. \A k \in atStart' : ~(k <= cursor')
  BY IdsAssumption DEF StartWalk, WalkInv, WalkTypeOK, NoCursor
<1> QED BY <1>1, <1>2 DEF StartWalk, rowVars, WalkInv

\* A page continues the list where the cursor stands.
LEMMA PageInv == WalkInv /\ Page => WalkInv'
<1> SUFFICES ASSUME WalkInv, Page PROVE WalkInv'
  OBVIOUS
<1> DEFINE S == After(cursor)
           A == Ascending(S)
           items == Items(cursor)
           more == Len(Fetched(cursor)) > Limit
           n == Len(shown)
           m == Len(items)
<1>1. /\ S \in SUBSET Ids
      /\ Len(A) \in Nat
      /\ \A k \in S : \E i \in 1..Len(A) : A[i] = k
      /\ \A i, j \in 1..Len(A) : i < j => A[i] < A[j]
      /\ items \in Seq(S)
      /\ m = IF Limit < Len(A) THEN Limit ELSE Len(A)
      /\ \A i \in 1..m : items[i] = A[i]
      /\ more <=> Len(A) > Limit
  BY PageIs DEF WalkInv, WalkTypeOK
<1>2. /\ walking /\ cursor \in Ids \cup {NoCursor} /\ cursor \in Nat
      /\ shown' = shown \o items
      /\ walking' = more
      /\ cursor' = IF more THEN items[m] ELSE NoCursor
      /\ UNCHANGED <<committed, uncommitted, gone, atStart>>
      /\ S = {k \in committed : cursor = NoCursor \/ k > cursor}
      /\ Limit \in Nat \ {0}
  BY IdsAssumption, LimitAssumption
  DEF Page, rowVars, WalkInv, WalkTypeOK, NoCursor, After
<1> HIDE DEF S, A, items, more, n, m
<1>3. /\ shown \in Seq(Ids) /\ n \in Nat
      /\ m \in Nat /\ m <= Len(A) /\ items \in Seq(Ids)
      /\ \A i \in 1..n : shown[i] \in Nat /\ shown[i] <= cursor
      /\ \A i \in 1..m : items[i] \in S /\ items[i] \in Nat
  <2>1. shown \in Seq(Ids) /\ \A i \in 1..n : shown[i] <= cursor
    BY <1>2 DEF WalkInv, WalkTypeOK, n
  <2>2. items \in Seq(Ids)
    BY <1>1
  <2>3. n \in Nat /\ \A i \in 1..n : shown[i] \in Ids
    BY <2>1, LenProperties, ElementOfSeq DEF n
  <2>4. \A i \in 1..m : items[i] \in S
    BY <1>1, ElementOfSeq DEF m
  <2>5. m \in Nat /\ m <= Len(A)
    BY <1>1, <1>2
  <2> QED BY <1>1, <2>1, <2>2, <2>3, <2>4, <2>5, IdsAssumption
<1>4. /\ shown' \in Seq(Ids)
      /\ Len(shown') = n + m
      /\ \A i \in 1..n : shown'[i] = shown[i]
      /\ \A i \in 1..m : shown'[n + i] = items[i]
  <2>1. /\ shown \o items \in Seq(Ids)
        /\ Len(shown \o items) = n + m
        /\ \A i \in 1..n + m : (shown \o items)[i] =
              IF i <= n THEN shown[i] ELSE items[i - n]
    BY <1>3, ConcatProperties DEF n, m
  <2>2. \A i \in 1..n : (shown \o items)[i] = shown[i]
    BY <1>3, <2>1
  <2>3. ASSUME NEW i \in 1..m PROVE (shown \o items)[n + i] = items[i]
    <3>1. n + i \in 1..n + m /\ ~(n + i <= n) /\ (n + i) - n = i
      BY <1>3
    <3> QED BY <2>1, <3>1
  <2> QED BY <1>2, <2>1, <2>2, <2>3
\* Every row of the page is after everything shown before.
<1>5. ASSUME NEW i \in 1..n, NEW j \in 1..m PROVE shown[i] < items[j]
  <2>1. shown[i] \in Nat /\ shown[i] <= cursor /\ items[j] \in Nat
    BY <1>3
  <2>2. shown[i] # 0
    BY <1>3, ElementOfSeq, IdsAssumption DEF n
  <2>3. cursor # NoCursor
    BY <1>2, <2>1, <2>2 DEF NoCursor
  <2>4. items[j] > cursor
    BY <1>2, <1>3, <2>3
  <2> QED BY <1>2, <2>1, <2>4
<1>6. \A i, j \in 1..Len(shown') : i < j => shown'[i] < shown'[j]
  <2> SUFFICES ASSUME NEW i \in 1..n + m, NEW j \in 1..n + m, i < j
               PROVE  shown'[i] < shown'[j]
    BY <1>4
  <2>1. CASE j <= n
    <3>1. i \in 1..n /\ j \in 1..n
      BY <1>3, <2>1
    <3>2. shown[i] < shown[j]
      BY <3>1 DEF WalkInv, n
    <3> QED BY <1>4, <3>1, <3>2
  <2>2. CASE i <= n /\ j > n
    <3>1. i \in 1..n /\ j - n \in 1..m /\ n + (j - n) = j
      BY <1>3, <2>2
    <3>2. shown'[j] = items[j - n]
      BY <1>4, <3>1
    <3> QED BY <1>4, <1>5, <3>1, <3>2
  <2>3. CASE i > n
    <3>1. /\ i - n \in 1..m /\ n + (i - n) = i
          /\ j - n \in 1..m /\ n + (j - n) = j
          /\ i - n < j - n
      BY <1>3, <2>3
    <3>2. i - n \in 1..Len(A) /\ j - n \in 1..Len(A)
      BY <1>1, <1>3, <3>1
    <3>3. A[i - n] < A[j - n]
      BY <1>1, <3>1, <3>2
    <3>4. shown'[i] = A[i - n] /\ shown'[j] = A[j - n]
      <4>1. shown'[i] = items[i - n] /\ shown'[j] = items[j - n]
        BY <1>4, <3>1
      <4> QED BY <1>1, <3>1, <4>1
    <3> QED BY <3>3, <3>4
  <2> QED BY <1>3, <2>1, <2>2, <2>3
\* What was shown stays shown, and the page is shown.
<1>7. /\ ShownSet \subseteq ShownSet'
      /\ \A i \in 1..m : items[i] \in ShownSet'
  <2>1. ASSUME NEW k \in ShownSet PROVE k \in ShownSet'
    <3>1. PICK i \in 1..n : k = shown[i]
      BY DEF ShownSet, n
    <3>2. i \in 1..Len(shown') /\ shown'[i] = k
      BY <1>3, <1>4, <3>1
    <3> QED BY <3>2 DEF ShownSet
  <2>2. ASSUME NEW i \in 1..m PROVE items[i] \in ShownSet'
    <3>1. n + i \in 1..Len(shown') /\ shown'[n + i] = items[i]
      BY <1>3, <1>4
    <3> QED BY <3>1 DEF ShownSet
  <2> QED BY <2>1, <2>2
\* A company of the start is shown already or among the rows of A.
<1>8. ASSUME NEW k \in atStart
      PROVE  k \in ShownSet' \/ \E i \in 1..Len(A) : A[i] = k
  <2>1. k \in committed /\ k \in Nat \ {0}
    BY IdsAssumption DEF WalkInv, WalkTypeOK
  <2>2. CASE k <= cursor
    BY <1>2, <1>7, <2>2 DEF WalkInv
  <2>3. CASE ~(k <= cursor)
    <3>1. k \in S
      BY <1>2, <2>1, <2>3
    <3> QED BY <1>1, <3>1
  <2> QED BY <2>2, <2>3
<1>9. CASE more
  <2>1. m = Limit /\ m \in 1..m /\ m \in 1..Len(A) /\ cursor' = items[m]
        /\ items[m] = A[m]
    BY <1>1, <1>2, <1>3, <1>9
  <2>2. cursor' \in Ids /\ walking' = TRUE
    BY <1>1, <1>2, <1>3, <1>9, <2>1
  <2>3. ASSUME NEW i \in 1..Len(shown') PROVE shown'[i] <= cursor'
    <3>1. Len(shown') \in 1..Len(shown') /\ shown'[Len(shown')] = cursor'
      BY <1>3, <1>4, <2>1
    <3>2. shown'[i] \in Nat /\ cursor' \in Nat
      BY <1>4, <2>2, ElementOfSeq, IdsAssumption
    <3>3. i < Len(shown') \/ i = Len(shown')
      BY <1>3, <1>4
    <3> QED BY <1>6, <3>1, <3>2, <3>3
  <2>4. ASSUME NEW k \in atStart', k <= cursor' PROVE k \in ShownSet'
    <3> SUFFICES ASSUME NEW i \in 1..Len(A), A[i] = k
                 PROVE  k \in ShownSet'
      BY <1>2, <1>8
    <3>1. i <= m
      <4> SUFFICES ASSUME m < i PROVE FALSE
        BY <1>3
      <4>1. A[m] < A[i]
        BY <1>1, <2>1
      <4>2. A[m] \in Nat /\ A[i] \in Nat
        BY <1>2, <1>3, <2>1, IdsAssumption DEF WalkInv, WalkTypeOK
      <4> QED BY <2>1, <2>4, <4>1, <4>2
    <3>2. i \in 1..m /\ items[i] = k
      BY <1>1, <1>3, <3>1
    <3> QED BY <1>7, <3>2
  <2>5. WalkTypeOK'
    <3>1. Len(shown') <= Cardinality(Ids)
      BY <1>4, <1>6, IncreasingIsShort
    <3> QED BY <1>2, <1>4, <2>2, <3>1 DEF WalkInv, WalkTypeOK
  <2> QED BY <1>2, <1>6, <2>2, <2>3, <2>4, <2>5 DEF WalkInv
<1>10. CASE ~more
  <2>1. m = Len(A) /\ walking' = FALSE /\ cursor' = NoCursor
    BY <1>1, <1>2, <1>10
  <2>2. ASSUME NEW k \in atStart' PROVE k \in ShownSet'
    BY <1>1, <1>2, <1>7, <1>8, <2>1
  <2>3. WalkTypeOK'
    <3>1. Len(shown') <= Cardinality(Ids)
      BY <1>4, <1>6, IncreasingIsShort
    <3> QED BY <1>2, <1>4, <2>1, <3>1 DEF WalkInv, WalkTypeOK
  <2> QED BY <1>2, <1>6, <2>1, <2>2, <2>3 DEF WalkInv
<1> QED BY <1>9, <1>10

\* The inductive invariant of a walk holds in every reachable state.
THEOREM WalkInvariantHolds == WalkSpec => []WalkInv
<1>1. WalkInv /\ UNCHANGED walkVars => WalkInv'
  BY DEF walkVars, WalkInv, WalkTypeOK, ShownSet
<1>2. WalkInv /\ [WalkNext]_walkVars => WalkInv'
  BY <1>1, StartWalkInv, PageInv, RowInv DEF WalkNext
<1> QED BY <1>2, WalkInitInv, PTL DEF WalkSpec

\* The variables of a walk keep their types; in particular it shows no more
\* rows than there are companies.
THEOREM WalkTypeCorrect == WalkSpec => []WalkTypeOK
<1>1. WalkInv => WalkTypeOK
  BY DEF WalkInv
<1> QED BY <1>1, WalkInvariantHolds, PTL

\* No company is listed twice or out of order in a walk, for every page size
\* and every order of commits between the pages.
THEOREM WalkIsOrdered == WalkSpec => []ListedInOrder
<1>1. WalkInv => ListedInOrder
  <2> SUFFICES ASSUME WalkInv PROVE ListedInOrder
    OBVIOUS
  <2>1. DOMAIN shown = 1..Len(shown)
    BY LenProperties DEF WalkInv, WalkTypeOK
  <2> QED BY <2>1 DEF WalkInv, ListedInOrder
<1> QED BY <1>1, WalkInvariantHolds, PTL

\* A walk that ended listed every company visible at its start.
THEOREM WalkMissesNothing == WalkSpec => []WalkIsComplete
<1>1. WalkInv => WalkIsComplete
  <2> SUFFICES ASSUME WalkInv PROVE WalkIsComplete
    OBVIOUS
  <2>1. DOMAIN shown = 1..Len(shown)
    BY LenProperties DEF WalkInv, WalkTypeOK
  <2> QED BY <2>1 DEF WalkInv, ShownSet, WalkIsComplete
<1> QED BY <1>1, WalkInvariantHolds, PTL
=============================================================================
