------------------------- MODULE SiteRegistryProofs -------------------------
(* Proofs about SiteRegistry: for any limit, addresses and configuration   *)
(* files.                                                                  *)
EXTENDS SiteRegistry, FiniteSetTheorems, TLAPS

(* Every operation changes memory and store alike (registry.py:121-139).   *)
THEOREM RegistryInvariant == Spec => []RegistryInv
<1>1. Init => RegistryInv
    BY RegistryAssumption DEF Init, RegistryInv, TypeOK, Lists, Loaded
<1>2. RegistryInv /\ [Next]_vars => RegistryInv'
    <2> SUFFICES ASSUME RegistryInv, [Next]_vars PROVE RegistryInv'
        OBVIOUS
    <2> USE RegistryAssumption DEF RegistryInv, TypeOK, Lists
    <2>1. ASSUME NEW n \in Names, NEW u \in Urls, Get(n) = None, Store(n, u)
          PROVE  RegistryInv'
        <3>1. config[n] = None
            BY <2>1 DEF Get
        <3> QED
            BY <2>1, <3>1 DEF Store, Loaded
    <2>2. ASSUME NEW u \in Urls, Add(u) PROVE RegistryInv'
        <3>1. Host[u] \in Titles
            OBVIOUS
        <3>2. CASE Get(<<Host[u], 1>>) = None
            <4>1. <<Host[u], 1>> \in Names
                BY <3>1 DEF Names
            <4> QED
                BY <2>1, <2>2, <3>2, <4>1 DEF Add
        <3>3. CASE Get(<<Host[u], 1>>) # None
            <4>1. PICK k \in Free(Host[u]) : Store(<<Host[u], k>>, u)
                BY <2>2, <3>3 DEF Add
            <4>2. <<Host[u], k>> \in Names /\ Get(<<Host[u], k>>) = None
                BY <3>1, <4>1 DEF Free, Suffixes, Names
            <4> QED
                BY <2>1, <4>1, <4>2
        <3> QED
            BY <3>2, <3>3
    <2>3. ASSUME NEW u \in Urls, NEW n \in Names, AddNamed(u, n) PROVE RegistryInv'
        BY <2>1, <2>3 DEF AddNamed
    <2>4. ASSUME NEW n \in Names, Remove(n) PROVE RegistryInv'
        BY <2>4 DEF Remove, Editable, Loaded
    <2>5. CASE Restart
        <3>1. config' \in Lists /\ rows' \in Lists
            BY <2>5 DEF Restart
        <3> QED
            BY <2>5, <3>1 DEF Restart, Loaded
    <2>6. CASE UNCHANGED vars
        BY <2>6 DEF vars, Loaded
    <2> QED
        BY <2>2, <2>3, <2>4, <2>5, <2>6 DEF Next
<1> QED
    BY <1>1, <1>2, PTL DEF Spec

(* A site that is shadowed is never deleted with its namesake              *)
(* (registry.py:135-139, 155-163).                                         *)
THEOREM ShadowingIsHarmless == Spec => ShadowedRowsAreKept
<1> DEFINE Kept ==
        \A n \in Names : rows[n] # None /\ rows'[n] # rows[n] => telegram[n] = rows[n]
<1>1. RegistryInv /\ [Next]_vars => [Kept]_vars
    <2> SUFFICES ASSUME RegistryInv, [Next]_vars, NEW n \in Names,
                        rows[n] # None, rows'[n] # rows[n], config[n] # None
                 PROVE  FALSE
        BY DEF RegistryInv, Loaded
    <2> USE DEF RegistryInv, TypeOK, Lists
    <2>1. ASSUME NEW m \in Names, NEW u, Store(m, u), Get(m) = None PROVE FALSE
        BY <2>1 DEF Store, Get
    <2>2. ASSUME NEW u \in Urls, Add(u) PROVE FALSE
        <3>1. Host[u] \in Titles
            BY RegistryAssumption
        <3>2. <<Host[u], 1>> \in Names
            BY <3>1, RegistryAssumption DEF Names
        <3>3. ASSUME NEW k \in Free(Host[u])
              PROVE  <<Host[u], k>> \in Names /\ Get(<<Host[u], k>>) = None
            BY <3>1, <3>3, RegistryAssumption DEF Free, Suffixes, Names
        <3> QED
            BY <2>1, <2>2, <3>2, <3>3 DEF Add
    <2>3. ASSUME NEW u \in Urls, NEW m \in Names, AddNamed(u, m) PROVE FALSE
        BY <2>1, <2>3 DEF AddNamed
    <2>4. ASSUME NEW m \in Names, Remove(m) PROVE FALSE
        BY <2>4 DEF Remove, Editable
    <2> QED
        BY <2>2, <2>3, <2>4 DEF Next, Restart, vars
<1> QED
    BY <1>1, RegistryInvariant, PTL DEF Spec, ShadowedRowsAreKept

(* There are more suffixes than names that can be taken (registry.py:106,  *)
(* 128-133).                                                               *)
LEMMA SomeSuffixIsFree ==
    ASSUME NEW t \in Titles, TypeOK, BelowLimit,
           Cardinality(Named(config)) <= 1, Get(<<t, 1>>) # None
    PROVE  Free(t) # {}
<1> DEFINE Taken == (Named(config) \union Named(telegram)) \ {<<t, 1>>}
<1>1. IsFiniteSet(Names)
    <2>1. IsFiniteSet(1..(MaxSites + 1))
        BY RegistryAssumption, FS_Interval
    <2> QED
        BY <2>1, RegistryAssumption, FS_Product DEF Names
<1>2. IsFiniteSet(Named(config)) /\ IsFiniteSet(Named(telegram))
    BY <1>1, FS_Subset DEF Named
<1>3. IsFiniteSet(Taken) /\ Cardinality(Taken) <= MaxSites - 1
    <2> DEFINE All == Named(config) \union Named(telegram)
    <2>1. /\ Cardinality(Named(config)) \in Nat
          /\ Cardinality(Named(telegram)) \in Nat
          /\ Cardinality(Named(config) \intersect Named(telegram)) \in Nat
        <3>1. IsFiniteSet(Named(config) \intersect Named(telegram))
            BY <1>2, FS_Subset
        <3> QED
            BY <1>2, <3>1, FS_CardinalityType
    <2>2. IsFiniteSet(All) /\ Cardinality(All) <= MaxSites
        <3>1. /\ IsFiniteSet(All)
              /\ Cardinality(All) = Cardinality(Named(config)) + Cardinality(Named(telegram))
                                      - Cardinality(Named(config) \intersect Named(telegram))
            BY <1>2, FS_Union
        <3>2. Cardinality(Named(telegram)) <= MaxSites - 1
            BY <2>1, RegistryAssumption DEF BelowLimit
        <3> HIDE DEF All
        <3> QED
            BY <2>1, <3>1, <3>2, RegistryAssumption
    <2>3. <<t, 1>> \in All
        <3>1. <<t, 1>> \in Names
            BY RegistryAssumption DEF Names
        <3> QED
            BY <3>1 DEF Named, Get
    <2>4. IsFiniteSet(Taken) /\ Cardinality(Taken) = Cardinality(All) - 1
        <3> HIDE DEF All
        <3>1. IsFiniteSet(All \ {<<t, 1>>})
              /\ Cardinality(All \ {<<t, 1>>}) = Cardinality(All) - 1
            BY <2>2, <2>3, FS_RemoveElement
        <3> QED
            BY <3>1 DEF All
    <2>5. Cardinality(All) \in Nat
        BY <2>2, FS_CardinalityType
    <2> QED
        BY <2>2, <2>4, <2>5, RegistryAssumption
<1>4. IsFiniteSet(Suffixes) /\ Cardinality(Suffixes) = MaxSites
    BY RegistryAssumption, FS_Interval DEF Suffixes
<1>5. SUFFICES ASSUME Free(t) = {} PROVE FALSE
    OBVIOUS
<1> DEFINE f == [k \in Suffixes |-> <<t, k>>]
<1>6. f \in Injection(Suffixes, Taken)
    <2>1. ASSUME NEW k \in Suffixes PROVE <<t, k>> \in Taken
        <3>1. Get(<<t, k>>) # None
            BY <1>5 DEF Free
        <3>2. k \in 1..(MaxSites + 1) /\ k # 1
            BY SMT, RegistryAssumption DEF Suffixes
        <3>3. <<t, k>> \in Names /\ <<t, k>> # <<t, 1>>
            BY <3>2 DEF Names
        <3> QED
            BY <3>1, <3>3 DEF Named, Get
    <2>2. f \in [Suffixes -> Taken]
        BY <2>1
    <2>3. \A j, k \in Suffixes : f[j] = f[k] => j = k
        OBVIOUS
    <2> QED
        BY <2>2, <2>3 DEF Injection, IsInjective
<1>7. Cardinality(Suffixes) <= Cardinality(Taken)
    BY <1>3, <1>6, FS_Injection
<1> QED
    BY <1>3, <1>4, <1>7, FS_CardinalityType, RegistryAssumption

(* Every address that may be added gets a name, for any limit and any      *)
(* number of sites on one host (registry.py:100-133).                      *)
THEOREM NameAlwaysFound == Spec => []NameIsFound
<1>1. RegistryInv => NameIsFound
    <2> SUFFICES ASSUME RegistryInv, Cardinality(Named(config)) <= 1,
                        NEW u \in Urls, Addable(u), Get(<<Host[u], 1>>) # None
                 PROVE  Free(Host[u]) # {}
        BY DEF NameIsFound
    <2>1. Host[u] \in Titles
        BY RegistryAssumption
    <2> QED
        BY <2>1, SomeSuffixIsFree DEF RegistryInv, Addable
<1> QED
    BY <1>1, RegistryInvariant, PTL
(* What an addition does: a free name gets the address (registry.py:100-   *)
(* 122).                                                                   *)
LEMMA AddsOne ==
    ASSUME NEW u \in Urls, NEW m \in Names, Add(u) \/ AddNamed(u, m)
    PROVE  Addable(u) /\ \E n \in Names : Get(n) = None /\ Store(n, u)
<1>1. CASE AddNamed(u, m)
    BY <1>1 DEF AddNamed
<1>2. CASE Add(u)
    <2>1. Host[u] \in Titles /\ <<Host[u], 1>> \in Names
        BY RegistryAssumption DEF Names
    <2>2. ASSUME NEW k \in Free(Host[u])
          PROVE  <<Host[u], k>> \in Names /\ Get(<<Host[u], k>>) = None
        BY <2>1, <2>2, RegistryAssumption DEF Free, Suffixes, Names
    <2> QED
        BY <1>2, <2>1, <2>2 DEF Add
<1> QED
    BY <1>1, <1>2

LEMMA NamedIsFinite ==
    ASSUME NEW f
    PROVE  IsFiniteSet(Named(f)) /\ Cardinality(Named(f)) \in Nat
<1>1. IsFiniteSet(1..(MaxSites + 1))
    BY RegistryAssumption, FS_Interval
<1>2. IsFiniteSet(Names)
    BY <1>1, RegistryAssumption, FS_Product DEF Names
<1> QED
    BY <1>2, FS_Subset, FS_CardinalityType DEF Named

(* The list stays free of duplicates and within the limit unless           *)
(* config.yaml is edited, for any limit and any file (registry.py:106-139).*)
THEOREM ListStaysProper == Spec => StaysProper
<1>1. RegistryInv /\ [Next]_vars => [Proper /\ config' = config => Proper']_vars
    <2> SUFFICES ASSUME RegistryInv, Next, Proper, config' = config
                 PROVE  Proper'
        OBVIOUS
    <2> USE DEF RegistryInv, TypeOK, Lists
    <2>1. ASSUME NEW u \in Urls, Addable(u), NEW n \in Names, Get(n) = None, Store(n, u)
          PROVE  Proper'
        <3>1. config[n] = None /\ telegram[n] = None
            BY <2>1 DEF Get
        <3>2. telegram' = [telegram EXCEPT ![n] = u]
            BY <2>1 DEF Store
        <3>3. \A m \in Names : Get(m)' = IF m = n THEN u ELSE Get(m)
            BY <3>1, <3>2 DEF Get
        <3>4. \A m \in Names : Get(m) # u
            BY <2>1 DEF Addable, IsListed, Get
        <3>5. \A m, k \in Names : m # k /\ Get(m)' # None => Get(m)' # Get(k)'
            BY <3>3, <3>4 DEF Proper
        <3>6. Named(telegram') = Named(telegram) \union {n}
            BY <2>1, <3>2, RegistryAssumption DEF Named
        <3>7. Cardinality(Named(telegram')) <= Cardinality(Named(telegram)) + 1
            <4>1. IsFiniteSet(Named(telegram)) /\ Cardinality(Named(telegram)) \in Nat
                BY NamedIsFinite
            <4>2. Cardinality(Named(telegram) \union {n}) =
                      IF n \in Named(telegram) THEN Cardinality(Named(telegram))
                                               ELSE Cardinality(Named(telegram)) + 1
                BY <4>1, FS_AddElement
            <4> QED
                BY <3>6, <4>1, <4>2
        <3>8. Cardinality(Named(telegram')) <= MaxSites
            BY <3>7, <2>1, NamedIsFinite, RegistryAssumption DEF Addable, BelowLimit
        <3> QED
            BY <3>5, <3>8 DEF Proper
    <2>2. ASSUME NEW n \in Names, Remove(n) PROVE Proper'
        <3>1. telegram' = [telegram EXCEPT ![n] = None] /\ config[n] = None
            BY <2>2 DEF Remove, Editable
        <3>2. \A m \in Names : Get(m)' = IF m = n THEN None ELSE Get(m)
            BY <3>1 DEF Get
        <3>3. \A m, k \in Names : m # k /\ Get(m)' # None => Get(m)' # Get(k)'
            BY <3>2 DEF Proper
        <3>4. Named(telegram') \in SUBSET Named(telegram)
            BY <3>1 DEF Named
        <3>5. Cardinality(Named(telegram')) <= Cardinality(Named(telegram))
            BY <3>4, NamedIsFinite, FS_Subset
        <3>6. Cardinality(Named(telegram')) <= MaxSites
            BY <3>5, NamedIsFinite, RegistryAssumption DEF Proper
        <3> QED
            BY <3>3, <3>6 DEF Proper
    <2>3. CASE Restart
        <3>1. telegram' = telegram
            BY <2>3 DEF Restart, Loaded
        <3> QED
            BY <3>1 DEF Proper, Get
    <2>4. ASSUME NEW u \in Urls, NEW m \in Names, Add(u) \/ AddNamed(u, m) PROVE Proper'
        BY <2>1, <2>4, AddsOne
    <2>5. ASSUME NEW u \in Urls, Add(u) PROVE Proper'
        <3>1. <<Host[u], 1>> \in Names
            BY RegistryAssumption DEF Names
        <3> QED
            BY <2>4, <2>5, <3>1
    <2> QED
        BY <2>2, <2>3, <2>4, <2>5 DEF Next
<1> QED
    BY <1>1, RegistryInvariant, PTL DEF Spec, StaysProper
=============================================================================
