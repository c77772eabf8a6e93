------------------------- MODULE BundleReleaseProofs --------------------------
(***************************************************************************)
(* The theorems about BundleRelease.  The invariants are in                *)
(* BundleInvariants; here are the signatures, whose count needs the        *)
(* theorems on finite sets.                                                *)
(***************************************************************************)
EXTENDS BundleInvariants, FiniteSetTheorems, TLAPS

(* The signatures of a graph. *)

\* A set of keys K stands for the signatures at the places V of n.
Counted(K, V, n) ==
    /\ IsFiniteSet(K) /\ Cardinality(K) \in Nat
    /\ Cardinality(K) >= n => V = 1..n
    /\ Cardinality(K) > 0 => V # {}

\* n signatures give at most n keys, and n keys only if all of them count.
LEMMA CountingKeys ==
    ASSUME NEW n \in Nat, NEW V \in SUBSET (1..n), NEW f
    PROVE  Counted({f[i] : i \in V}, V, n)
  <1> DEFINE K == {f[i] : i \in V}
             g == [i \in V |-> f[i]]
  <1>1. IsFiniteSet(1..n) /\ Cardinality(1..n) = n
    <2>1. 1 \in Int /\ n \in Int /\ (IF 1 > n THEN 0 ELSE n - 1 + 1) = n
      BY SMT
    <2> QED
      BY <2>1, FS_Interval, Zenon
  <1>2. /\ IsFiniteSet(V) /\ Cardinality(V) <= n /\ (Cardinality(V) = n => V = 1..n)
    BY <1>1, FS_Subset, Zenon
  <1>3. g \in Surjection(V, K)
    BY Zenon DEF Surjection
  <1>4. IsFiniteSet(K) /\ Cardinality(K) <= Cardinality(V)
    BY <1>2, <1>3, FS_Surjection, Zenon
  <1>5. Cardinality(K) \in Nat /\ Cardinality(V) \in Nat
    BY <1>2, <1>4, FS_CardinalityType, Zenon
  <1>6. Cardinality({}) = 0
    BY FS_EmptySet, Zenon
  <1>7. V = {} => Cardinality(V) = 0
    BY ONLY <1>6, Zenon
  <1> HIDE DEF K
  <1>8. Cardinality(K) >= n => Cardinality(V) = n
    BY ONLY <1>2, <1>4, <1>5, n \in Nat, SMT
  <1>9. Cardinality(K) > 0 => Cardinality(V) # 0
    BY ONLY <1>4, <1>5, SMT
  <1>10. /\ IsFiniteSet(K) /\ Cardinality(K) \in Nat /\ (Cardinality(K) >= n => V = 1..n)
         /\ (Cardinality(K) > 0 => V # {})
    BY ONLY <1>2, <1>4, <1>5, <1>7, <1>8, <1>9, Zenon
  <1>11. Counted(K, V, n)
    BY ONLY <1>10, Zenon DEF Counted
  <1> QED
    BY ONLY <1>11, Zenon DEF K

\* What the resolver counts is what the policy asks for.
LEMMA SignedEnough ==
    ASSUME NEW b \in Bundles, NEW g, SignedBy(b, g), g.policy \in Policies
    PROVE  LET all == Range(b.signatures)
               good == {s \in all : Genuine(s, b.id, g)}
           IN CASE g.policy.kind = "all" -> good = all /\ good # {}
                [] g.policy.kind = "threshold" ->
                     Cardinality({g.keys[s.key].key : s \in good}) >= g.policy.threshold
                [] OTHER -> good # {}
  <1> DEFINE sigs == b.signatures
             n == Len(sigs)
             all == Range(sigs)
             good == {s \in all : Genuine(s, b.id, g)}
             required == IF g.policy.kind = "threshold" THEN g.policy.threshold
                         ELSE IF g.policy.kind = "all" THEN n ELSE 1
             key == [i \in DOMAIN sigs |-> g.keys[sigs[i].key].key]
             G == {g.keys[s.key].key : s \in good}
  <1>1. n \in Nat /\ DOMAIN sigs = 1..n
    <2>1. sigs \in Seq(Range(sigs))
      BY ONLY b \in Bundles, BundleAssumption, Zenon
    <2> HIDE DEF sigs
    <2> QED
      BY ONLY <2>1, SeqBasics, Zenon
  <1>2. PICK V \in SUBSET DOMAIN sigs :
          /\ \A i \in V : Genuine(sigs[i], b.id, g)
          /\ Cardinality({g.keys[sigs[i].key].key : i \in V}) >= required
    BY Zenon DEF SignedBy
  <1>3. required > 0
    BY Zenon DEF SignedBy
  <1> DEFINE K == {key[i] : i \in V}
  <1>4. K = {g.keys[sigs[i].key].key : i \in V}
    BY <1>2, Zenon
  <1>5. all = {sigs[i] : i \in 1..n}
    BY <1>1, Zenon DEF Range
  <1>6. \A i \in V : sigs[i] \in good /\ key[i] = g.keys[sigs[i].key].key
    BY <1>1, <1>2, <1>5, Zenon
  <1>7. V \in SUBSET (1..n)
    BY <1>1, Zenon
  <1> HIDE DEF key, n, sigs, all, required
  <1>8. /\ IsFiniteSet(K) /\ Cardinality(K) \in Nat
        /\ (Cardinality(K) >= n => V = 1..n) /\ (Cardinality(K) > 0 => V # {})
    <2>1. Counted(K, V, n)
      BY ONLY <1>1, <1>7, CountingKeys, Zenon
    <2> HIDE DEF K
    <2> QED
      BY ONLY <2>1, Zenon DEF Counted
  <1>9. Cardinality(K) >= required
    BY <1>2, <1>4, Zenon
  <1>10. good \subseteq all
    BY ONLY Zenon
  <1> HIDE DEF good
  <1>11. K \subseteq G
    <2>1. ASSUME NEW i \in V PROVE key[i] \in G
      <3>1. sigs[i] \in good /\ key[i] = g.keys[sigs[i].key].key
        BY ONLY <1>6, i \in V, Zenon
      <3> QED
        BY ONLY <3>1, Zenon
    <2> HIDE DEF G
    <2> QED
      BY ONLY <2>1, Zenon
  <1>12. CASE g.policy.kind = "all"
    <2>1. required = n /\ "all" # "threshold"
      BY <1>12, Zenon DEF required
    <2>2. V = 1..n
      BY ONLY <1>8, <1>9, <2>1, Zenon
    <2>3. V # {}
      <3>1. Cardinality(K) > 0
        BY ONLY <1>1, <1>3, <1>8, <1>9, <2>1, SMT
      <3> QED
        BY ONLY <1>8, <3>1, Zenon
    <2>4. good = all /\ good # {}
      <3>1. all \subseteq good
        BY ONLY <1>5, <1>6, <2>2, Zenon
      <3>2. good # {}
        BY ONLY <1>6, <2>3, Zenon
      <3> QED
        BY ONLY <1>10, <3>1, <3>2, Zenon
    <2> QED
      BY <1>12, <2>1, <2>4, Zenon DEF good, all, sigs
  <1>13. CASE g.policy.kind = "threshold"
    <2>1. required = g.policy.threshold /\ "all" # "threshold" /\ g.policy.threshold \in Nat
      BY <1>13, BundleAssumption, Zenon DEF required
    <2>2. IsFiniteSet(all)
      <3> DEFINE f == [i \in 1..n |-> sigs[i]]
      <3>1. f \in Surjection(1..n, all)
        BY ONLY <1>5, Zenon DEF Surjection
      <3>2. IsFiniteSet(1..n)
        BY ONLY <1>1, Counting, FS_Interval, Zenon
      <3> QED
        BY ONLY <3>1, <3>2, FS_Surjection, Zenon
    <2>3. IsFiniteSet(good)
      BY ONLY <1>10, <2>2, FS_Subset, Zenon
    <2>4. IsFiniteSet(G)
      <3> DEFINE f == [s \in good |-> g.keys[s.key].key]
      <3>1. f \in Surjection(good, G)
        BY Zenon DEF Surjection
      <3> QED
        BY ONLY <2>3, <3>1, FS_Surjection, Zenon
    <2> HIDE DEF G, K
    <2>5. Cardinality(K) <= Cardinality(G)
      BY ONLY <1>11, <2>4, FS_Subset, Zenon
    <2>6. Cardinality(G) \in Nat
      BY ONLY <2>4, FS_CardinalityType, Zenon
    <2>7. Cardinality(G) >= g.policy.threshold
      BY ONLY <1>8, <1>9, <2>1, <2>5, <2>6, SMT
    <2> QED
      BY <1>13, <2>1, <2>7, Zenon DEF G, good, all, sigs
  <1>14. CASE g.policy.kind # "all" /\ g.policy.kind # "threshold"
    <2>1. required = 1
      BY <1>14, Zenon DEF required
    <2>2. Cardinality(K) > 0
      BY ONLY <1>8, <1>9, <2>1, SMT
    <2>3. good # {}
      BY ONLY <1>6, <1>8, <2>2, Zenon
    <2> QED
      BY <1>14, <2>3, Zenon DEF good, all, sigs
  <1> QED
    BY <1>12, <1>13, <1>14, Zenon

\* The invariant says that a graph is sound.
LEMMA ResolverSound ==
    ASSUME ResolverInv PROVE GraphSound
  <1> DEFINE sel == graph.selected
  <1> SUFFICES ASSUME graph.status = "resolved", NEW id \in DOMAIN sel
               PROVE  /\ \A i \in DOMAIN sel[id].deps :
                           /\ sel[id].deps[i].id \in DOMAIN sel
                           /\ Satisfies(sel[sel[id].deps[i].id].version, sel[id].deps[i].constraint)
                           /\ Position(graph.order, sel[id].deps[i].id) < Position(graph.order, id)
                      /\ graph.mode = "verified" =>
                           LET all == Range(sel[id].signatures)
                               good == {s \in all : Genuine(s, id, graph)}
                           IN CASE graph.policy.kind = "all" -> good = all /\ good # {}
                                [] graph.policy.kind = "threshold" ->
                                     Cardinality({graph.keys[s.key].key : s \in good})
                                       >= graph.policy.threshold
                                [] OTHER -> good # {}
    BY Zenon DEF GraphSound
  <1>1. calls = <<>>
    <2>1. calls # <<>> => graph.status = "visiting"
      BY Stands, Zenon
    <2>2. "visiting" # "resolved"
      BY ONLY Zenon
    <2> QED
      BY <2>1, <2>2, Zenon
  <1>2. /\ SignedGraph(graph)
        /\ graph.mode = "verified" => graph.policy \in Policies
        /\ \E T, P : Complete(sel, graph.order, T, P)
    BY <1>1, Zenon DEF ResolverInv, Ended
  <1>3. PICK T, P : Complete(sel, graph.order, T, P)
    BY <1>2, Zenon
  <1>4. sel[id].id = id /\ sel[id] \in Bundles
    BY <1>3, Zenon DEF Complete, Times, Selection, Bundles, Published
  <1>5. ASSUME NEW i \in DOMAIN sel[id].deps
        PROVE  /\ sel[id].deps[i].id \in DOMAIN sel
               /\ Satisfies(sel[sel[id].deps[i].id].version, sel[id].deps[i].constraint)
               /\ Position(graph.order, sel[id].deps[i].id) < Position(graph.order, id)
    <2>1. id \in DOMAIN sel
      BY Zenon
    <2> HIDE DEF sel
    <2> QED
      BY ONLY <1>3, <1>5, <2>1, CompleteSound, Zenon
  <1>6. ASSUME graph.mode = "verified"
        PROVE  LET all == Range(sel[id].signatures)
                   good == {s \in all : Genuine(s, id, graph)}
               IN CASE graph.policy.kind = "all" -> good = all /\ good # {}
                    [] graph.policy.kind = "threshold" ->
                         Cardinality({graph.keys[s.key].key : s \in good}) >= graph.policy.threshold
                    [] OTHER -> good # {}
    <2>1. SignedBy(sel[id], graph) /\ graph.policy \in Policies
      BY <1>2, <1>6, Zenon DEF SignedGraph
    <2>2. PICK b \in Bundles : b = sel[id]
      BY <1>4, Zenon
    <2> HIDE DEF sel
    <2>3. SignedBy(b, graph) /\ b.id = id
      BY ONLY <1>4, <2>1, <2>2, Zenon
    <2>4. LET all == Range(b.signatures)
              good == {s \in all : Genuine(s, b.id, graph)}
          IN CASE graph.policy.kind = "all" -> good = all /\ good # {}
               [] graph.policy.kind = "threshold" ->
                    Cardinality({graph.keys[s.key].key : s \in good}) >= graph.policy.threshold
               [] OTHER -> good # {}
      BY ONLY <2>1, <2>3, b \in Bundles, SignedEnough, Zenon
    <2> QED
      BY ONLY <2>2, <2>3, <2>4, Zenon
  <1> QED
    BY <1>5, <1>6, Zenon
-----------------------------------------------------------------------------
(* The theorems. *)

\* A graph that resolve returns is sound, for every repository, keyring and
\* policy: constraints met, dependencies first, and in Verified mode signed as
\* the policy asks by keys that no one has revoked.
THEOREM ResolvedGraphSound == Spec => []GraphSound
  <1>1. Init => ResolverInv
    BY ResolverStarts, Zenon DEF Init
  <1>2. ResolverInv => GraphSound
    BY ResolverSound, Zenon
  <1> QED
    BY <1>1, <1>2, ResolverInductive, PTL DEF Spec

\* What follows a lock returns the contents and the order of the graph that the
\* lock was written from, and does not fail while the repository has them.
THEOREM LockAlwaysReproduces == Spec => []LockReproduces
  <1>1. Init => ResolverInv
    BY ResolverStarts, Zenon DEF Init
  <1>2. ResolverInv => LockReproduces
    BY ResolverReproduces, Zenon
  <1> QED
    BY <1>1, <1>2, ResolverInductive, PTL DEF Spec

\* No install and no crash leaves half a Bundle under a digest, where the
\* threads that install belong to one process.
THEOREM CacheStaysWhole == ASSUME OneProcess PROVE Spec => []CacheWhole
  <1>1. Init => CacheInv /\ ResolverInv
    BY InitCache, ResolverStarts, Zenon DEF Init
  <1>2. CacheInv /\ ResolverInv /\ [Next]_vars => (CacheInv /\ ResolverInv)'
    BY CacheInductive, ResolverInductive, Zenon
  <1>3. CacheInv => CacheWhole
    BY Zenon DEF CacheInv
  <1> QED
    BY <1>1, <1>2, <1>3, PTL DEF Spec

\* What the deployed lockfile names stays in the cache, whole.
THEOREM DeployedBundlesStay == ASSUME OneProcess PROVE Spec => []DeployedStaysWhole
  <1>1. Init => CacheInv /\ ResolverInv
    BY InitCache, ResolverStarts, Zenon DEF Init
  <1>2. CacheInv /\ ResolverInv /\ [Next]_vars => (CacheInv /\ ResolverInv)'
    BY CacheInductive, ResolverInductive, Zenon
  <1>3. CacheInv => DeployedStaysWhole
    BY Zenon DEF CacheInv
  <1> QED
    BY <1>1, <1>2, <1>3, PTL DEF Spec
=============================================================================
