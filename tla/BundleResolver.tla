--------------------------- MODULE BundleResolver ---------------------------
(***************************************************************************)
(* Resolution of a root Bundle against a repository that keeps changing:   *)
(* the versions that Development mode chooses, the lock it leaves, the     *)
(* modes that follow the lock, and the signatures that Verified mode asks  *)
(* for under a keyring that changes too.  The recursion of visit is a      *)
(* stack of calls: one step takes up a dependency, or returns.             *)
(*                                                                         *)
(* A Bundle is [id, version, deps, signatures, digest]; a version is a     *)
(* triple, a constraint a sequence of [op, version] that all must hold.  A *)
(* signature names a key id and says whether its bytes verify.             *)
(***************************************************************************)
EXTENDS BundleKeyring

CONSTANTS
    RootBundle,
    InitialBundles, LaterBundles,   \* what the repository holds, and may be given
    Policies,                       \* signature policies: [kind, threshold]
    MaxUpdates,                     \* bound on additions and revocations
    NoLock

VARIABLES
    repository,   \* set of Bundles, one for an id and a version
    lock,         \* id -> [version, digest]
    locked,       \* the graph the lock was written from
    graph,        \* the last resolution, and what it started from
    calls,        \* the calls of visit under way: [id, next], next a dependency
    updates

resolverVars == <<repository, keyringVars, lock, locked, graph, calls, updates>>

Bundles == {RootBundle} \cup InitialBundles \cup LaterBundles

Less(v, w) ==
    \/ v[1] < w[1]
    \/ v[1] = w[1] /\ v[2] < w[2]
    \/ v[1] = w[1] /\ v[2] = w[2] /\ v[3] < w[3]

CaretUpper(v) ==
    IF v[1] > 0 THEN <<v[1] + 1, 0, 0>>
    ELSE IF v[2] > 0 THEN <<0, v[2] + 1, 0>> ELSE <<0, 0, v[3] + 1>>

SatisfiesAtom(v, atom) ==
    CASE atom.op = "^" -> ~Less(v, atom.version) /\ Less(v, CaretUpper(atom.version))
      [] atom.op = ">=" -> ~Less(v, atom.version)
      [] atom.op = "<" -> Less(v, atom.version)
      [] atom.op = "=" -> v = atom.version

Satisfies(v, constraint) ==
    constraint # <<>> /\ \A i \in DOMAIN constraint : SatisfiesAtom(v, constraint[i])

\* The distinct public keys behind the signatures that count: the first of
\* each key id, by a key the keyring has for this Bundle, whose bytes verify.
ValidSignatures(b) ==
    {i \in DOMAIN b.signatures :
        /\ \A j \in 1..(i - 1) : b.signatures[j].key # b.signatures[i].key
        /\ b.signatures[i].key \in Found(b.id)
        /\ b.signatures[i].verifies}
ValidPublicKeys(b) == {keyring[b.signatures[i].key].key : i \in ValidSignatures(b)}

SignaturesMet(b, policy) ==
    LET required == IF policy.kind = "threshold" THEN policy.threshold
                    ELSE IF policy.kind = "all" THEN Len(b.signatures) ELSE 1
    IN \/ policy.kind = "disabled"
       \/ required > 0 /\ Cardinality(ValidPublicKeys(b)) >= required

\* verified_production_profile: the policies it has options for.
ProductionPolicy(policy) ==
    policy.kind # "disabled" /\ (policy.kind = "threshold" => policy.threshold > 0)

\* What visit asks of a Bundle before it becomes part of the graph.
Admitted(b, g) ==
    /\ g.mode # "development" =>
         b.id \in DOMAIN lock /\ lock[b.id] = [version |-> b.version, digest |-> b.digest]
    /\ g.mode = "verified" => SignaturesMet(b, g.policy)

\* The Bundle a dependency leads to: of the locked version, or of the highest
\* version in the repository that the constraint allows.  In a mutant it is
\* the highest version whatever the lock says.
CandidatesNewest(dep, mode) ==
    LET fit == {b \in repository : b.id = dep.id /\ Satisfies(b.version, dep.constraint)}
    IN {b \in fit : \A c \in fit : ~Less(b.version, c.version)}
Candidates(dep, mode) ==
    LET fit == {b \in repository : b.id = dep.id /\ Satisfies(b.version, dep.constraint)}
    IN IF mode = "development"
       THEN {b \in fit : \A c \in fit : ~Less(b.version, c.version)}
       ELSE {b \in fit : dep.id \in DOMAIN lock /\ b.version = lock[dep.id].version}

\* A dependency on what is already selected has to agree with the choice.  In
\* a mutant any choice will do.
AgreesAlways(dep) == TRUE
Agrees(dep) == Satisfies(graph.selected[dep.id].version, dep.constraint)

\* The content of a Bundle, which its digest covers: all but the signatures.
Content(b) == [id |-> b.id, version |-> b.version, deps |-> b.deps, digest |-> b.digest]
Contents(selected) == [id \in DOMAIN selected |-> Content(selected[id])]

\* Published Bundles are one for an id and a version, no two contents have one
\* digest, and a threshold is unsigned.
ASSUME BundleAssumption ==
    /\ \A b \in Bundles :
         b.deps \in Seq(Range(b.deps)) /\ b.signatures \in Seq(Range(b.signatures))
    /\ \A b, c \in InitialBundles : b.id = c.id /\ b.version = c.version => b = c
    /\ \A b, c \in Bundles : b.digest = c.digest => Content(b) = Content(c)
    /\ \A p \in Policies : p.kind = "threshold" => p.threshold \in Nat

LockOf(selected) ==
    [id \in DOMAIN selected |->
        [version |-> selected[id].version, digest |-> selected[id].digest]]

Active == {calls[i].id : i \in DOMAIN calls}
Top == calls[Len(calls)]
Continued(stack) == [stack EXCEPT ![Len(stack)].next = @ + 1]
Empty == [selected |-> <<>>, order |-> <<>>]
-----------------------------------------------------------------------------
ResolverInit ==
    /\ KeyringInit /\ repository = InitialBundles /\ updates = 0
    /\ lock = NoLock /\ locked = Empty /\ calls = <<>>
    /\ graph = [status |-> "none", mode |-> "none", policy |-> "none", selected |-> <<>>,
                order |-> <<>>, keys |-> FirstKeys, distrusted |-> {}, held |-> FALSE]

\* A new Bundle, other content or other signatures for a version that exists.
Publish ==
    /\ calls = <<>> /\ updates < MaxUpdates /\ updates' = updates + 1
    /\ \E b \in LaterBundles \ repository :
        repository' = {c \in repository : <<c.id, c.version>> # <<b.id, b.version>>} \cup {b}
    /\ UNCHANGED <<keyringVars, lock, locked, graph, calls>>

ChangeKeyring ==
    /\ calls = <<>>
    /\ \/ (AddKey \/ RevokeKey) /\ updates < MaxUpdates /\ updates' = updates + 1
       \/ (WriteKeyring \/ LoadKeyring) /\ UNCHANGED updates
    /\ UNCHANGED <<repository, lock, locked, graph, calls>>

\* visit throws, and resolve returns no graph.
Thrown(g) ==
    /\ graph' = [g EXCEPT !.status = "failed", !.selected = <<>>, !.order = <<>>]
    /\ calls' = <<>>

\* A call of visit.
Enter(b, g) ==
    \/ /\ Admitted(b, g)
       /\ graph' = [g EXCEPT !.selected = With(@, b.id, b)]
       /\ calls' = Append(calls, [id |-> b.id, next |-> 1])
    \/ ~Admitted(b, g) /\ Thrown(g)

\* Whether the repository has the contents that the lock names.
Held ==
    \A id \in DOMAIN locked.selected \ {RootBundle.id} :
        \E b \in repository : Content(b) = Content(locked.selected[id])

Resolve(mode, policy) ==
    /\ calls = <<>>
    /\ Enter(RootBundle,
             [status |-> "visiting", mode |-> mode, policy |-> policy, selected |-> <<>>,
              order |-> <<>>, keys |-> keyring, distrusted |-> Distrusted,
              held |-> mode # "development" /\ Held])
    /\ UNCHANGED <<repository, keyringVars, lock, locked, updates>>

ResolveDevelopment == Resolve("development", "none")

ResolveLocked ==
    /\ lock # NoLock
    /\ \/ Resolve("locked", "none")
       \/ \E p \in Policies : ProductionPolicy(p) /\ Resolve("verified", p)

\* The next dependency of the innermost call: a cycle, a Bundle that is
\* selected, or a Bundle of the repository that is visited.
Depend ==
    /\ calls # <<>> /\ Top.next \in DOMAIN graph.selected[Top.id].deps
    /\ LET dep == graph.selected[Top.id].deps[Top.next]
           fit == Candidates(dep, graph.mode)
       IN \/ dep.id \in Active /\ Thrown(graph)
          \/ /\ dep.id \in DOMAIN graph.selected \ Active
             /\ \/ Agrees(dep) /\ calls' = Continued(calls) /\ UNCHANGED graph
                \/ ~Agrees(dep) /\ Thrown(graph)
          \/ /\ dep.id \notin DOMAIN graph.selected
             /\ \/ \E b \in fit : Enter(b, graph)
                \/ fit = {} /\ Thrown(graph)
    /\ UNCHANGED <<repository, keyringVars, lock, locked, updates>>

\* A call returns; the last one ends the resolution, which in Development mode
\* leaves a lock.
Return ==
    /\ calls # <<>> /\ Top.next \notin DOMAIN graph.selected[Top.id].deps
    /\ LET last == Len(calls) = 1
       IN /\ calls' = IF last THEN <<>> ELSE Continued(SubSeq(calls, 1, Len(calls) - 1))
          /\ graph' = [graph EXCEPT !.order = Append(@, Top.id),
                                    !.status = IF last THEN "resolved" ELSE @]
          /\ IF last /\ graph.mode = "development"
             THEN /\ lock' = LockOf(graph.selected)
                  /\ locked' = [selected |-> graph.selected, order |-> graph'.order]
             ELSE UNCHANGED <<lock, locked>>
    /\ UNCHANGED <<repository, keyringVars, updates>>
-----------------------------------------------------------------------------
Genuine(s, id, g) ==
    /\ s.verifies /\ s.key \in DOMAIN g.keys \ g.distrusted
    /\ \/ g.keys[s.key].scopes = {}
       \/ \E scope \in g.keys[s.key].scopes : NamespaceMatch(id, scope)
Position(order, id) == CHOOSE i \in DOMAIN order : order[i] = id

\* A graph that resolve returns meets every constraint of every Bundle in it,
\* orders each Bundle after its dependencies, and in Verified mode holds only
\* Bundles that enough independent keys have signed: as many distinct public
\* keys as the threshold, or, where the policy is All, every signature.  A key
\* counts for its namespaces only, and not once it is revoked, in memory or in
\* the keyring file: a revocation that was saved is never forgotten.
GraphSound ==
    LET sel == graph.selected
    IN graph.status = "resolved" => \A id \in DOMAIN sel :
        /\ \A i \in DOMAIN sel[id].deps :
             LET dep == sel[id].deps[i]
             IN /\ dep.id \in DOMAIN sel /\ Satisfies(sel[dep.id].version, dep.constraint)
                /\ Position(graph.order, dep.id) < Position(graph.order, id)
        /\ graph.mode = "verified" =>
             LET all == Range(sel[id].signatures)
                 good == {s \in all : Genuine(s, id, graph)}
             IN CASE graph.policy.kind = "all" -> good = all /\ good # {}
                  [] graph.policy.kind = "threshold" ->
                       Cardinality({graph.keys[s.key].key : s \in good}) >= graph.policy.threshold
                  [] OTHER -> good # {}

\* A lock pins the graph it was written from: whatever is published later, a
\* mode that follows the lock returns a graph of exactly those contents in that
\* order, or none; and Locked mode does not fail as long as the repository has
\* the locked contents.
LockReproduces ==
    graph.mode \in {"locked", "verified"} =>
        /\ graph.status = "resolved" =>
             /\ Contents(graph.selected) = Contents(locked.selected)
             /\ graph.order = locked.order
        /\ graph.mode = "locked" /\ graph.held => graph.status # "failed"
=============================================================================
