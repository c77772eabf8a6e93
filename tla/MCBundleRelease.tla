-------------------------- MODULE MCBundleRelease --------------------------
(* A root Bundle with two dependencies, one of which depends on the other. *)
EXTENDS BundleRelease, TLC

CONSTANTS k1, k2, k3, t1, t2, p1

r == <<"org", "root">>
a == <<"org", "lib">>
b == <<"aux">>
c == <<"aux", "more">>

At(op, version) == [op |-> op, version |-> version]
On(id, constraint) == [id |-> id, constraint |-> constraint]
Sig(key, verifies) == [key |-> key, verifies |-> verifies]
Release(id, version, deps, signatures, digest) ==
    [id |-> id, version |-> version, deps |-> deps, signatures |-> signatures, digest |-> digest]

\* k1 and k2 are two names of one key; k2 is added later, and only for the
\* namespace of b.
Key(key, scopes) == [key |-> key, scopes |-> scopes, revoked |-> FALSE]
InitialKeys == k1 :> Key("one", {}) @@ k3 :> Key("other", {<<"org">>, <<"aux">>})
MoreKeys == k2 :> Key("one", {<<"aux">>})

TheRoot == Release(r, <<1, 0, 0>>,
    <<On(a, <<At("^", <<0, 1, 0>>)>>), On(b, <<At(">=", <<1, 0, 0>>), At("<", <<3, 0, 0>>)>>)>>,
    <<Sig(k1, TRUE), Sig(k3, TRUE)>>, "r1")
FirstBundles ==
    {Release(a, <<0, 1, 0>>, <<On(b, <<At("^", <<1, 0, 0>>)>>)>>, <<Sig(k1, TRUE), Sig(k3, TRUE)>>,
             "a1"),
     Release(b, <<1, 0, 0>>, <<>>, <<Sig(k1, TRUE), Sig(k2, TRUE), Sig(k3, FALSE)>>, "b1")}
\* A new b that the older a excludes, with a dependency that is not to be had;
\* a newer a without dependencies; for the first b other content, which closes a
\* cycle with the older a and excludes the newer one, and other signatures.
NextBundles ==
    {Release(b, <<2, 0, 0>>, <<On(c, <<At(">=", <<0, 0, 0>>)>>)>>, <<Sig(k3, TRUE), Sig(k3, TRUE)>>,
             "b2"),
     Release(a, <<0, 1, 1>>, <<>>, <<Sig(k1, TRUE), Sig(k3, TRUE)>>, "a2"),
     Release(b, <<1, 0, 0>>, <<On(a, <<At("=", <<0, 1, 0>>)>>)>>, <<Sig(k3, TRUE), Sig(k1, TRUE)>>,
             "b3"),
     Release(b, <<1, 0, 0>>, <<>>, <<Sig(k3, TRUE)>>, "b1")}
AllDigests == {"a1", "b1", "b2", "a2", "b3"}
AllPolicies ==
    {[kind |-> "all", threshold |-> 0], [kind |-> "any", threshold |-> 0],
     [kind |-> "threshold", threshold |-> 2], [kind |-> "threshold", threshold |-> 0],
     [kind |-> "disabled", threshold |-> 0]}
OneProcess == t1 :> p1 @@ t2 :> p1
ThreadsAlike == Permutations({t1, t2})
TwoFiles == 1..2
=============================================================================
