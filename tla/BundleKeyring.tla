---------------------------- MODULE BundleKeyring ----------------------------
(***************************************************************************)
(* The Keyring: keys that are added and revoked in memory, and the file    *)
(* the host saves it to and loads it from.  A Bundle id and a namespace    *)
(* are the sequences of their parts between the dots.                      *)
(***************************************************************************)
EXTENDS Integers, Sequences, FiniteSets, Functions

CONSTANTS
    FirstKeys,    \* the keyring at the start: key id -> KeyRecord
    LaterKeys,    \* keys that may be added
    NoFile

VARIABLES
    keyring,      \* key id -> [key, scopes, revoked]
    keyfile       \* the records in the file, or NoFile

keyringVars == <<keyring, keyfile>>

KeyringInit == keyring = FirstKeys /\ keyfile = NoFile

NamespaceMatch(id, scope) ==
    Len(scope) <= Len(id) /\ SubSeq(id, 1, Len(scope)) = scope

\* The ids of the keys that find_key returns for a Bundle.
Found(id) ==
    {k \in DOMAIN keyring :
        /\ ~keyring[k].revoked
        /\ keyring[k].scopes # {} => \E s \in keyring[k].scopes : NamespaceMatch(id, s)}

\* A std::map with the value v at x.
With(f, x, v) == [y \in DOMAIN f \cup {x} |-> IF y = x THEN v ELSE f[y]]

AddKey ==
    /\ \E k \in DOMAIN LaterKeys \ DOMAIN keyring : keyring' = With(keyring, k, LaterKeys[k])
    /\ UNCHANGED keyfile

RevokeKey ==
    /\ \E k \in DOMAIN keyring :
        ~keyring[k].revoked /\ keyring' = [keyring EXCEPT ![k].revoked = TRUE]
    /\ UNCHANGED keyfile

\* snapshot_json writes a record for each key, from_snapshot_json reads them
\* back and refuses a second record for an id.
Snapshot(ring) ==
    {[id |-> k, key |-> ring[k].key, scopes |-> ring[k].scopes, revoked |-> ring[k].revoked] :
        k \in DOMAIN ring}
Readable(file) == \A x, y \in file : x.id = y.id => x = y
FromSnapshot(file) ==
    [k \in {x.id : x \in file} |->
        LET x == CHOOSE y \in file : y.id = k
        IN [key |-> x.key, scopes |-> x.scopes, revoked |-> x.revoked]]

\* write_keyring_atomic: only what can be read back replaces the file.
WriteKeyring ==
    /\ Readable(Snapshot(keyring)) /\ keyfile' = Snapshot(keyring)
    /\ UNCHANGED keyring

LoadKeyring ==
    /\ keyfile # NoFile /\ keyring' = FromSnapshot(keyfile)
    /\ UNCHANGED keyfile

\* The keys that are revoked, in memory or in the file.
Distrusted ==
    {k \in DOMAIN keyring : keyring[k].revoked}
    \cup (IF keyfile = NoFile THEN {} ELSE {x.id : x \in {y \in keyfile : y.revoked}})
==============================================================================
