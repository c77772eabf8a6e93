---------------------------- MODULE LeaseProvider ---------------------------
(***************************************************************************)
(* FairResourceLeaseProvider: atomic requests for several named resources, *)
(* waiters ordered by aged priority and rotating fairness keys, leases     *)
(* that expire.  A waiter is named by the task that asks, a lease by the   *)
(* task that keeps it: the next one it is granted takes its place.         *)
(* Time passes in ticks of the 100 ms after which a waiter ages.           *)
(***************************************************************************)
EXTENDS Integers, Sequences, FiniteSets, Functions

CONSTANTS
    Resources, LeaseCapacity,   \* resource -> units
    Requests,      \* task -> [units, priority, key, deadline (0: none)]
    Ttl,           \* lease_ttl_ms, in ticks
    MaxCalls,      \* bound on the calls of renew and of request_cancel
    NoKey

VARIABLES
    waiters,          \* tasks that wait, in the order of their sequence numbers
    age,              \* task -> ticks it has waited
    lease,            \* task -> "none", "held", "reclaimed" when it expired, "destroyed"
    left,             \* task -> ticks until its lease expires
    available, lastKey,
    cancelled,        \* tasks whose token was cancelled
    calls

leaseVars == <<waiters, age, lease, left, available, lastKey, cancelled,
               calls>>

LeaseInit(tasks) ==
    /\ waiters = <<>> /\ age = [t \in tasks |-> 0]
    /\ lease = [t \in tasks |-> "none"] /\ left = [t \in tasks |-> 0]
    /\ available = LeaseCapacity /\ lastKey = NoKey
    /\ cancelled = {} /\ calls = 0

Held == {t \in DOMAIN lease : lease[t] = "held"}
Expired == {t \in Held : left[t] = 0}

\* What the given leases hold of a resource, unit by unit, and how much it is.
Slots(ts, r) == UNION {{t} \X (1..Requests[t].units[r]) : t \in ts}
Units(ts, r) == Cardinality(Slots(ts, r))
Returned(ts) == [r \in Resources |-> available[r] + Units(ts, r)]

\* A request no capacity satisfies is refused at once.
Possible(t) == \A r \in Resources : Requests[t].units[r] <= LeaseCapacity[r]
Fits(t, free) == \A r \in Resources : Requests[t].units[r] <= free[r]

\* selected: no waiter has a higher effective priority, and at equal priority
\* another key than the last one served goes first, the oldest of those first.
Effective(t) == Requests[t].priority + age[t]
Selected(t, ws) ==
    LET rivals == {u \in Range(ws) : Effective(u) = Effective(t) /\ Requests[u].key # lastKey}
        before(u) == CHOOSE i \in DOMAIN ws : ws[i] = u
    IN /\ \A u \in Range(ws) : Effective(u) <= Effective(t)
       /\ \A u \in rivals : before(u) >= before(t)
       /\ Requests[t].key = lastKey => rivals = {}

\* sweep: expired leases are taken back.  In one mutant a lease that was taken
\* back is taken back again, in another only its holder gives a lease back.
SweepAgain == {t \in DOMAIN lease : lease[t] \in {"held", "reclaimed"} /\ left[t] = 0}
SweepNothing == {}
Sweep == Expired
Swept == [t \in DOMAIN lease |-> IF t \in Sweep THEN "reclaimed" ELSE lease[t]]

\* One turn of the loop of acquire, for the waiters ws: grant, give up on a
\* cancel or the deadline, or wait.
Late(t) == Requests[t].deadline > 0 /\ age[t] >= Requests[t].deadline
Turn(t, ws) ==
    LET free == Returned(Sweep)
    IN IF Selected(t, ws) /\ Fits(t, free) THEN "granted"
       ELSE IF t \in cancelled \/ Late(t) THEN "failed" ELSE "waits"

\* A lease the task still has is destroyed when the new one is assigned.
Acquire(t, ws, outcome) ==
    LET grant == outcome = "granted"
        free == Returned(Sweep \cup (IF grant THEN {t} \cap Held ELSE {}))
    IN /\ waiters' = IF outcome = "waits" THEN ws ELSE SelectSeq(ws, LAMBDA u : u # t)
       /\ lease' = IF grant THEN [Swept EXCEPT ![t] = "held"] ELSE Swept
       /\ available' = IF grant THEN [r \in Resources |-> free[r] - Requests[t].units[r]]
                                ELSE free
       /\ left' = IF grant THEN [left EXCEPT ![t] = Ttl] ELSE left
       /\ lastKey' = IF grant THEN Requests[t].key ELSE lastKey
       /\ age' = IF outcome = "waits" THEN age ELSE [age EXCEPT ![t] = 0]
       /\ cancelled' = IF outcome = "waits" THEN cancelled ELSE cancelled \ {t}
       /\ UNCHANGED calls

\* renew by the holder: an expired lease is released instead.  In a mutant it
\* is extended as long as no sweep has taken it back.
RenewLate(t) ==
    /\ lease[t] \in {"held", "reclaimed"} /\ calls < MaxCalls /\ calls' = calls + 1
    /\ left' = IF lease[t] = "held" THEN [left EXCEPT ![t] = Ttl] ELSE left
    /\ UNCHANGED <<waiters, age, lease, available, lastKey, cancelled>>
Renew(t) ==
    /\ lease[t] \in {"held", "reclaimed"} /\ calls < MaxCalls /\ calls' = calls + 1
    /\ left' = IF lease[t] = "held" /\ left[t] > 0 THEN [left EXCEPT ![t] = Ttl] ELSE left
    /\ lease' = [lease EXCEPT ![t] = IF t \in Expired THEN "reclaimed" ELSE @]
    /\ available' = Returned({t} \cap Expired)
    /\ UNCHANGED <<waiters, age, lastKey, cancelled>>

\* The destructor of the lease.
Release(t) ==
    /\ lease' = [lease EXCEPT ![t] = IF @ = "none" THEN @ ELSE "destroyed"]
    /\ left' = [left EXCEPT ![t] = 0]
    /\ available' = Returned({t} \cap Held)
    /\ UNCHANGED <<waiters, age, lastKey, cancelled, calls>>

\* available: asking what is free sweeps first, whoever asks.
AskAvailable ==
    /\ Sweep # {} /\ lease' = Swept /\ available' = Returned(Sweep)
    /\ UNCHANGED <<waiters, age, left, lastKey, cancelled, calls>>

RequestCancel(t) ==
    /\ t \in Range(waiters) /\ t \notin cancelled /\ cancelled' = cancelled \cup {t}
    /\ calls < MaxCalls /\ calls' = calls + 1
    /\ UNCHANGED <<waiters, age, lease, left, available, lastKey>>

\* A tick, while there is a lease that can expire or a deadline to come.
Tick ==
    /\ \/ \E t \in Held : left[t] > 0
       \/ \E t \in Range(waiters) : age[t] < Requests[t].deadline
    /\ left' = [t \in DOMAIN left |-> IF left[t] > 0 THEN left[t] - 1 ELSE 0]
    /\ age' = [t \in DOMAIN age |-> IF t \in Range(waiters) THEN age[t] + 1 ELSE age[t]]
    /\ UNCHANGED <<waiters, lease, available, lastKey, cancelled, calls>>
-----------------------------------------------------------------------------
\* Each unit is free or in exactly one lease that is held: expiry, renewal and
\* destruction give a lease back once between them, and nothing is granted
\* beyond the capacity.
CapacityConserved == \A r \in Resources : available[r] + Units(Held, r) = LeaseCapacity[r]
=============================================================================
