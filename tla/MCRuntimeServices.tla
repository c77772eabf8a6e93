------------------------- MODULE MCRuntimeServices --------------------------
(* A small instance of RuntimeServices: two workers, a host thread, one slot in
   the queue and in the trace queue, two leases that exclude each other.  Where
   the caller runs what does not fit, the host thread works too, and submits
   fewer tasks. *)
EXTENDS RuntimeServices, TLC

CONSTANTS w1, w2, h, a, a2, b, b2, s, n, cpu, net

Call1(op) == [op |-> op]
Submits(op, t) == [op |-> op, task |-> t]
Releases(t) == [op |-> "release", of |-> t]

\* Two tasks that hold a lease into a continuation, as an asynchronous attempt
\* does, and one that submits a nested task and drops the pool.
Programs ==
    a :> <<Call1("acquire"), Submits("continue", a2)>>
    @@ a2 :> <<Releases(a)>>
    @@ b :> <<Call1("emit"), Call1("acquire"), Submits("continue", b2)>>
    @@ b2 :> <<Releases(b), Call1("emit"), Call1("flush")>>
    @@ s :> <<Submits("nest", n), Call1("shutdown")>>
    @@ n :> <<Call1("emit")>>

Capacity == cpu :> 1 @@ net :> 1
Request(units, priority, key, deadline) ==
    [units |-> units, priority |-> priority, key |-> key, deadline |-> deadline]
AllRequests ==
    a :> Request(cpu :> 1 @@ net :> 0, 0, "k1", 2) @@ b :> Request(cpu :> 1 @@ net :> 1, 1, "k2", 0)

EachPolicy ==
    {[pool |-> "reject", trace |-> "drop_oldest", todo |-> h :> <<a, b, s>>],
     [pool |-> "block", trace |-> "block", todo |-> h :> <<a, b, s>>],
     [pool |-> "caller_runs", trace |-> "drop_newest", todo |-> h :> <<b, s>>]}
=============================================================================
