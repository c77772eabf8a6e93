----------------------------- MODULE TraceSink ------------------------------
(***************************************************************************)
(* AsyncTraceSink: emitters put events into a bounded queue and one thread *)
(* hands them to the downstream sink.                                      *)
(***************************************************************************)
EXTENDS Integers, Sequences

CONSTANTS TraceCapacity, NoEvent

\* The constructor refuses a capacity of zero.
ASSUME TraceAssumption == TraceCapacity \in Nat \ {0}

VARIABLES
    tracePolicy,           \* TraceQueueFullPolicy
    events, active,        \* the queue, and the event being exported
    closing, closed,       \* the destructor stops the thread; it has left
    taken, dropped, exported   \* the statistics

traceVars == <<tracePolicy, events, active, closing, closed, taken, dropped, exported>>

TraceInit ==
    /\ events = <<>> /\ active = NoEvent /\ closing = FALSE /\ closed = FALSE
    /\ taken = 0 /\ dropped = 0 /\ exported = 0

\* emit; with the Block policy it waits for space.  In a mutant the oldest
\* event goes without being counted.
Put(queue) == events' = queue /\ taken' = taken + 1
EmitForgets(e) ==
    /\ \/ Len(events) < TraceCapacity /\ Put(Append(events, e)) /\ UNCHANGED dropped
       \/ /\ Len(events) >= TraceCapacity /\ tracePolicy = "drop_newest"
          /\ dropped' = dropped + 1 /\ UNCHANGED <<events, taken>>
       \/ /\ Len(events) >= TraceCapacity /\ tracePolicy = "drop_oldest"
          /\ Put(Append(Tail(events), e)) /\ UNCHANGED dropped
    /\ UNCHANGED <<tracePolicy, active, closing, closed, exported>>
Emit(e) ==
    /\ \/ Len(events) < TraceCapacity /\ Put(Append(events, e)) /\ UNCHANGED dropped
       \/ /\ Len(events) >= TraceCapacity /\ tracePolicy = "drop_newest"
          /\ dropped' = dropped + 1 /\ UNCHANGED <<events, taken>>
       \/ /\ Len(events) >= TraceCapacity /\ tracePolicy = "drop_oldest"
          /\ dropped' = dropped + 1 /\ Put(Append(Tail(events), e))
    /\ UNCHANGED <<tracePolicy, active, closing, closed, exported>>

\* run: take an event; hand it over outside the lock; leave when told to and
\* the queue is empty.
ExportStart ==
    /\ active = NoEvent /\ events # <<>>
    /\ active' = Head(events) /\ events' = Tail(events)
    /\ UNCHANGED <<tracePolicy, closing, closed, taken, dropped, exported>>

ExportEnd ==
    /\ active # NoEvent
    /\ active' = NoEvent /\ exported' = exported + 1
    /\ UNCHANGED <<tracePolicy, events, closing, closed, taken, dropped>>

\* The destructor, once nobody holds the sink any more.
CloseSink ==
    /\ ~closing /\ closing' = TRUE
    /\ UNCHANGED <<tracePolicy, events, active, closed, taken, dropped, exported>>

ExporterLeaves ==
    /\ closing /\ ~closed /\ active = NoEvent /\ events = <<>> /\ closed' = TRUE
    /\ UNCHANGED <<tracePolicy, events, active, closing, taken, dropped, exported>>

\* flush: wait until the queue is empty and no export is under way.
Flushed == events = <<>> /\ active = NoEvent
-----------------------------------------------------------------------------
\* What was accepted is exported, evicted, in the queue or being exported, and
\* nothing of it is left when the destructor returns: the statistics of the
\* sink add up at every moment, with emitters and the exporter interleaved.
EventsConserved ==
    /\ taken = exported + Len(events) + (IF active = NoEvent THEN 0 ELSE 1)
             + (IF tracePolicy = "drop_oldest" THEN dropped ELSE 0)
    /\ closed => Flushed
=============================================================================
