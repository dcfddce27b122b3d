----------------------------- MODULE Scheduler ------------------------------
(***************************************************************************)
(* The capability-gated scheduler (src/scheduler/).  The binary heap is    *)
(* abstracted to the bag of queued priorities: pop returns an item of the  *)
(* smallest priority, ties in any order, and items differ in nothing else  *)
(* the queue looks at.                                                     *)
(***************************************************************************)
EXTENDS Topology, Bags

CONSTANTS
    Priorities,       \* priorities of the work items callers submit
    MaxQueue          \* capacity N of the work queue

ASSUME SchedulerConstants == Priorities \subseteq Nat /\ MaxQueue \in Nat

VARIABLE queue

SchedulerInit == queue = EmptyBag

QueueFull == BagCardinality(queue) >= MaxQueue

\* Mutant: the item is queued whatever the check returned.
ScheduleUngated(priority, cap) ==
    /\ CheckStep(cap, "SCHEDULE")
    /\ queue' = IF QueueFull THEN queue ELSE queue (+) SetToBag({priority})
    /\ result' = CheckResult(cap, "SCHEDULE")

\* Scheduler::schedule: the check first, with all its effects, and only if
\* it returned Ok the enqueue, which a full queue refuses.
Schedule(priority, cap) ==
    LET checked == CheckResult(cap, "SCHEDULE")
    IN  /\ CheckStep(cap, "SCHEDULE")
        /\ IF checked # "Ok"
           THEN queue' = queue /\ result' = checked
           ELSE IF QueueFull
           THEN queue' = queue /\ result' = "SchedulerInvariant"
           ELSE queue' = queue (+) SetToBag({priority}) /\ result' = "Ok"

MostUrgent == CHOOSE p \in BagToSet(queue) :
                  \A r \in BagToSet(queue) : p <= r

\* Scheduler::dequeue on a non-empty queue (on an empty one it is a no-op).
Dequeue ==
    /\ BagToSet(queue) # {}
    /\ queue' = queue (-) SetToBag({MostUrgent})
    /\ result' = "Dequeued"
=============================================================================
