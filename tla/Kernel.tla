------------------------------- MODULE Kernel -------------------------------
(***************************************************************************)
(* The running kernel: the policy gate, the resource ledger, the sealed    *)
(* topology graph and the scheduler, all writing one bounded audit log     *)
(* (BootState of src/boot/mod.rs, the Scheduler and the AuditLog its       *)
(* callers own).  The kernel is single-threaded: calls interleave but each *)
(* runs to completion.                                                     *)
(***************************************************************************)
EXTENDS Scheduler, FiniteSetsExt

vars == <<audit, permits, current_generation, used_nonces, revoked, epoch,
          result, balances, queue>>

Init == AuditInit /\ PolicyInit /\ LedgerInit /\ SchedulerInit

\* Mutant: the round's own event is written before the local graph is asked.
RunTopologyConsensusUnchecked(src, dst, reached) ==
    LET changed == AppendTo(audit, "TopologyChange", src,
                            IF reached THEN "Ok" ELSE "NotReached")
    IN  /\ audit' = changed
        /\ result' = IF reached THEN "Ok" ELSE "TopologyViolation"
        /\ permits' = permits \cup
              Permit(result', audit.next_seq, "TopologyChange", src, <<dst>>)

\* BootState::run_topology_consensus, with reached standing for the outcome
\* of the Raft round (leader elected and entry committed; see Raft.tla).  A
\* local refusal, AuditFull included, ends the call as a TopologyViolation;
\* the result of the second append is not looked at.
RunTopologyConsensus(src, dst, reached) ==
    LET local_ok  == TraverseResult(src, dst) = "Ok"
        traversed == AppendTo(audit, "TopologyTraverse", src,
                              TraverseInner(src, dst))
        changed   == AppendTo(traversed, "TopologyChange", src,
                              IF reached THEN "Ok" ELSE "NotReached")
    IN  /\ audit' = IF local_ok THEN changed ELSE traversed
        /\ result' = IF local_ok /\ reached THEN "Ok" ELSE "TopologyViolation"
        /\ permits' = permits
              \cup Permit(TraverseResult(src, dst), audit.next_seq,
                          "TopologyTraverse", src, <<dst>>)
              \cup Permit(result', traversed.next_seq,
                          "TopologyChange", src, <<dst>>)

-----------------------------------------------------------------------------

DoCheck ==
    /\ \E cap \in Caps, right \in Rights : Check(cap, right)
    /\ UNCHANGED <<balances, queue>>

DoRevoke ==
    /\ \E nonce \in Nonces : RevokeCapability(nonce)
    /\ UNCHANGED <<balances, queue>>

DoRotate == RotateGeneration /\ UNCHANGED <<balances, queue>>

DoDeduct(node, amount) ==
    /\ Deduct(node, amount)
    /\ UNCHANGED <<policyVars, queue>>

DoTraverse ==
    /\ \E src, dst \in Nodes : Traverse(src, dst)
    /\ UNCHANGED <<policyVars, balances, queue>>

DoTopologyConsensus ==
    /\ \E src, dst \in Nodes, reached \in BOOLEAN :
          RunTopologyConsensus(src, dst, reached)
    /\ UNCHANGED <<policyVars, balances, queue>>

DoSchedule ==
    /\ \E priority \in Priorities, cap \in Caps : Schedule(priority, cap)
    /\ UNCHANGED balances

DoDequeue ==
    /\ Dequeue
    /\ UNCHANGED <<audit, permits, policyVars, balances>>

Next ==
    \/ DoCheck
    \/ DoRevoke
    \/ DoRotate
    \/ \E node \in Nodes, amount \in Amounts : DoDeduct(node, amount)
    \/ DoTraverse
    \/ DoTopologyConsensus
    \/ DoSchedule
    \/ DoDequeue

Spec == Init /\ [][Next]_vars

-----------------------------------------------------------------------------
(* Properties *)

Errors == {"Expired", "Revoked", "Replayed", "WindowExhausted", "AuditFull",
           "QuotaExceeded", "TopologyViolation", "SchedulerInvariant"}

\* Every variable of the kernel stays in its range and every bounded store
\* within its capacity.
KernelTypeOK ==
    /\ Len(audit.events) <= MaxAuditEvents
    /\ audit.next_seq \in 0 .. MaxAuditEvents
    /\ current_generation \in 0 .. GenMax
    /\ used_nonces \subseteq Nonces /\ Cardinality(used_nonces) <= NonceWindow
    /\ revoked \subseteq Nonces /\ Cardinality(revoked) <= MaxRevocations
    /\ epoch \in 0 .. EpochMax
    /\ DOMAIN balances = DOMAIN Ceiling
    /\ \A n \in DOMAIN balances : balances[n] \in 0 .. Ceiling[n]
    /\ IsABag(queue) /\ BagToSet(queue) \subseteq Priorities
    /\ BagCardinality(queue) <= MaxQueue
    /\ result \in Results \cup Errors \cup {"Dequeued"}

\* No unlogged enforcement decision across all three enforcement points that
\* share the log: permitted checks (the scheduler's included), deductions and
\* traversals correspond one-to-one to permitted events, whatever the order
\* in which they compete for the last slots (policy.rs, quota.rs, graph.rs).
Accountable ==
    AccountableFor({"CapabilityCheck", "ResourceDeduction",
                    "TopologyTraverse"})

\* Resources are conserved against the log: what a node has left plus all
\* the deductions that were answered Ok is exactly its seeded ceiling, so a
\* denied or unloggable deduction never charges (metabolism/quota.rs).
Conservation ==
    \A n \in DOMAIN Ceiling :
        LET charged == {p \in permits : /\ p.kind = "ResourceDeduction"
                                        /\ p.actor = n}
        IN  balances[n] + MapThenSumSet(LAMBDA p : p.about[1], charged)
              = Ceiling[n]

\* Only edges of the manifest are ever traversed or agreed on, also when the
\* Raft round succeeds for an edge the local graph does not have (I4).
DeclaredEdgesOnly ==
    \A p \in permits :
        p.kind \in {"TopologyTraverse", "TopologyChange"} =>
            <<p.actor, p.about[1]>> \in ManifestEdges

\* Work enters the queue only in a step that also spends a fresh nonce and
\* appends its permitted event (scheduler/mod.rs lines 54-60).
QueueGated ==
    [][BagCardinality(queue') > BagCardinality(queue) =>
          /\ used_nonces' # used_nonces
          /\ Len(audit'.events) = Len(audit.events) + 1
          /\ audit'.events[Len(audit'.events)].kind = "CapabilityCheck"
          /\ audit'.events[Len(audit'.events)].outcome = "Ok"]_vars

\* A call that returns an error leaves generation, revocations, balances and
\* queue as they were.  The nonce window is the exception, in exactly two
\* cases: the log or the queue turned out to be full after the nonce was
\* consumed (policy.rs lines 74-85, scheduler/mod.rs lines 72-73).
DenialsPure ==
    [][result' \in Errors =>
          /\ UNCHANGED <<current_generation, revoked, epoch, balances, queue>>
          /\ used_nonces' # used_nonces =>
                result' \in {"AuditFull", "SchedulerInvariant"}]_vars


\* error.rs lines 179-180: "AuditFull: stopped before execution because the
\* audit record cannot be maintained.  No kernel state is modified."
AuditFullModifiesNothing ==
    [][result' = "AuditFull" =>
          UNCHANGED <<policyVars, balances, queue>>]_vars

\* boot/mod.rs lines 148-150: "An `EventKind::TopologyChange` audit event is
\* always appended for the consensus outcome": every round answered Ok has
\* its TopologyChange event.
ConsensusLogged == AccountableFor({"TopologyChange"})
=============================================================================
