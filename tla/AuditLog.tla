------------------------------ MODULE AuditLog ------------------------------
(***************************************************************************)
(* The append-only, hash-chained audit log of the kernel (src/audit/).     *)
(*                                                                         *)
(* The log is a bounded vector that is never drained: once it holds        *)
(* MaxAuditEvents events every later append is refused.  An event keeps    *)
(* the fields the kernel's own callers vary; their timestamp is always     *)
(* UNTIMED, and the denial class is a function of the denial reason, so    *)
(* one field, outcome, holds "Ok" (permitted) or the denial reason.        *)
(*                                                                         *)
(* permits is a history variable.  It records what callers were TOLD, one  *)
(* record per call that returned Ok, with the sequence number the log was  *)
(* about to hand out; relating it to the events is what the accountability *)
(* properties do.                                                          *)
(***************************************************************************)
EXTENDS Integers, Sequences, FiniteSets

CONSTANTS
    MaxAuditEvents,   \* MAX_AUDIT_EVENTS, the capacity of the vector
    GenesisHash,      \* the all-zero hash before the first event
    Hash(_, _)        \* SHA-256 of a previous hash and a tuple of fields

ASSUME AuditCapacity == MaxAuditEvents \in Nat

VARIABLES
    audit,            \* the log: [events, last_hash, next_seq]
    permits           \* history: the calls that returned Ok

auditVars == <<audit, permits>>

-----------------------------------------------------------------------------

EmptyLog == [events |-> << >>, last_hash |-> GenesisHash, next_seq |-> 0]

AuditInit == audit = EmptyLog /\ permits = {}

Full(log) == Len(log.events) >= MaxAuditEvents

IsFull == Full(audit)

\* Mutant: the outcome is left out of the hashed fields.
ComputeHashNoOutcome(prev, e) == Hash(prev, <<e.kind, e.actor, e.seq>>)

ComputeHash(prev, e) == Hash(prev, <<e.kind, e.actor, e.seq, e.outcome>>)

\* The event that append builds before it tries to push it.
NextEvent(log, kind, actor, outcome) ==
    LET e == [kind |-> kind, actor |-> actor, seq |-> log.next_seq,
              outcome |-> outcome]
    IN  [kind |-> kind, actor |-> actor, seq |-> log.next_seq,
         outcome |-> outcome, hash |-> ComputeHash(log.last_hash, e)]

\* Mutant: the chain head moves before the push is known to succeed.
AppendToHeadFirst(log, kind, actor, outcome) ==
    LET e == NextEvent(log, kind, actor, outcome)
    IN  IF Full(log)
        THEN [log EXCEPT !.last_hash = e.hash]
        ELSE [events |-> Append(log.events, e), last_hash |-> e.hash,
              next_seq |-> log.next_seq + 1]

\* Mutant: a full log makes room by dropping its oldest event.
AppendToOverwriting(log, kind, actor, outcome) ==
    LET e == NextEvent(log, kind, actor, outcome)
    IN  [events    |-> Append(IF Full(log) THEN Tail(log.events)
                                           ELSE log.events, e),
         last_hash |-> e.hash,
         next_seq  |-> log.next_seq + 1]

\* AuditLog::append: recorded when there is room, refused without any change
\* when there is none.  (The u64 counter cannot saturate: it counts events.)
AppendTo(log, kind, actor, outcome) ==
    LET e == NextEvent(log, kind, actor, outcome)
    IN  IF Full(log)
        THEN log
        ELSE [events |-> Append(log.events, e), last_hash |-> e.hash,
              next_seq |-> log.next_seq + 1]

\* AuditLog::verify_chain, over any sequence of events.
VerifyChain(evs) ==
    \A i \in 1 .. Len(evs) :
        evs[i].hash =
            ComputeHash(IF i = 1 THEN GenesisHash ELSE evs[i-1].hash, evs[i])

\* History: a call that will be logged under seq was answered with res.
Permit(res, seq, kind, actor, about) ==
    IF res = "Ok"
    THEN {[seq |-> seq, kind |-> kind, actor |-> actor, about |-> about]}
    ELSE {}

\* One append and the answer the caller got.
AppendEvent(kind, actor, outcome, res, about) ==
    /\ audit' = AppendTo(audit, kind, actor, outcome)
    /\ permits' = permits \cup Permit(res, audit.next_seq, kind, actor, about)

-----------------------------------------------------------------------------
(* Properties *)

\* verify_chain succeeds, the cached head is the newest event's hash, and
\* sequence numbers are dense from 0.
ChainOK(log) ==
    LET evs == log.events
    IN  /\ VerifyChain(evs)
        /\ log.last_hash = IF Len(evs) = 0 THEN GenesisHash
                                           ELSE evs[Len(evs)].hash
        /\ log.next_seq = Len(evs)
        /\ \A i \in 1 .. Len(evs) : evs[i].seq = i - 1

\* The log at rest is always a valid chain: a refused append moves neither
\* the head nor the counter (audit/log.rs append, verify_chain).
ChainIntact == ChainOK(audit)

\* Changing one field of one recorded event, or deleting an event that is
\* not the newest, makes verify_chain fail ("Any single-bit mutation in any
\* event or in the hash fields is detected", audit/log.rs line 177).
TamperEvident ==
    LET evs == audit.events
    IN  /\ \A i, j \in 1 .. Len(evs) : \A f \in DOMAIN evs[i] :
              evs[i][f] # evs[j][f] =>
                  ~VerifyChain([evs EXCEPT ![i] = [@ EXCEPT ![f] = evs[j][f]]])
        /\ \A i \in 1 .. Len(evs) - 1 :
              ~VerifyChain(SubSeq(evs, 1, i - 1)
                             \o SubSeq(evs, i + 1, Len(evs)))

\* Callers of the given kinds were told Ok exactly when the log says so:
\* every Ok has its own permitted event of that kind and actor, and every
\* permitted event stands for a call that returned Ok (error.rs lines
\* 109-110, "no unlogged enforcement decisions").
AccountableFor(kinds) ==
    LET evs == audit.events
    IN  /\ \A p \in permits : p.kind \in kinds =>
              /\ p.seq \in 0 .. Len(evs) - 1
              /\ evs[p.seq + 1].kind = p.kind
              /\ evs[p.seq + 1].actor = p.actor
              /\ evs[p.seq + 1].outcome = "Ok"
        /\ \A p, q \in permits :
              p.kind \in kinds /\ q.kind \in kinds /\ p.seq = q.seq => p = q
        /\ \A i \in 1 .. Len(evs) :
              evs[i].kind \in kinds /\ evs[i].outcome = "Ok" =>
                  \E p \in permits : p.seq = i - 1 /\ p.kind = evs[i].kind
=============================================================================
