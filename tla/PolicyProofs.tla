---------------------------- MODULE PolicyProofs ----------------------------
(***************************************************************************)
(* The capability gate, for every set of capabilities, every capacity,     *)
(* every saturation point and every hash function.                         *)
(*                                                                         *)
(* NoReplay alone is not inductive: it does not say why the next check of  *)
(* a spent token is refused.  Windowed does: what was authorised belongs   *)
(* to a generation that is over, or its nonce is still in the window.      *)
(***************************************************************************)
EXTENDS Policy, AuditLogProofs, FiniteSetTheorems

\* Every token the gate authorised belongs to an earlier generation or has
\* its nonce in the replay window (policy.rs check_inner, rotate_generation).
Windowed ==
    \A p \in permits :
        /\ p.kind = "CapabilityCheck"
        /\ p.about \in Nat \X Nonces
        /\ p.about[1] <= current_generation
        /\ p.about[1] = current_generation /\ current_generation < GenMax
             => p.about[2] \in used_nonces

\* The inductive invariant of the gate.
GateInv ==
    /\ GateTypeOK
    /\ IsFiniteSet(used_nonces) /\ IsFiniteSet(revoked)
    /\ IsLog(audit.events)
    /\ ChainIntact
    /\ Windowed
    /\ ChecksAccountable
    /\ NoReplay

-----------------------------------------------------------------------------

\* A new policy with an empty log (Policy::new) satisfies the invariant.
LEMMA GateInitInv == GateInit => GateInv
<1> SUFFICES ASSUME GateInit PROVE GateInv
  OBVIOUS
<1> USE DEF GateInit, AuditInit, PolicyInit, EmptyLog
<1>1. audit.events = << >> /\ Len(audit.events) = 0
  OBVIOUS
<1>2. IsLog(audit.events)
  BY <1>1 DEF IsLog
<1>3. ChainIntact
  BY <1>1 DEF ChainIntact, ChainOK, VerifyChain
<1>4. IsFiniteSet(used_nonces) /\ IsFiniteSet(revoked)
  BY FS_EmptySet
<1>5. GateTypeOK
  BY <1>1, FS_EmptySet, PolicyConstants, AuditCapacity DEF GateTypeOK, Results
<1>6. Windowed /\ ChecksAccountable /\ NoReplay
  BY <1>1 DEF Windowed, ChecksAccountable, AccountableFor, NoReplay
<1> QED BY <1>2, <1>3, <1>4, <1>5, <1>6 DEF GateInv

\* Policy::check, when it authorises the token: there was room in the log and
\* in the window, and the token had never been authorised before.
LEMMA OkIsFresh ==
    ASSUME GateInv, NEW cap \in Caps, NEW right \in Rights,
           CheckResult(cap, right) = "Ok"
    PROVE  /\ CheckInner(cap, right) = "Ok"
           /\ ~IsFull
           /\ cap.generation = current_generation
           /\ cap.nonce \in Nonces
           /\ cap.nonce \notin revoked
           /\ cap.nonce \notin used_nonces
           /\ cap.generation < GenMax =>
                \A p \in permits : p.about # Token(cap)
<1>1. CheckInner(cap, right) = "Ok" /\ ~IsFull
  BY DEF CheckResult
<1>2. /\ cap.generation = current_generation
      /\ cap.nonce \notin revoked
      /\ cap.nonce \notin used_nonces
  BY <1>1 DEF CheckInner, Authorises
<1>3. cap.generation < GenMax => \A p \in permits : p.about # Token(cap)
  BY <1>2 DEF GateInv, Windowed, Token
<1> QED BY <1>1, <1>2, <1>3, PolicyConstants

\* Every verdict but "Ok" leaves the window alone, and the window never
\* outgrows its capacity.
LEMMA CheckKeepsWindow ==
    ASSUME GateInv, NEW cap \in Caps, NEW right \in Rights,
           CheckStep(cap, right)
    PROVE  /\ used_nonces' \subseteq Nonces
           /\ used_nonces \subseteq used_nonces'
           /\ IsFiniteSet(used_nonces')
           /\ Cardinality(used_nonces') <= NonceWindow
<1>1. CASE CheckInner(cap, right) = "Ok"
  <2>1. used_nonces' = used_nonces \cup {cap.nonce}
    BY <1>1 DEF CheckStep
  <2>2. /\ cap.nonce \notin used_nonces
        /\ ~(Cardinality(used_nonces) >= NonceWindow)
    BY <1>1 DEF CheckInner
  <2>3. /\ IsFiniteSet(used_nonces')
        /\ Cardinality(used_nonces') = Cardinality(used_nonces) + 1
    BY <2>1, <2>2, FS_AddElement DEF GateInv
  <2>4. Cardinality(used_nonces) \in Nat
    BY FS_CardinalityType DEF GateInv
  <2> QED BY <2>1, <2>2, <2>3, <2>4, PolicyConstants DEF GateInv, GateTypeOK
<1>2. CASE CheckInner(cap, right) # "Ok"
  <2>1. used_nonces' = used_nonces
    BY <1>2 DEF CheckStep
  <2> QED BY <2>1 DEF GateInv, GateTypeOK
<1> QED BY <1>1, <1>2

\* What a check does to the log: nothing when it is full; otherwise one event
\* with the verdict is added and the earlier events stay.
LEMMA CheckLogs ==
    ASSUME GateInv, NEW cap \in Caps, NEW right \in Rights,
           CheckStep(cap, right)
    PROVE  /\ Len(audit.events) \in Nat
           /\ audit.next_seq = Len(audit.events)
           /\ IsFull => audit' = audit
           /\ ~IsFull =>
                /\ Len(audit.events) < MaxAuditEvents
                /\ Len(audit'.events) = Len(audit.events) + 1
                /\ \A i \in 1 .. Len(audit.events) :
                      audit'.events[i] = audit.events[i]
                /\ SubSeq(audit'.events, 1, Len(audit.events)) = audit.events
                /\ audit'.events[Len(audit.events) + 1].kind = "CapabilityCheck"
                /\ audit'.events[Len(audit.events) + 1].actor = cap.target
                /\ audit'.events[Len(audit.events) + 1].outcome =
                      CheckInner(cap, right)
           /\ IsLog(audit'.events)
           /\ ChainIntact'
<1> DEFINE verdict == CheckInner(cap, right)
           e == NextEvent(audit, "CapabilityCheck", cap.target, verdict)
<1>1. audit' = AppendTo(audit, "CapabilityCheck", cap.target, verdict)
  BY DEF CheckStep, AppendEvent
<1>2. IsLog(audit.events) /\ ChainOK(audit)
  BY DEF GateInv, ChainIntact
<1>3. IsLog(audit'.events) /\ ChainOK(audit')
  BY <1>1, <1>2, AppendToKeepsChain
<1>4. Len(audit.events) \in Nat /\ audit.next_seq = Len(audit.events)
  BY <1>2, AppendFacts DEF ChainOK
<1>5. IsFull => audit' = audit
  BY <1>1 DEF AppendTo, IsFull
<1>6. ASSUME ~IsFull
      PROVE  /\ Len(audit.events) < MaxAuditEvents
             /\ audit'.events = Append(audit.events, e)
  BY <1>1, <1>4, <1>6, AuditCapacity DEF AppendTo, IsFull, Full
<1>7. /\ e.kind = "CapabilityCheck"
      /\ e.actor = cap.target
      /\ e.outcome = verdict
  BY DEF NextEvent
<1> HIDE DEF e, verdict
<1>8. ~IsFull =>
        /\ Len(audit'.events) = Len(audit.events) + 1
        /\ \A i \in 1 .. Len(audit.events) :
              audit'.events[i] = audit.events[i]
        /\ SubSeq(audit'.events, 1, Len(audit.events)) = audit.events
        /\ audit'.events[Len(audit.events) + 1] = e
  <2> DEFINE t == Append(audit.events, e)
  <2>1. /\ Len(t) = Len(audit.events) + 1
        /\ \A i \in 1 .. Len(audit.events) : t[i] = audit.events[i]
        /\ SubSeq(t, 1, Len(audit.events)) = audit.events
        /\ t[Len(audit.events) + 1] = e
    <3>1. IsLog(audit.events)
      BY <1>2
    <3>2. Len(t) = Len(audit.events) + 1
      BY <3>1, AppendFacts, Zenon
    <3>3. \A i \in 1 .. Len(audit.events) : t[i] = audit.events[i]
      BY <3>1, AppendFacts, ZenonT(60)
    <3>4. SubSeq(t, 1, Len(audit.events)) = audit.events
      BY <3>1, AppendFacts, Zenon
    <3>5. t[Len(audit.events) + 1] = e
      BY <3>1, AppendFacts, Zenon
    <3> QED BY <3>2, <3>3, <3>4, <3>5, Zenon
  <2>2. ~IsFull => audit'.events = t
    BY <1>6, Zenon
  <2> HIDE DEF t
  <2> QED BY <2>1, <2>2, Zenon
<1>9. ~IsFull =>
        /\ audit'.events[Len(audit.events) + 1].kind = "CapabilityCheck"
        /\ audit'.events[Len(audit.events) + 1].actor = cap.target
        /\ audit'.events[Len(audit.events) + 1].outcome = CheckInner(cap, right)
  BY <1>7, <1>8, Zenon DEF verdict
<1>10. ChainIntact'
  BY <1>3 DEF ChainIntact
<1> QED BY <1>3, <1>4, <1>5, <1>6, <1>8, <1>9, <1>10, Zenon

\* What a check adds to the history of authorised tokens.
LEMMA CheckPermits ==
    ASSUME NEW cap \in Caps, NEW right \in Rights, CheckStep(cap, right)
    PROVE  IF CheckResult(cap, right) = "Ok"
           THEN permits' = permits \cup
                  {[seq |-> audit.next_seq, kind |-> "CapabilityCheck",
                    actor |-> cap.target, about |-> Token(cap)]}
           ELSE permits' = permits
BY DEF CheckStep, AppendEvent, Permit

\* A check keeps the correspondence of answers and events.
LEMMA CheckKeepsAccountable ==
    ASSUME GateInv, NEW cap \in Caps, NEW right \in Rights,
           CheckStep(cap, right)
    PROVE  ChecksAccountable'
<1> DEFINE evs == audit.events
           new == [seq |-> audit.next_seq, kind |-> "CapabilityCheck",
                   actor |-> cap.target, about |-> Token(cap)]
<1>1. /\ \A p \in permits :
            /\ p.kind = "CapabilityCheck"
            /\ p.seq \in 0 .. Len(evs) - 1
            /\ evs[p.seq + 1].kind = p.kind
            /\ evs[p.seq + 1].actor = p.actor
            /\ evs[p.seq + 1].outcome = "Ok"
      /\ \A p, q \in permits : p.seq = q.seq => p = q
      /\ \A i \in 1 .. Len(evs) :
            evs[i].kind = "CapabilityCheck" /\ evs[i].outcome = "Ok" =>
               \E p \in permits : p.seq = i - 1 /\ p.kind = evs[i].kind
  BY DEF GateInv, Windowed, ChecksAccountable, AccountableFor
<1>2. CASE IsFull
  <2>1. audit' = audit /\ permits' = permits
    BY <1>2, CheckLogs, CheckPermits DEF CheckResult
  <2> QED BY <2>1 DEF GateInv, ChecksAccountable, AccountableFor
<1> DEFINE Backed(p) == /\ p.seq \in 0 .. Len(audit'.events) - 1
                        /\ audit'.events[p.seq + 1].kind = p.kind
                        /\ audit'.events[p.seq + 1].actor = p.actor
                        /\ audit'.events[p.seq + 1].outcome = "Ok"
<1>3. ASSUME ~IsFull, NEW p \in permits
      PROVE  Backed(p)
  <2>1. p.seq \in 0 .. Len(evs) - 1 /\ p.seq + 1 \in 1 .. Len(evs)
    BY <1>1, CheckLogs
  <2>2. audit'.events[p.seq + 1] = evs[p.seq + 1]
    BY <1>3, <2>1, CheckLogs
  <2>3. p.seq \in 0 .. Len(audit'.events) - 1
    BY <1>3, <2>1, CheckLogs
  <2> QED BY <1>1, <2>2, <2>3
<1>4. CASE ~IsFull /\ CheckInner(cap, right) # "Ok"
  <2>1. permits' = permits
    BY <1>4, CheckPermits DEF CheckResult
  <2>2. \A i \in 1 .. Len(audit'.events) :
            audit'.events[i].kind = "CapabilityCheck"
              /\ audit'.events[i].outcome = "Ok" =>
               \E p \in permits : p.seq = i - 1 /\ p.kind = audit'.events[i].kind
    <3> TAKE i \in 1 .. Len(audit'.events)
    <3>1. CASE i \in 1 .. Len(evs)
      <4>1. audit'.events[i] = evs[i]
        BY <1>4, <3>1, CheckLogs
      <4> QED BY <1>1, <3>1, <4>1
    <3>2. CASE i = Len(evs) + 1
      BY <1>4, <3>2, CheckLogs
    <3> QED BY <1>4, <3>1, <3>2, CheckLogs
  <2> QED BY <1>1, <1>4, <1>3, <2>1, <2>2 DEF ChecksAccountable, AccountableFor
<1>5. CASE ~IsFull /\ CheckInner(cap, right) = "Ok"
  <2>1. permits' = permits \cup {new}
    BY <1>5, CheckPermits DEF CheckResult
  <2>2. /\ new.seq = Len(evs)
        /\ new.kind = "CapabilityCheck"
        /\ new.actor = cap.target
    BY CheckLogs
  <2> HIDE DEF new
  <2>3. \A p \in permits' : Backed(p)
    <3> TAKE p \in permits'
    <3>1. CASE p = new
      BY <1>5, <2>2, <3>1, CheckLogs
    <3>2. CASE p \in permits
      BY <1>5, <1>3, <3>2
    <3> QED BY <2>1, <3>1, <3>2
  <2>4. \A p, q \in permits' : p.seq = q.seq => p = q
    BY <1>1, <2>1, <2>2, CheckLogs
  <2>5. \A i \in 1 .. Len(audit'.events) :
            audit'.events[i].kind = "CapabilityCheck"
              /\ audit'.events[i].outcome = "Ok" =>
               \E p \in permits' : p.seq = i - 1 /\ p.kind = audit'.events[i].kind
    <3> TAKE i \in 1 .. Len(audit'.events)
    <3>1. CASE i \in 1 .. Len(evs)
      <4>1. audit'.events[i] = evs[i]
        BY <1>5, <3>1, CheckLogs
      <4> QED BY <1>1, <2>1, <3>1, <4>1
    <3>2. CASE i = Len(evs) + 1
      BY <1>5, <2>1, <2>2, <3>2, CheckLogs
    <3> QED BY <1>5, <3>1, <3>2, CheckLogs
  <2> QED BY <2>3, <2>4, <2>5 DEF ChecksAccountable, AccountableFor
<1> QED BY <1>2, <1>4, <1>5

\* Policy::check keeps the invariant.
LEMMA CheckKeepsInv ==
    ASSUME GateInv, NEW cap \in Caps, NEW right \in Rights, Check(cap, right)
    PROVE  GateInv'
<1>1. CheckStep(cap, right) /\ result' = CheckResult(cap, right)
  BY DEF Check
<1>2. UNCHANGED <<current_generation, revoked, epoch>>
  BY <1>1 DEF CheckStep
<1>3. CheckInner(cap, right) \in Verdicts /\ result' \in Results
  BY <1>1 DEF CheckInner, CheckResult, Verdicts, Results
<1>4. IsLog(audit'.events) /\ ChainIntact' /\ ChecksAccountable'
  BY <1>1, CheckLogs, CheckKeepsAccountable
<1>5. /\ Len(audit'.events) <= MaxAuditEvents
      /\ \A i \in 1 .. Len(audit'.events) : audit'.events[i].outcome \in Verdicts
  <2>1. CASE IsFull
    BY <1>1, <2>1, CheckLogs DEF GateInv, GateTypeOK
  <2>2. CASE ~IsFull
    <3>1. Len(audit'.events) <= MaxAuditEvents
      BY <1>1, <2>2, CheckLogs, AuditCapacity
    <3>2. ASSUME NEW i \in 1 .. Len(audit'.events)
          PROVE  audit'.events[i].outcome \in Verdicts
      <4>1. CASE i \in 1 .. Len(audit.events)
        BY <1>1, <2>2, <4>1, CheckLogs DEF GateInv, GateTypeOK
      <4>2. CASE i = Len(audit.events) + 1
        BY <1>1, <1>3, <2>2, <4>2, CheckLogs
      <4> QED BY <1>1, <2>2, <4>1, <4>2, CheckLogs, SMTT(20)
    <3> QED BY <3>1, <3>2
  <2> QED BY <2>1, <2>2
<1>6. audit'.next_seq \in 0 .. MaxAuditEvents
  <2>1. audit'.next_seq = Len(audit'.events) /\ Len(audit'.events) \in Nat
    BY <1>4, AppendFacts DEF ChainIntact, ChainOK
  <2> QED BY <1>5, <2>1, AuditCapacity
<1>7. GateTypeOK'
  BY <1>1, <1>2, <1>3, <1>5, <1>6, CheckKeepsWindow DEF GateInv, GateTypeOK
<1>8. IsFiniteSet(used_nonces') /\ IsFiniteSet(revoked')
  BY <1>1, <1>2, CheckKeepsWindow DEF GateInv
<1>9. Windowed' /\ NoReplay'
  <2> DEFINE new == [seq |-> audit.next_seq, kind |-> "CapabilityCheck",
                     actor |-> cap.target, about |-> Token(cap)]
  <2>1. CASE CheckResult(cap, right) # "Ok"
    <3>1. permits' = permits /\ used_nonces \subseteq used_nonces'
      BY <1>1, <2>1, CheckPermits, CheckKeepsWindow
    <3> QED BY <1>2, <3>1 DEF GateInv, Windowed, NoReplay
  <2>2. CASE CheckResult(cap, right) = "Ok"
    <3>1. /\ permits' = permits \cup {new}
          /\ used_nonces' = used_nonces \cup {cap.nonce}
      BY <1>1, <2>2, CheckPermits, OkIsFresh DEF CheckStep
    <3>2. /\ new.kind = "CapabilityCheck"
          /\ new.about \in Nat \X Nonces
          /\ new.about[1] = current_generation
          /\ new.about[2] = cap.nonce
          /\ new.about[1] < GenMax => \A p \in permits : p.about # new.about
      BY <2>2, OkIsFresh, PolicyConstants DEF Token
    <3>3. current_generation \in Nat
      BY PolicyConstants DEF GateInv, GateTypeOK
    <3> HIDE DEF new
    <3>4. Windowed'
      BY <1>2, <3>1, <3>2, <3>3 DEF GateInv, Windowed
    <3>5. NoReplay'
      BY <3>1, <3>2 DEF GateInv, NoReplay
    <3> QED BY <3>4, <3>5
  <2> QED BY <2>1, <2>2
<1> QED BY <1>4, <1>7, <1>8, <1>9 DEF GateInv

\* Policy::revoke_capability keeps the invariant.
LEMMA RevokeKeepsInv ==
    ASSUME GateInv, NEW nonce \in Nonces, RevokeCapability(nonce)
    PROVE  GateInv'
<1>1. UNCHANGED <<audit, permits, current_generation, used_nonces>>
  BY DEF RevokeCapability, auditVars
<1>2. /\ IsFiniteSet(revoked') /\ revoked' \subseteq Nonces
      /\ Cardinality(revoked') <= MaxRevocations
  <2>1. CASE nonce \in revoked \/ Cardinality(revoked) < MaxRevocations
    <3>1. revoked' = revoked \cup {nonce}
      BY <2>1 DEF RevokeCapability
    <3>2. /\ IsFiniteSet(revoked')
          /\ Cardinality(revoked') = IF nonce \in revoked
                                     THEN Cardinality(revoked)
                                     ELSE Cardinality(revoked) + 1
      BY <3>1, FS_AddElement DEF GateInv
    <3>3. Cardinality(revoked) \in Nat
      BY FS_CardinalityType DEF GateInv
    <3> QED BY <2>1, <3>1, <3>2, <3>3, PolicyConstants DEF GateInv, GateTypeOK
  <2>2. CASE ~(nonce \in revoked \/ Cardinality(revoked) < MaxRevocations)
    <3>1. revoked' = revoked
      BY <2>2 DEF RevokeCapability
    <3> QED BY <3>1 DEF GateInv, GateTypeOK
  <2> QED BY <2>1, <2>2
<1>3. epoch' \in 0 .. EpochMax /\ result' \in Results
  BY PolicyConstants DEF RevokeCapability, SatInc, GateInv, GateTypeOK, Results
<1>4. GateTypeOK'
  BY <1>1, <1>2, <1>3 DEF GateInv, GateTypeOK
<1>5. /\ IsLog(audit'.events) /\ ChainIntact' /\ Windowed'
      /\ ChecksAccountable' /\ NoReplay'
  BY <1>1 DEF GateInv, ChainIntact, Windowed, ChecksAccountable,
              AccountableFor, NoReplay
<1> QED BY <1>1, <1>2, <1>4, <1>5 DEF GateInv

\* Policy::rotate_generation keeps the invariant, at the saturated counter too.
LEMMA RotateKeepsInv ==
    ASSUME GateInv, RotateGeneration
    PROVE  GateInv'
<1>1. /\ UNCHANGED <<audit, permits>>
      /\ used_nonces' = {} /\ revoked' = {} /\ epoch' = 0
      /\ result' \in Results
      /\ current_generation' = SatInc(current_generation, GenMax)
  BY DEF RotateGeneration, auditVars, Results
<1>2. /\ IsFiniteSet(used_nonces') /\ IsFiniteSet(revoked')
      /\ Cardinality(used_nonces') = 0 /\ Cardinality(revoked') = 0
  BY <1>1, FS_EmptySet
<1>3. /\ current_generation \in 0 .. GenMax
      /\ current_generation' \in 0 .. GenMax
      /\ current_generation < GenMax => current_generation' > current_generation
      /\ current_generation = GenMax => current_generation' = GenMax
  BY <1>1, PolicyConstants DEF GateInv, GateTypeOK, SatInc
<1>4. GateTypeOK'
  BY <1>1, <1>2, <1>3, PolicyConstants DEF GateInv, GateTypeOK
<1>5. Windowed'
  BY <1>1, <1>3, PolicyConstants DEF GateInv, Windowed
<1>6. /\ IsLog(audit'.events) /\ ChainIntact'
      /\ ChecksAccountable' /\ NoReplay'
  BY <1>1 DEF GateInv, ChainIntact, ChecksAccountable, AccountableFor, NoReplay
<1> QED BY <1>2, <1>4, <1>5, <1>6 DEF GateInv

\* Every operation of the gate (check, revoke_capability, rotate_generation)
\* keeps the invariant.
LEMMA GateStepInv == GateInv /\ [GateNext]_gateVars => GateInv'
<1> SUFFICES ASSUME GateInv, [GateNext]_gateVars
             PROVE  GateInv'
  OBVIOUS
<1>1. ASSUME NEW cap \in Caps, NEW right \in Rights, Check(cap, right)
      PROVE  GateInv'
  BY <1>1, CheckKeepsInv
<1>2. ASSUME NEW nonce \in Nonces, RevokeCapability(nonce)
      PROVE  GateInv'
  BY <1>2, RevokeKeepsInv
<1>3. CASE RotateGeneration
  BY <1>3, RotateKeepsInv, SMTT(20)
<1>4. CASE UNCHANGED gateVars
  BY <1>4 DEF gateVars, auditVars, policyVars, GateInv, GateTypeOK, IsLog,
              EventSet, ChainIntact, Windowed, ChecksAccountable,
              AccountableFor, NoReplay
<1> QED BY <1>1, <1>2, <1>3, <1>4 DEF GateNext

\* The inductive invariant holds in every reachable state of the gate.
THEOREM GateInvariant == GateSpec => []GateInv
BY GateInitInv, GateStepInv, PTL DEF GateSpec

\* The bounded stores and saturating counters of the gate stay in range,
\* whatever is presented, revoked and rotated.
THEOREM GateTypeCorrect == GateSpec => []GateTypeOK
<1>1. GateInv => GateTypeOK
  BY DEF GateInv
<1> QED BY <1>1, GateInvariant, PTL

\* Below the saturated generation no token is authorised twice.
THEOREM GateNeverReplays == GateSpec => []NoReplay
<1>1. GateInv => NoReplay
  BY DEF GateInv
<1> QED BY <1>1, GateInvariant, PTL

\* The checks that returned Ok are exactly the permitted events of the log.
THEOREM GateAccountable == GateSpec => []ChecksAccountable
<1>1. GateInv => ChecksAccountable
  BY DEF GateInv
<1> QED BY <1>1, GateInvariant, PTL

\* verify_chain succeeds in every reachable state, for any hash function.
THEOREM GateChainIntact == GateSpec => []ChainIntact
<1>1. GateInv => ChainIntact
  BY DEF GateInv
<1> QED BY <1>1, GateInvariant, PTL

\* The log only grows, by at most one event a call.
THEOREM GateAppendOnly == GateSpec => AppendOnly
<1> DEFINE Grows == /\ Len(audit'.events) - Len(audit.events) \in {0, 1}
                    /\ SubSeq(audit'.events, 1, Len(audit.events))
                         = audit.events
<1>1. ASSUME GateInv, audit' = audit PROVE Grows
  <2>1. /\ Len(audit.events) \in Nat
        /\ \A i \in 1 .. Len(audit.events) :
              audit.events[i] \in EventSet(audit.events)
        /\ audit.events \in Seq(EventSet(audit.events))
    BY <1>1, AppendFacts DEF GateInv, IsLog, EventSet
  <2>2. SubSeq(audit.events, 1, Len(audit.events)) = audit.events
    BY <2>1, SubSeqProperties, SeqEqual
  <2> QED BY <1>1, <2>1, <2>2
<1>2. GateInv /\ [GateNext]_gateVars => [Grows]_gateVars
  <2> SUFFICES ASSUME GateInv, GateNext PROVE Grows
    OBVIOUS
  <2>1. ASSUME NEW cap \in Caps, NEW right \in Rights, Check(cap, right)
        PROVE  Grows
    <3>1. CheckStep(cap, right)
      BY <2>1 DEF Check
    <3>2. CASE IsFull
      BY <1>1, <3>1, <3>2, CheckLogs
    <3>3. CASE ~IsFull
      BY <3>1, <3>3, CheckLogs
    <3> QED BY <3>2, <3>3
  <2>2. ASSUME NEW nonce \in Nonces, RevokeCapability(nonce)
        PROVE  Grows
    BY <1>1, <2>2 DEF RevokeCapability, auditVars
  <2>3. CASE RotateGeneration
    BY <1>1, <2>3 DEF RotateGeneration, auditVars
  <2> QED BY <2>1, <2>2, <2>3 DEF GateNext
<1> QED BY <1>2, GateInvariant, PTL DEF GateSpec, AppendOnly

-----------------------------------------------------------------------------
(* Refinement *)

\* An authorising check of a token below the saturated generation spends it.
LEMMA CheckRefines ==
    ASSUME GateInv, NEW cap \in Caps, NEW right \in Rights, Check(cap, right)
    PROVE  Abstract!Next \/ UNCHANGED <<Spent, Dead>>
<1> DEFINE new == [seq |-> audit.next_seq, kind |-> "CapabilityCheck",
                   actor |-> cap.target, about |-> Token(cap)]
           t   == Token(cap)
<1>1. CheckStep(cap, right)
  BY DEF Check
<1>2. Dead' = Dead
  BY <1>1 DEF CheckStep, Dead
<1>3. CASE CheckResult(cap, right) # "Ok"
  BY <1>1, <1>2, <1>3, CheckPermits DEF Spent
<1>4. CASE CheckResult(cap, right) = "Ok"
  <2>1. permits' = permits \cup {new}
    BY <1>1, <1>4, CheckPermits, SMTT(20)
  <2>2. /\ new.kind = "CapabilityCheck"
        /\ new.about = t
        /\ new.seq = audit.next_seq
        /\ t[1] = current_generation
        /\ t[2] = cap.nonce
        /\ t \in Nat \X Nonces
        /\ t[2] \notin revoked
        /\ t[1] < GenMax => \A p \in permits : p.about # t
    BY <1>4, OkIsFresh, PolicyConstants DEF Token
  <2> HIDE DEF new, t
  <2>3. CASE ~(t[1] < GenMax)
    <3>1. Spent' = Spent
      BY <2>1, <2>2, <2>3 DEF Spent
    <3> QED BY <1>2, <3>1
  <2>4. CASE t[1] < GenMax
    <3>1. Spent' = Spent \cup {<<t, audit.next_seq>>}
      BY <2>1, <2>2, <2>4 DEF Spent
    <3>2. t \notin Dead
      BY <2>2, PolicyConstants DEF Dead, GateInv, GateTypeOK
    <3>3. \A u \in Spent : u[1] # t
      BY <2>2, <2>4 DEF Spent
    <3>4. t \in Tokens
      BY <2>2, <2>4, PolicyConstants DEF Tokens, GateInv, GateTypeOK
    <3>5. audit.next_seq \in Uses
      BY DEF Uses, GateInv, GateTypeOK
    <3>6. Abstract!Spend(t, audit.next_seq)
      BY <1>2, <3>1, <3>2, <3>3 DEF Abstract!Spend
    <3> QED BY <3>4, <3>5, <3>6 DEF Abstract!Next
  <2> QED BY <2>3, <2>4
<1> QED BY <1>3, <1>4

\* Revocation and rotation kill tokens and never bring one back.
LEMMA KillRefines ==
    ASSUME UNCHANGED permits, Dead \subseteq Dead'
    PROVE  Abstract!Next
<1>1. Spent' = Spent
  BY DEF Spent
<1>2. Dead' \in SUBSET Tokens
  BY DEF Dead, Tokens
<1>3. Abstract!Kill(Dead')
  BY <1>1 DEF Abstract!Kill
<1> QED BY <1>2, <1>3 DEF Abstract!Next

\* Every operation of the gate spends a live token, kills tokens, or leaves
\* the abstract state alone.
LEMMA GateStepRefines ==
    GateInv /\ [GateNext]_gateVars => [Abstract!Next]_<<Spent, Dead>>
<1> SUFFICES ASSUME GateInv, [GateNext]_gateVars
             PROVE  Abstract!Next \/ UNCHANGED <<Spent, Dead>>
  OBVIOUS
<1>1. ASSUME NEW cap \in Caps, NEW right \in Rights, Check(cap, right)
      PROVE  Abstract!Next \/ UNCHANGED <<Spent, Dead>>
  BY <1>1, CheckRefines
<1>2. ASSUME NEW nonce \in Nonces, RevokeCapability(nonce)
      PROVE  Abstract!Next
  <2>1. UNCHANGED permits /\ Dead \subseteq Dead'
    BY <1>2 DEF RevokeCapability, auditVars, Dead
  <2> QED BY <2>1, KillRefines
<1>3. CASE RotateGeneration
  <2>1. UNCHANGED permits /\ Dead \subseteq Dead'
    BY <1>3, PolicyConstants
       DEF RotateGeneration, auditVars, Dead, SatInc, Tokens, GateInv, GateTypeOK
  <2> QED BY <2>1, KillRefines
<1>4. CASE UNCHANGED gateVars
  BY <1>4 DEF gateVars, auditVars, policyVars, Spent, Dead
<1> QED BY <1>1, <1>2, <1>3, <1>4 DEF GateNext

\* A new policy maps to the state in which no token is spent or dead.
LEMMA GateInitRefines == GateInit => Abstract!Init
BY PolicyConstants
   DEF GateInit, AuditInit, PolicyInit, Abstract!Init, Spent, Dead, Tokens

\* The gate implements the one-shot tokens: no sequence of checks,
\* revocations and rotations revives a spent, revoked or expired token.
THEOREM GateImplementsOneShot == GateSpec => ImplementsOneShot
BY GateInitRefines, GateStepRefines, GateInvariant, PTL
   DEF GateSpec, ImplementsOneShot, Abstract!Spec
=============================================================================
