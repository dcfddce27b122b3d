--------------------------- MODULE AuditLogProofs ---------------------------
(***************************************************************************)
(* Facts about AuditLog::append for every capacity and every hash          *)
(* function, on which the proofs about the components that write the log   *)
(* rest.  Nothing is assumed of Hash: an intact chain needs no collision   *)
(* resistance, only tamper evidence does.                                  *)
(***************************************************************************)
EXTENDS AuditLog, SequenceTheorems, TLAPS

\* The events of a log, and that they form a sequence.
EventSet(evs) == {evs[i] : i \in 1 .. Len(evs)}

IsLog(evs) == evs \in Seq(EventSet(evs))

\* Appending an event to the vector keeps the earlier events in place.
LEMMA AppendFacts ==
    ASSUME NEW evs, IsLog(evs), NEW e
    PROVE  /\ IsLog(Append(evs, e))
           /\ Len(evs) \in Nat
           /\ Len(Append(evs, e)) = Len(evs) + 1
           /\ \A i \in 1 .. Len(evs) : Append(evs, e)[i] = evs[i]
           /\ Append(evs, e)[Len(evs) + 1] = e
           /\ SubSeq(Append(evs, e), 1, Len(evs)) = evs
<1> DEFINE S == EventSet(evs) \cup {e}
           t == Append(evs, e)
<1>1. evs \in Seq(S)
  BY SeqMonotonic DEF IsLog
<1>2. /\ t \in Seq(S)
      /\ Len(evs) \in Nat
      /\ Len(t) = Len(evs) + 1
      /\ \A i \in 1 .. Len(evs) : t[i] = evs[i]
      /\ t[Len(evs) + 1] = e
  BY <1>1
<1>3. \A i \in 1 .. Len(t) : t[i] \in EventSet(t)
  BY <1>2 DEF EventSet
<1>4. IsLog(t)
  <2> HIDE DEF t, S
  <2>1. t \in [1 .. Len(t) -> S] /\ Len(t) \in Nat
    BY <1>2, LenProperties
  <2>2. t \in [1 .. Len(t) -> EventSet(t)]
    BY <1>3, <2>1
  <2>3. t \in Seq(EventSet(t))
    BY <2>1, <2>2
  <2> QED BY <2>3 DEF IsLog
<1>5. SubSeq(t, 1, Len(evs)) = evs
  <2>1. \A i \in 1 .. Len(evs) : t[i] \in S
    BY <1>1, <1>2
  <2>2. /\ SubSeq(t, 1, Len(evs)) \in Seq(S)
        /\ Len(SubSeq(t, 1, Len(evs))) = Len(evs)
        /\ \A i \in 1 .. Len(evs) : SubSeq(t, 1, Len(evs))[i] = t[i]
    BY <2>1, <1>2, SubSeqProperties
  <2> HIDE DEF S
  <2> QED BY <1>1, <1>2, <2>2, SeqEqual
<1> QED BY <1>2, <1>4, <1>5

\* AuditLog::append keeps the chain intact whether there is room or not.
LEMMA AppendToKeepsChain ==
    ASSUME NEW log, IsLog(log.events), ChainOK(log),
           NEW kind, NEW actor, NEW outcome
    PROVE  LET new == AppendTo(log, kind, actor, outcome)
           IN  IsLog(new.events) /\ ChainOK(new)
<1> DEFINE e   == NextEvent(log, kind, actor, outcome)
           new == AppendTo(log, kind, actor, outcome)
           evs == log.events
<1>1. CASE Full(log)
  BY <1>1 DEF AppendTo
<1>2. CASE ~Full(log)
  <2>1. /\ new.events = Append(evs, e)
        /\ new.last_hash = e.hash
        /\ new.next_seq = log.next_seq + 1
    BY <1>2 DEF AppendTo
  <2>2. /\ e.seq = log.next_seq
        /\ e.hash = ComputeHash(log.last_hash, e)
    BY DEF NextEvent, ComputeHash
  <2> HIDE DEF e, new
  <2>3. /\ IsLog(new.events)
        /\ Len(evs) \in Nat
        /\ Len(new.events) = Len(evs) + 1
        /\ \A i \in 1 .. Len(evs) : new.events[i] = evs[i]
        /\ new.events[Len(evs) + 1] = e
    BY <2>1, AppendFacts
  <2>4. VerifyChain(new.events)
    <3> SUFFICES ASSUME NEW i \in 1 .. Len(new.events)
                 PROVE  new.events[i].hash =
                          ComputeHash(IF i = 1 THEN GenesisHash
                                      ELSE new.events[i-1].hash, new.events[i])
      BY DEF VerifyChain
    <3>1. CASE i \in 1 .. Len(evs)
      <4>1. /\ new.events[i] = evs[i]
            /\ i # 1 => new.events[i-1] = evs[i-1]
        BY <2>3, <3>1
      <4>2. evs[i].hash = ComputeHash(IF i = 1 THEN GenesisHash
                                      ELSE evs[i-1].hash, evs[i])
        BY <3>1 DEF ChainOK, VerifyChain
      <4> QED BY <4>1, <4>2
    <3>2. CASE i = Len(evs) + 1
      <4>1. log.last_hash = IF i = 1 THEN GenesisHash ELSE new.events[i-1].hash
        BY <2>3, <3>2 DEF ChainOK
      <4> QED BY <2>2, <2>3, <3>2, <4>1
    <3> QED BY <2>3, <3>1, <3>2
  <2>5. new.last_hash = IF Len(new.events) = 0 THEN GenesisHash
                        ELSE new.events[Len(new.events)].hash
    BY <2>1, <2>3
  <2>6. /\ new.next_seq = Len(new.events)
        /\ \A i \in 1 .. Len(new.events) : new.events[i].seq = i - 1
    BY <2>1, <2>2, <2>3 DEF ChainOK
  <2>7. IsLog(new.events) /\ ChainOK(new)
    BY <2>3, <2>4, <2>5, <2>6 DEF ChainOK
  <2> QED BY <2>7 DEF new
<1> QED BY <1>1, <1>2
=============================================================================
