-------------------------- MODULE ReservationProofs --------------------------
(***************************************************************************)
(* The reservation ledger, for every capacity, lifetime and saturation     *)
(* point.                                                                  *)
(*                                                                         *)
(* The argument: below saturation an identifier names at most one stored   *)
(* reservation and is never handed out again, so the stored status of that *)
(* one reservation speaks for the identifier: Consumed once it was         *)
(* consumed, no longer Active once a caller was told it is gone.           *)
(***************************************************************************)
EXTENDS Reservation, SequenceTheorems, FiniteSetTheorems, TLAPS

\* Identifiers below saturation are unique and were handed out before.
IdsFresh ==
    /\ \A i \in 1 .. Len(reservations) :
          reservations[i].id < IdMax => reservations[i].id < next_id
    /\ \A i, j \in 1 .. Len(reservations) :
          /\ reservations[i].id = reservations[j].id
          /\ reservations[i].id < IdMax
          => i = j

\* The ledger remembers what was consumed and what was taken back.
Remembers ==
    /\ \A c \in consumed : c[1] < IdMax =>
          /\ c[1] < next_id
          /\ \A i \in 1 .. Len(reservations) :
                reservations[i].id = c[1] => reservations[i].status = "Consumed"
    /\ \A b \in barred : b < IdMax =>
          /\ b < next_id
          /\ \A i \in 1 .. Len(reservations) :
                reservations[i].id = b => reservations[i].status # "Active"

\* The inductive invariant of the ledger.
LedgerInv ==
    /\ ResTypeOK
    /\ Cardinality(consumed) <= MaxConsumed
    /\ IdsFresh
    /\ Remembers
    /\ ConsumedOnce

-----------------------------------------------------------------------------

\* An empty ledger (ReservationLedger::new) satisfies the invariant.
LEMMA LedgerInitInv == Init => LedgerInv
<1> SUFFICES ASSUME Init PROVE LedgerInv
  OBVIOUS
<1>1. /\ reservations = << >> /\ Len(reservations) = 0
      /\ consumed = {} /\ barred = {}
      /\ next_id = 0 /\ clock = 0 /\ result = "Ok"
  BY DEF Init
<1>2. IsFiniteSet(consumed) /\ Cardinality(consumed) = 0
  BY <1>1, FS_EmptySet
<1>3. ResTypeOK
  BY <1>1, <1>2, ReservationConstants DEF ResTypeOK, Ids, Results
<1>4. IdsFresh /\ Remembers /\ ConsumedOnce
  BY <1>1 DEF IdsFresh, Remembers, ConsumedOnce
<1> QED BY <1>2, <1>3, <1>4, ReservationConstants DEF LedgerInv

\* A live identifier has a first position, which holds an active and unexpired
\* reservation; below saturation it is the only one.
LEMMA LivePosition ==
    ASSUME LedgerInv, NEW id \in Ids, Holding(id) # {}
    PROVE  /\ Find(id) \in 1 .. Len(reservations)
           /\ reservations[Find(id)].id = id
           /\ id < IdMax => \A i \in Holding(id) : i = Find(id)
<1>1. Len(reservations) \in Nat
  BY DEF LedgerInv, ResTypeOK
<1>2. \E i \in Holding(id) : \A j \in Holding(id) : i <= j
  <2> DEFINE H == Holding(id)
  <2>1. H \subseteq Nat /\ H # {}
    BY <1>1 DEF Holding
  <2>2. \E i \in H : \A j \in H : <<j, i>> \notin OpToRel(<, Nat)
    BY <2>1, NatLessThanWellFounded, WFMin, Zenon
  <2>3. ASSUME NEW a \in Nat, NEW b \in Nat, a < b
        PROVE  <<a, b>> \in OpToRel(<, Nat)
    <3>1. <<a, b>> \in Nat \X Nat /\ <<a, b>>[1] < <<a, b>>[2]
      BY <2>3
    <3> QED BY <3>1, Zenon DEF OpToRel
  <2>4. PICK i \in H : \A j \in H : <<j, i>> \notin OpToRel(<, Nat)
    BY <2>2, Zenon
  <2>5. \A j \in H : ~(j < i)
    BY <2>1, <2>3, <2>4, Zenon
  <2> QED BY <2>1, <2>5
<1>3. Find(id) \in Holding(id)
  BY <1>2 DEF Find
<1> QED BY <1>3 DEF Holding, LedgerInv, IdsFresh

\* Every reservation stays where it is and only active ones change, to a
\* terminal status: what revoke, the cascade and consume do to the vector.
Retires ==
    /\ reservations' \in Seq(Reservations)
    /\ Len(reservations') = Len(reservations)
    /\ \A i \in 1 .. Len(reservations) :
          /\ reservations'[i].id = reservations[i].id
          /\ reservations'[i].created_at = reservations[i].created_at
          /\ reservations'[i].ttl = reservations[i].ttl
          /\ \/ reservations'[i].status = reservations[i].status
             \/ /\ reservations[i].status = "Active"
                /\ reservations'[i].status # "Active"

\* Retiring one active reservation at a valid position.
LEMMA RetireOne ==
    ASSUME LedgerInv, NEW k \in 1 .. Len(reservations),
           reservations[k].status = "Active",
           NEW st \in {"Revoked", "Consumed"},
           reservations' = [reservations EXCEPT ![k].status = st]
    PROVE  Retires /\ reservations'[k].status = st
<1>1. /\ reservations \in Seq(Reservations)
      /\ reservations[k] \in Reservations
  BY DEF LedgerInv, ResTypeOK
<1> DEFINE r == [reservations[k] EXCEPT !.status = st]
<1>2. /\ r \in Reservations
      /\ r.id = reservations[k].id
      /\ r.created_at = reservations[k].created_at
      /\ r.ttl = reservations[k].ttl
      /\ r.status = st
  BY <1>1 DEF Reservations, Statuses
<1>3. reservations' = [reservations EXCEPT ![k] = r]
  OBVIOUS
<1> HIDE DEF r
<1>4. /\ reservations' \in Seq(Reservations)
      /\ Len(reservations') = Len(reservations)
      /\ \A j \in 1 .. Len(reservations) :
            reservations'[j] = IF j = k THEN r ELSE reservations[j]
  BY <1>1, <1>2, <1>3, ExceptSeq, SMTT(60)
<1>5. ASSUME NEW j \in 1 .. Len(reservations)
      PROVE  /\ reservations'[j].id = reservations[j].id
             /\ reservations'[j].created_at = reservations[j].created_at
             /\ reservations'[j].ttl = reservations[j].ttl
             /\ \/ reservations'[j].status = reservations[j].status
                \/ /\ reservations[j].status = "Active"
                   /\ reservations'[j].status # "Active"
  <2>1. CASE j = k
    <3>1. reservations'[j] = r
      BY <1>4, <2>1
    <3> QED BY <1>2, <2>1, <3>1
  <2>2. CASE j # k
    <3>1. reservations'[j] = reservations[j]
      BY <1>4, <2>2
    <3> QED BY <3>1
  <2> QED BY <2>1, <2>2
<1>6. reservations'[k].status = st
  BY <1>2, <1>4
<1> QED BY <1>4, <1>5, <1>6 DEF Retires

\* Retiring reservations disturbs neither the identifiers nor what the ledger
\* remembers.
LEMMA RetiresKeeps ==
    ASSUME LedgerInv, Retires, next_id' = next_id
    PROVE  /\ IdsFresh'
           /\ \A c \in consumed : c[1] < IdMax =>
                 /\ c[1] < next_id'
                 /\ \A i \in 1 .. Len(reservations') :
                       reservations'[i].id = c[1] =>
                          reservations'[i].status = "Consumed"
           /\ \A b \in barred : b < IdMax =>
                 /\ b < next_id'
                 /\ \A i \in 1 .. Len(reservations') :
                       reservations'[i].id = b =>
                          reservations'[i].status # "Active"
<1>1. IdsFresh'
  BY DEF LedgerInv, IdsFresh, Retires
<1> QED BY <1>1 DEF LedgerInv, Remembers, Retires

-----------------------------------------------------------------------------

\* reserve keeps the invariant: the new identifier is fresh below saturation.
LEMMA ReserveKeepsInv ==
    ASSUME LedgerInv, NEW nonce \in Nonces, NEW ticks \in Ttls,
           Reserve(nonce, ticks)
    PROVE  LedgerInv'
<1> DEFINE r == [id |-> next_id, origin_nonce |-> nonce, created_at |-> clock,
                 ttl |-> ticks, status |-> "Active"]
           ok == ValidTtl(ticks) /\ HasRoom
<1>1. UNCHANGED <<clock, consumed, barred>> /\ result' \in Results
  BY DEF Reserve, Results
<1>2. /\ reservations \in Seq(Reservations)
      /\ Len(reservations) \in Nat
      /\ next_id \in 0 .. IdMax
  BY DEF LedgerInv, ResTypeOK, Ids
<1>3. CASE ~ok
  <2>1. UNCHANGED <<reservations, next_id>>
    BY <1>2, <1>3, ReservationConstants DEF Reserve
  <2> QED BY <1>1, <2>1 DEF LedgerInv, ResTypeOK, IdsFresh, Remembers,
                            ConsumedOnce
<1>4. CASE ok
  <2>1. /\ reservations' = Append(reservations, r)
        /\ next_id' = IF next_id + 1 < IdMax THEN next_id + 1 ELSE IdMax
    BY <1>2, <1>4, ReservationConstants DEF Reserve, SatAdd
  <2>2. /\ r \in Reservations
        /\ r.id = next_id
    BY <1>4 DEF LedgerInv, ResTypeOK, Reservations, Statuses
  <2> HIDE DEF r
  <2>3. /\ reservations' \in Seq(Reservations)
        /\ Len(reservations') = Len(reservations) + 1
        /\ \A i \in 1 .. Len(reservations) : reservations'[i] = reservations[i]
        /\ reservations'[Len(reservations) + 1] = r
    BY <1>2, <2>1, <2>2
  <2>4. /\ next_id' \in 0 .. IdMax
        /\ next_id <= next_id'
        /\ next_id < IdMax => next_id < next_id'
    BY <1>2, <2>1, ReservationConstants
  <2>5. \A i \in 1 .. Len(reservations) :
           reservations[i].id \in 0 .. IdMax
    <3> TAKE i \in 1 .. Len(reservations)
    <3>1. reservations[i] \in Reservations
      BY <1>2, ElementOfSeq
    <3> QED BY <3>1 DEF Reservations, Ids
  <2>6. ResTypeOK'
    BY <1>1, <1>2, <1>4, <2>3, <2>4, ReservationConstants
       DEF LedgerInv, ResTypeOK, Ids, HasRoom
  <2>7. IdsFresh'
    <3>1. \A i \in 1 .. Len(reservations) :
             reservations[i].id < IdMax => reservations[i].id < next_id
      BY DEF LedgerInv, IdsFresh
    <3>2. \A i \in 1 .. Len(reservations') :
             \/ i \in 1 .. Len(reservations) /\ reservations'[i] = reservations[i]
             \/ i = Len(reservations) + 1 /\ reservations'[i].id = next_id
      BY <1>2, <2>2, <2>3
    <3>3. \A i \in 1 .. Len(reservations') :
             reservations'[i].id < IdMax => reservations'[i].id < next_id'
      <4> TAKE i \in 1 .. Len(reservations')
      <4>1. CASE i \in 1 .. Len(reservations) /\ reservations'[i] = reservations[i]
        <5>1. /\ reservations[i].id \in 0 .. IdMax
              /\ reservations[i].id < IdMax => reservations[i].id < next_id
          BY <2>5, <3>1, <4>1
        <5> QED BY <1>2, <2>4, <4>1, <5>1, ReservationConstants
      <4>2. CASE reservations'[i].id = next_id
        BY <2>4, <4>2
      <4> QED BY <3>2, <4>1, <4>2
    <3>4. ASSUME NEW i \in 1 .. Len(reservations'),
                 NEW j \in 1 .. Len(reservations'),
                 reservations'[i].id = reservations'[j].id,
                 reservations'[i].id < IdMax
          PROVE  i = j
      <4>1. CASE i \in 1 .. Len(reservations) /\ j \in 1 .. Len(reservations)
        BY <2>3, <3>4, <4>1 DEF LedgerInv, IdsFresh
      <4>2. CASE ~(i \in 1 .. Len(reservations) /\ j \in 1 .. Len(reservations))
        BY <1>2, <2>5, <3>1, <3>2, <3>4, <4>2
      <4> QED BY <4>1, <4>2
    <3> QED BY <3>3, <3>4 DEF IdsFresh
  <2>8. Remembers'
    <3>1. /\ consumed \subseteq Ids \X Nat
          /\ barred \subseteq Ids
      BY DEF LedgerInv, ResTypeOK
    <3>2. ASSUME NEW x \in Ids, x < next_id, NEW i \in 1 .. Len(reservations'),
                 reservations'[i].id = x
          PROVE  i \in 1 .. Len(reservations) /\ reservations'[i] = reservations[i]
      BY <1>2, <2>2, <2>3, <3>2 DEF Ids
    <3>3. ASSUME NEW c \in consumed, c[1] < IdMax
          PROVE  /\ c[1] < next_id'
                 /\ \A i \in 1 .. Len(reservations') :
                       reservations'[i].id = c[1] =>
                          reservations'[i].status = "Consumed"
      <4>1. c[1] \in Ids
        BY <3>1
      <4>2. /\ c[1] < next_id
            /\ \A i \in 1 .. Len(reservations) :
                  reservations[i].id = c[1] =>
                     reservations[i].status = "Consumed"
        BY <3>3 DEF LedgerInv, Remembers
      <4>3. c[1] < next_id'
        BY <1>2, <2>4, <4>1, <4>2, ReservationConstants DEF Ids
      <4> QED BY <3>2, <4>1, <4>2, <4>3
    <3>4. ASSUME NEW b \in barred, b < IdMax
          PROVE  /\ b < next_id'
                 /\ \A i \in 1 .. Len(reservations') :
                       reservations'[i].id = b =>
                          reservations'[i].status # "Active"
      <4>1. b \in Ids
        BY <3>1
      <4>2. /\ b < next_id
            /\ \A i \in 1 .. Len(reservations) :
                  reservations[i].id = b => reservations[i].status # "Active"
        BY <3>4 DEF LedgerInv, Remembers
      <4>3. b < next_id'
        BY <1>2, <2>4, <4>1, <4>2, ReservationConstants DEF Ids
      <4> QED BY <3>2, <4>1, <4>2, <4>3
    <3> QED BY <1>1, <3>3, <3>4 DEF Remembers
  <2> QED BY <1>1, <2>6, <2>7, <2>8 DEF LedgerInv, ConsumedOnce
<1> QED BY <1>3, <1>4

\* revoke keeps the invariant: it changes one status and no identifier.
LEMMA RevokeKeepsInv ==
    ASSUME LedgerInv, NEW id \in Ids, Revoke(id)
    PROVE  LedgerInv'
<1> DEFINE ok == Holding(id) # {} /\ reservations[Find(id)].status = "Active"
<1>1. UNCHANGED <<next_id, clock, consumed>> /\ result' \in Results
  BY DEF Revoke, Results
<1>2. CASE ~ok
  <2>1. UNCHANGED <<reservations, barred>>
    BY <1>2 DEF Revoke
  <2> QED BY <1>1, <2>1 DEF LedgerInv, ResTypeOK, IdsFresh, Remembers,
                            ConsumedOnce
<1>3. CASE ok
  <2>1. /\ reservations' = [reservations EXCEPT ![Find(id)].status = "Revoked"]
        /\ barred' = barred \cup {id}
    BY <1>3 DEF Revoke
  <2>2. /\ Find(id) \in 1 .. Len(reservations)
        /\ reservations[Find(id)].id = id
        /\ id < IdMax => \A i \in Holding(id) : i = Find(id)
    BY <1>3, LivePosition
  <2>3. Retires /\ reservations'[Find(id)].status = "Revoked"
    BY <1>3, <2>1, <2>2, RetireOne
  <2>4. ResTypeOK'
    BY <1>1, <2>1, <2>3 DEF LedgerInv, ResTypeOK, Retires
  <2>5. id < IdMax =>
           /\ id < next_id'
           /\ \A i \in 1 .. Len(reservations') :
                 reservations'[i].id = id => reservations'[i].status # "Active"
    <3> SUFFICES ASSUME id < IdMax
                 PROVE  /\ id < next_id'
                        /\ \A i \in 1 .. Len(reservations') :
                              reservations'[i].id = id =>
                                reservations'[i].status # "Active"
      OBVIOUS
    <3>1. id < next_id'
      BY <1>1, <2>2 DEF LedgerInv, IdsFresh
    <3>2. \A i \in 1 .. Len(reservations') :
             reservations'[i].id = id => i = Find(id)
      BY <2>2, <2>3 DEF Retires, Holding
    <3> QED BY <2>3, <3>1, <3>2
  <2>6. IdsFresh' /\ Remembers'
    BY <1>1, <2>1, <2>3, <2>5, RetiresKeeps DEF Remembers
  <2> QED BY <1>1, <2>4, <2>6 DEF LedgerInv, ConsumedOnce
<1> QED BY <1>2, <1>3

\* The cascade retires every active reservation of the nonce.
LEMMA CascadeRetires ==
    ASSUME LedgerInv, NEW nonce \in Nonces, RevokeByOriginNonce(nonce)
    PROVE  /\ Retires
           /\ \A i \in FromNonce(nonce) : reservations'[i].status # "Active"
<1> DEFINE n    == Len(reservations)
           new(i) == IF i \in FromNonce(nonce) /\ reservations[i].status = "Active"
                     THEN [reservations[i] EXCEPT !.status = "Revoked"]
                     ELSE reservations[i]
<1>1. reservations' = [i \in 1 .. n |-> new(i)]
  BY DEF RevokeByOriginNonce
<1>2. n \in Nat /\ \A i \in 1 .. n : reservations[i] \in Reservations
  BY ElementOfSeq, LenProperties DEF LedgerInv, ResTypeOK
<1>3. ASSUME NEW i \in 1 .. n
      PROVE  /\ new(i) \in Reservations
             /\ new(i).id = reservations[i].id
             /\ new(i).created_at = reservations[i].created_at
             /\ new(i).ttl = reservations[i].ttl
             /\ \/ new(i).status = reservations[i].status
                \/ /\ reservations[i].status = "Active"
                   /\ new(i).status # "Active"
             /\ i \in FromNonce(nonce) => new(i).status # "Active"
  BY <1>2 DEF Reservations, Statuses
<1> HIDE DEF new
<1>4. reservations' \in [1 .. n -> Reservations]
  BY <1>1, <1>3
<1>5. reservations' \in Seq(Reservations) /\ Len(reservations') = n
  BY <1>2, <1>4
<1>6. \A i \in 1 .. n : reservations'[i] = new(i)
  BY <1>1
<1>7. FromNonce(nonce) \subseteq 1 .. n
  BY DEF FromNonce
<1> QED BY <1>3, <1>5, <1>6, <1>7 DEF Retires

\* revoke_by_origin_nonce keeps the invariant: it changes statuses only.
LEMMA CascadeKeepsInv ==
    ASSUME LedgerInv, NEW nonce \in Nonces, RevokeByOriginNonce(nonce)
    PROVE  LedgerInv'
<1> DEFINE gone == {reservations[i].id : i \in FromNonce(nonce)}
<1>1. /\ UNCHANGED <<next_id, clock, consumed>>
      /\ result' \in Results
      /\ barred' = barred \cup gone
  BY DEF RevokeByOriginNonce, Results
<1>2. Retires /\ \A i \in FromNonce(nonce) : reservations'[i].status # "Active"
  BY CascadeRetires
<1>3. gone \subseteq Ids
  <2>1. \A i \in 1 .. Len(reservations) : reservations[i] \in Reservations
    BY ElementOfSeq DEF LedgerInv, ResTypeOK
  <2> QED BY <2>1 DEF FromNonce, Reservations
<1>4. ResTypeOK'
  BY <1>1, <1>2, <1>3 DEF LedgerInv, ResTypeOK, Retires
<1>5. ASSUME NEW b \in gone, b < IdMax
      PROVE  /\ b < next_id'
             /\ \A i \in 1 .. Len(reservations') :
                   reservations'[i].id = b => reservations'[i].status # "Active"
  <2>1. PICK k \in FromNonce(nonce) : b = reservations[k].id
    BY <1>5
  <2>2. k \in 1 .. Len(reservations)
    BY DEF FromNonce
  <2>3. b < next_id'
    BY <1>1, <1>5, <2>1, <2>2 DEF LedgerInv, IdsFresh
  <2>4. \A i \in 1 .. Len(reservations') : reservations'[i].id = b => i = k
    BY <1>2, <1>5, <2>1, <2>2 DEF LedgerInv, IdsFresh, Retires
  <2> QED BY <1>2, <2>3, <2>4
<1>6. IdsFresh' /\ Remembers'
  BY <1>1, <1>2, <1>5, RetiresKeeps DEF Remembers
<1> QED BY <1>1, <1>4, <1>6 DEF LedgerInv, ConsumedOnce

\* A successful consume: the one reservation with that identifier was active
\* and unexpired, and is Consumed afterwards.
LEMMA ConsumeRetires ==
    ASSUME LedgerInv, NEW id \in Ids, Consume(id), Live(id, clock)
    PROVE  /\ Find(id) \in 1 .. Len(reservations)
           /\ reservations[Find(id)].id = id
           /\ Unexpired(reservations[Find(id)], clock)
           /\ id < IdMax => \A i \in Holding(id) : i = Find(id)
           /\ Retires
           /\ reservations'[Find(id)].status = "Consumed"
           /\ consumed' = consumed \cup {<<id, Cardinality(consumed)>>}
<1>1. /\ reservations' = [reservations EXCEPT ![Find(id)].status = "Consumed"]
      /\ consumed' = consumed \cup {<<id, Cardinality(consumed)>>}
  BY DEF Consume
<1>2. /\ Find(id) \in 1 .. Len(reservations)
      /\ reservations[Find(id)].id = id
      /\ id < IdMax => \A i \in Holding(id) : i = Find(id)
  BY LivePosition DEF Live
<1>3. /\ Unexpired(reservations[Find(id)], clock)
      /\ reservations[Find(id)].status = "Active"
  BY DEF Live, Unexpired
<1>4. Retires /\ reservations'[Find(id)].status = "Consumed"
  BY <1>1, <1>2, <1>3, RetireOne
<1> QED BY <1>1, <1>2, <1>3, <1>4

\* consume keeps the invariant: an identifier that is live was not consumed.
LEMMA ConsumeKeepsInv ==
    ASSUME LedgerInv, NEW id \in Ids, Consume(id)
    PROVE  LedgerInv'
<1>1. /\ UNCHANGED <<next_id, clock, barred>>
      /\ result' \in Results
      /\ Cardinality(consumed) < MaxConsumed
  BY DEF Consume, Results
<1>2. CASE ~Live(id, clock)
  <2>1. UNCHANGED <<reservations, consumed>>
    BY <1>2 DEF Consume
  <2> QED BY <1>1, <2>1 DEF LedgerInv, ResTypeOK, IdsFresh, Remembers,
                            ConsumedOnce
<1>3. CASE Live(id, clock)
  <2> DEFINE use == <<id, Cardinality(consumed)>>
  <2>1. /\ Find(id) \in 1 .. Len(reservations)
        /\ reservations[Find(id)].id = id
        /\ reservations[Find(id)].status = "Active"
        /\ id < IdMax => \A i \in Holding(id) : i = Find(id)
        /\ Retires
        /\ reservations'[Find(id)].status = "Consumed"
        /\ consumed' = consumed \cup {use}
    BY <1>3, ConsumeRetires DEF Unexpired
  <2>2. /\ Cardinality(consumed) \in Nat
        /\ IsFiniteSet(consumed')
        /\ Cardinality(consumed') <= Cardinality(consumed) + 1
        /\ Cardinality(consumed') \in Nat
    <3>1. IsFiniteSet(consumed) /\ Cardinality(consumed) \in Nat
      BY FS_CardinalityType DEF LedgerInv, ResTypeOK
    <3> HIDE DEF use
    <3>2. /\ IsFiniteSet(consumed')
          /\ Cardinality(consumed') = IF use \in consumed
                                      THEN Cardinality(consumed)
                                      ELSE Cardinality(consumed) + 1
      BY <2>1, <3>1, FS_AddElement
    <3> QED BY <3>1, <3>2
  <2>3. use[1] = id /\ use \in Ids \X Nat
    BY <2>2
  <2> HIDE DEF use
  <2>4. ResTypeOK'
    BY <1>1, <2>1, <2>2, <2>3 DEF LedgerInv, ResTypeOK, Retires
  <2>5. Cardinality(consumed') <= MaxConsumed
    BY <1>1, <2>2, ReservationConstants
  <2>6. id < IdMax =>
           /\ id < next_id'
           /\ \A i \in 1 .. Len(reservations') :
                 reservations'[i].id = id => reservations'[i].status = "Consumed"
    <3> SUFFICES ASSUME id < IdMax
                 PROVE  /\ id < next_id'
                        /\ \A i \in 1 .. Len(reservations') :
                              reservations'[i].id = id =>
                                reservations'[i].status = "Consumed"
      OBVIOUS
    <3>1. id < next_id'
      BY <1>1, <2>1 DEF LedgerInv, IdsFresh
    <3>2. \A i \in 1 .. Len(reservations') :
             reservations'[i].id = id => i = Find(id)
      BY <2>1 DEF Retires, Holding
    <3> QED BY <2>1, <3>1, <3>2
  <2>7. IdsFresh' /\ Remembers'
    BY <1>1, <2>1, <2>3, <2>6, RetiresKeeps DEF Remembers
  <2>8. id < IdMax => \A c \in consumed : c[1] # id
    BY <2>1 DEF LedgerInv, Remembers
  <2>9. ConsumedOnce'
    BY <2>1, <2>3, <2>8 DEF LedgerInv, ConsumedOnce
  <2> QED BY <2>4, <2>5, <2>7, <2>9 DEF LedgerInv
<1> QED BY <1>2, <1>3

\* clear keeps the invariant: next_id stays above every consumed identifier.
LEMMA ClearKeepsInv ==
    ASSUME LedgerInv, Clear
    PROVE  LedgerInv'
<1> DEFINE gone == {reservations[i].id : i \in DOMAIN reservations}
<1>1. /\ reservations' = << >> /\ Len(reservations') = 0
      /\ barred' = barred \cup gone
      /\ result' \in Results
      /\ UNCHANGED <<next_id, clock, consumed>>
  BY DEF Clear, Results
<1>2. \A b \in gone : b \in Ids /\ (b < IdMax => b < next_id)
  <2>1. /\ DOMAIN reservations = 1 .. Len(reservations)
        /\ \A i \in 1 .. Len(reservations) : reservations[i] \in Reservations
    BY ElementOfSeq, LenProperties DEF LedgerInv, ResTypeOK
  <2> QED BY <2>1 DEF LedgerInv, IdsFresh, Reservations
<1> HIDE DEF gone
<1>3. ResTypeOK'
  BY <1>1, <1>2, ReservationConstants DEF LedgerInv, ResTypeOK
<1>4. IdsFresh' /\ Remembers'
  BY <1>1, <1>2 DEF LedgerInv, IdsFresh, Remembers
<1> QED BY <1>1, <1>3, <1>4 DEF LedgerInv, ConsumedOnce

\* Every operation of the ledger, and the clock, keep the invariant.
LEMMA LedgerStepInv == LedgerInv /\ [Next]_vars => LedgerInv'
<1> SUFFICES ASSUME LedgerInv, [Next]_vars
             PROVE  LedgerInv'
  OBVIOUS
<1>1. ASSUME NEW nonce \in Nonces, NEW ticks \in Ttls, Reserve(nonce, ticks)
      PROVE  LedgerInv'
  BY <1>1, ReserveKeepsInv
<1>2. ASSUME NEW id \in Ids, Revoke(id)
      PROVE  LedgerInv'
  BY <1>2, RevokeKeepsInv
<1>3. ASSUME NEW nonce \in Nonces, RevokeByOriginNonce(nonce)
      PROVE  LedgerInv'
  BY <1>3, CascadeKeepsInv
<1>4. ASSUME NEW id \in Ids, Grant(id)
      PROVE  LedgerInv'
  BY <1>4 DEF Grant, Results, LedgerInv, ResTypeOK, IdsFresh, Remembers,
              ConsumedOnce
<1>5. ASSUME NEW id \in Ids, Consume(id)
      PROVE  LedgerInv'
  BY <1>5, ConsumeKeepsInv
<1>6. CASE Clear
  BY <1>6, ClearKeepsInv
<1>7. CASE Tick
  <2>1. clock' \in 0 .. TickMax
    BY <1>7, ReservationConstants DEF Tick, LedgerInv, ResTypeOK
  <2> QED BY <1>7, <2>1 DEF Tick, LedgerInv, ResTypeOK, IdsFresh, Remembers,
                            ConsumedOnce
<1>8. CASE UNCHANGED vars
  BY <1>8 DEF vars, LedgerInv, ResTypeOK, IdsFresh, Remembers, ConsumedOnce
<1> QED BY <1>1, <1>2, <1>3, <1>4, <1>5, <1>6, <1>7, <1>8 DEF Next

\* The inductive invariant holds in every reachable state of the ledger.
THEOREM LedgerInvariant == Spec => []LedgerInv
BY LedgerInitInv, LedgerStepInv, PTL DEF Spec

\* The ledger stays within its capacity and stores only valid lifetimes.
THEOREM LedgerTypeCorrect == Spec => []ResTypeOK
<1>1. LedgerInv => ResTypeOK
  BY DEF LedgerInv
<1> QED BY <1>1, LedgerInvariant, PTL

\* Below saturation no identifier is consumed twice.
THEOREM LedgerConsumesOnce == Spec => []ConsumedOnce
<1>1. LedgerInv => ConsumedOnce
  BY DEF LedgerInv
<1> QED BY <1>1, LedgerInvariant, PTL

-----------------------------------------------------------------------------
(* Refinement *)

\* Expiry, read off the ledger: an identifier is expired when a stored
\* reservation with it is.
LEMMA ExpiredMembers ==
    ASSUME LedgerInv
    PROVE  \A x : x \in Expired <=>
              \E i \in 1 .. Len(reservations) :
                 x = reservations[i].id /\ clock >= ExpiresAt(reservations[i])
<1>1. DOMAIN reservations = 1 .. Len(reservations)
  BY LenProperties DEF LedgerInv, ResTypeOK
<1> QED BY <1>1 DEF Expired

\* expires_at never passes the end of the clock.
LEMMA ExpiresAtType ==
    ASSUME NEW r \in Reservations
    PROVE  ExpiresAt(r) \in 0 .. TickMax
<1>1. r.created_at \in 0 .. TickMax /\ r.ttl \in Ttls
  BY DEF Reservations
<1>2. r.created_at \in Nat
  BY <1>1, ReservationConstants
<1>3. Ttls \subseteq Nat
  BY ReservationConstants
<1>4. r.ttl \in Nat
  BY <1>1, <1>3, Zenon
<1> QED BY <1>2, <1>4, ReservationConstants DEF ExpiresAt, SatAdd

\* While the positions keep their reservations, what has expired stays so.
LEMMA ExpiredGrows ==
    ASSUME LedgerInv, LedgerInv',
           clock <= clock',
           Len(reservations) <= Len(reservations'),
           \A i \in 1 .. Len(reservations) :
              /\ reservations'[i].id = reservations[i].id
              /\ reservations'[i].created_at = reservations[i].created_at
              /\ reservations'[i].ttl = reservations[i].ttl
    PROVE  Expired \subseteq Expired'
<1>1. SUFFICES ASSUME NEW x \in Expired PROVE x \in Expired'
  OBVIOUS
<1>2. PICK i \in 1 .. Len(reservations) :
         x = reservations[i].id /\ clock >= ExpiresAt(reservations[i])
  BY ExpiredMembers
<1>3. /\ Len(reservations) \in Nat /\ Len(reservations') \in Nat
      /\ clock \in Nat /\ clock' \in Nat
  BY ReservationConstants DEF LedgerInv, ResTypeOK
<1>4. /\ i \in 1 .. Len(reservations')
      /\ x = reservations'[i].id
      /\ ExpiresAt(reservations'[i]) = ExpiresAt(reservations[i])
  BY <1>2, <1>3 DEF ExpiresAt
<1>5. reservations[i] \in Reservations
  BY ElementOfSeq DEF LedgerInv, ResTypeOK
<1>6. ExpiresAt(reservations[i]) \in Nat
  BY <1>5, ExpiresAtType, ReservationConstants
<1>7. clock' >= ExpiresAt(reservations'[i])
  BY <1>2, <1>3, <1>4, <1>6
<1>8. \E j \in 1 .. Len(reservations') :
         x = reservations'[j].id /\ clock' >= ExpiresAt(reservations'[j])
  BY <1>4, <1>7
<1>9. DOMAIN reservations' = 1 .. Len(reservations')
  BY LenProperties DEF LedgerInv, ResTypeOK
<1> QED BY <1>8, <1>9 DEF Expired

\* A step that consumes nothing and forgets no dead identifier kills.
LEMMA KillRefines ==
    ASSUME UNCHANGED consumed, Dead \subseteq Dead'
    PROVE  Abstract!Next
<1>1. Spent' = Spent
  BY DEF Spent
<1>2. Dead' \in SUBSET Tokens
  BY DEF Dead
<1>3. Abstract!Kill(Dead')
  BY <1>1 DEF Abstract!Kill
<1> QED BY <1>2, <1>3 DEF Abstract!Next

\* A successful consume spends a token that was neither dead nor spent.
LEMMA ConsumeRefines ==
    ASSUME LedgerInv, LedgerInv', NEW id \in Ids, Consume(id), Live(id, clock)
    PROVE  Abstract!Next \/ UNCHANGED <<Spent, Dead>>
<1> DEFINE use == <<id, Cardinality(consumed)>>
<1>1. /\ Find(id) \in 1 .. Len(reservations)
      /\ reservations[Find(id)].id = id
      /\ reservations[Find(id)].status = "Active"
      /\ clock < ExpiresAt(reservations[Find(id)])
      /\ id < IdMax => \A i \in Holding(id) : i = Find(id)
      /\ Retires
      /\ consumed' = consumed \cup {use}
      /\ UNCHANGED <<clock, barred>>
      /\ Cardinality(consumed) < MaxConsumed
  BY ConsumeRetires DEF Unexpired, Consume
<1>2. Cardinality(consumed) \in Nat
  BY FS_CardinalityType DEF LedgerInv, ResTypeOK
<1>3. Expired' = Expired
  <2>1. \A i \in 1 .. Len(reservations) :
           /\ reservations'[i].id = reservations[i].id
           /\ ExpiresAt(reservations'[i]) = ExpiresAt(reservations[i])
    BY <1>1 DEF Retires, ExpiresAt
  <2>2. /\ DOMAIN reservations' = 1 .. Len(reservations)
        /\ DOMAIN reservations = 1 .. Len(reservations)
    BY <1>1, LenProperties DEF LedgerInv, ResTypeOK, Retires
  <2> QED BY <1>1, <2>1, <2>2 DEF Expired
<1>4. id < IdMax =>
        /\ id \notin barred
        /\ id \notin Expired
        /\ \A c \in consumed : c[1] # id
  <2>1. id < IdMax => id \notin barred /\ \A c \in consumed : c[1] # id
    BY <1>1 DEF LedgerInv, Remembers
  <2>2. ASSUME id < IdMax, id \in Expired PROVE FALSE
    <3>1. PICK i \in 1 .. Len(reservations) :
             id = reservations[i].id /\ clock >= ExpiresAt(reservations[i])
      BY <2>2, ExpiredMembers
    <3>2. i = Find(id)
      BY <1>1, <2>2, <3>1 DEF Holding
    <3>3. reservations[i] \in Reservations /\ clock \in Nat
      BY ElementOfSeq, ReservationConstants DEF LedgerInv, ResTypeOK
    <3>4. ExpiresAt(reservations[i]) \in Nat
      BY <3>3, ExpiresAtType, ReservationConstants
    <3> DEFINE expiry == ExpiresAt(reservations[i])
    <3>5. clock < expiry
      BY <1>1, <3>2, Zenon
    <3>6. clock >= expiry /\ expiry \in Nat /\ clock \in Nat
      BY <3>1, <3>3, <3>4
    <3> HIDE DEF expiry
    <3> QED BY <3>5, <3>6
  <2> QED BY <2>1, <2>2
<1>5. use[1] = id
  OBVIOUS
<1> HIDE DEF use
<1>6. CASE id < IdMax
  <2>1. id \in Tokens /\ Cardinality(consumed) \in Uses
    BY <1>1, <1>2, <1>6, ReservationConstants DEF Ids, Tokens, Uses
  <2>2. Spent' = Spent \cup {use}
    BY <1>1, <1>5, <2>1 DEF Spent
  <2>3. Dead' = Dead
    BY <1>1, <1>3, <1>4, <1>5, <1>6 DEF Dead
  <2>4. id \notin Dead /\ \A u \in Spent : u[1] # id
    BY <1>4, <1>6 DEF Dead, Spent
  <2>5. Abstract!Spend(id, Cardinality(consumed))
    BY <2>2, <2>3, <2>4 DEF Abstract!Spend, use
  <2> QED BY <2>1, <2>5 DEF Abstract!Next
<1>7. CASE ~(id < IdMax)
  <2>1. id \notin Tokens
    BY <1>7, ReservationConstants DEF Ids, Tokens
  <2>2. Spent' = Spent
    BY <1>1, <1>5, <2>1 DEF Spent
  <2>3. Dead' = Dead
    BY <1>1, <1>3, <1>5, <2>1 DEF Dead
  <2> QED BY <2>2, <2>3
<1> QED BY <1>6, <1>7

\* Steps that leave consumed alone and neither drop a reservation nor unbar an
\* identifier only ever kill.
LEMMA NoConsumeRefines ==
    ASSUME LedgerInv, LedgerInv', UNCHANGED consumed, barred \subseteq barred',
           clock <= clock',
           Len(reservations) <= Len(reservations'),
           \A i \in 1 .. Len(reservations) :
              /\ reservations'[i].id = reservations[i].id
              /\ reservations'[i].created_at = reservations[i].created_at
              /\ reservations'[i].ttl = reservations[i].ttl
    PROVE  Abstract!Next
<1>1. Dead \subseteq Dead'
  BY ExpiredGrows DEF Dead
<1> QED BY <1>1, KillRefines

\* Every operation of the ledger spends a live token, kills tokens, or leaves
\* the abstract state alone.
LEMMA LedgerStepRefines ==
    LedgerInv /\ LedgerInv' /\ [Next]_vars => [Abstract!Next]_<<Spent, Dead>>
<1> SUFFICES ASSUME LedgerInv, LedgerInv', [Next]_vars
             PROVE  Abstract!Next \/ UNCHANGED <<Spent, Dead>>
  OBVIOUS
<1>1. clock \in Nat /\ Len(reservations) \in Nat
      /\ reservations \in Seq(Reservations)
  BY ReservationConstants DEF LedgerInv, ResTypeOK
<1>2. ASSUME NEW nonce \in Nonces, NEW ticks \in Ttls, Reserve(nonce, ticks)
      PROVE  Abstract!Next
  <2>1. UNCHANGED <<consumed, barred, clock>>
    BY <1>2 DEF Reserve
  <2>2. /\ Len(reservations) <= Len(reservations')
        /\ \A i \in 1 .. Len(reservations) : reservations'[i] = reservations[i]
    <3>1. CASE reservations' = reservations
      BY <1>1, <3>1
    <3>2. CASE reservations' # reservations
      <4>1. PICK r : reservations' = Append(reservations, r)
        BY <1>2, <3>2 DEF Reserve
      <4>2. /\ reservations \in Seq(Reservations \cup {r})
            /\ r \in Reservations \cup {r}
        BY <1>1, SeqMonotonic
      <4> QED BY <4>1, <4>2
    <3> QED BY <3>1, <3>2
  <2> QED BY <1>1, <2>1, <2>2, NoConsumeRefines
<1>3. ASSUME NEW id \in Ids, Revoke(id)
      PROVE  Abstract!Next
  <2>1. UNCHANGED <<consumed, clock>> /\ barred \subseteq barred'
    BY <1>3 DEF Revoke
  <2>2. reservations' = reservations \/ Retires
    BY <1>3, LivePosition, RetireOne DEF Revoke
  <2> QED BY <1>1, <2>1, <2>2, NoConsumeRefines DEF Retires
<1>4. ASSUME NEW nonce \in Nonces, RevokeByOriginNonce(nonce)
      PROVE  Abstract!Next
  <2>1. UNCHANGED <<consumed, clock>> /\ barred \subseteq barred'
    BY <1>4 DEF RevokeByOriginNonce
  <2>2. Retires
    BY <1>4, CascadeRetires
  <2> QED BY <1>1, <2>1, <2>2, NoConsumeRefines DEF Retires
<1>5. ASSUME NEW id \in Ids, Consume(id)
      PROVE  Abstract!Next \/ UNCHANGED <<Spent, Dead>>
  <2>1. CASE Live(id, clock)
    BY <1>5, <2>1, ConsumeRefines
  <2>2. CASE ~Live(id, clock)
    BY <1>5, <2>2 DEF Consume, Spent, Dead, Expired
  <2> QED BY <2>1, <2>2
<1>6. CASE Clear
  <2>1. UNCHANGED consumed /\ Expired \cup barred \subseteq barred'
    BY <1>6 DEF Clear, Expired
  <2>2. Dead \subseteq Dead'
    BY <2>1 DEF Dead
  <2> QED BY <2>1, <2>2, KillRefines
<1>7. CASE Tick
  BY <1>1, <1>7, NoConsumeRefines DEF Tick
<1>8. ASSUME UNCHANGED <<reservations, clock, consumed, barred>>
      PROVE  UNCHANGED <<Spent, Dead>>
  BY <1>8 DEF Spent, Dead, Expired
<1>9. ASSUME NEW id \in Ids, Grant(id)
      PROVE  UNCHANGED <<Spent, Dead>>
  BY <1>8, <1>9 DEF Grant
<1>10. CASE UNCHANGED vars
  BY <1>8, <1>10 DEF vars
<1> QED BY <1>2, <1>3, <1>4, <1>5, <1>6, <1>7, <1>9, <1>10 DEF Next

\* An empty ledger maps to the state in which no token is spent or dead.
LEMMA LedgerInitRefines == Init => Abstract!Init
<1> SUFFICES ASSUME Init PROVE Spent = {} /\ Dead = {}
  BY DEF Abstract!Init
<1>1. reservations = << >> /\ consumed = {} /\ barred = {}
  BY DEF Init
<1>2. Expired = {}
  BY <1>1 DEF Expired
<1> QED BY <1>1, <1>2 DEF Spent, Dead

\* The ledger implements the one-shot tokens: no order of reserve, grant,
\* revoke, cascade, expiry, clear and consume lets a grant be used twice, or
\* after its reservation was taken back or ran out.
THEOREM LedgerImplementsOneShot == Spec => ImplementsOneShot
BY LedgerInitRefines, LedgerStepRefines, LedgerInvariant, PTL
   DEF Spec, ImplementsOneShot, Abstract!Spec
=============================================================================
