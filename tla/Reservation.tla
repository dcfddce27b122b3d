----------------------------- MODULE Reservation -----------------------------
(***************************************************************************)
(* The reservation ledger of the RESERVE phase (src/auth/reservation.rs).  *)
(*                                                                         *)
(* The ledger is a bounded vector; the node, action and generation of a    *)
(* reservation are carried along and never looked at, so they are left     *)
(* out.  Expiry is lazy: it is computed from the caller's clock, which     *)
(* never runs backwards, and is never stored.  No operation but clear      *)
(* removes a reservation.                                                  *)
(***************************************************************************)
EXTENDS Integers, Sequences, FiniteSets

CONSTANTS
    Nonces,           \* nonces of the capabilities reservations come from
    Ttls,             \* tick counts callers ask for
    MaxReservations,  \* MAX_RESERVATIONS, capacity of the vector
    MaxTtl,           \* MAX_RESERVATION_TTL
    IdMax,            \* u64::MAX, where next_id saturates
    TickMax,          \* u64::MAX, where expires_at saturates
    MaxConsumed       \* bound: consumptions recorded by the history

ASSUME ReservationConstants ==
    /\ Ttls \subseteq Nat
    /\ MaxReservations \in Nat /\ MaxTtl \in Nat
    /\ IdMax \in Nat /\ TickMax \in Nat /\ MaxConsumed \in Nat

VARIABLES
    reservations,     \* sequence of [id, origin_nonce, created_at, ttl, status]
    next_id,
    clock,            \* the caller's logical tick, passed as `now`
    result,           \* what the last call returned
    consumed,         \* history: <<id, n>>, the n-th successful consume
    barred            \* history: ids a caller was told are revoked or cleared

vars == <<reservations, next_id, clock, result, consumed, barred>>

Ids == 0 .. IdMax

SatAdd(a, b, max) == IF a + b < max THEN a + b ELSE max

ExpiresAt(r) == SatAdd(r.created_at, r.ttl, TickMax)

ValidTtl(ticks) == ticks > 0 /\ ticks <= MaxTtl

\* Positions that hold id; find and find_mut take the first.
Holding(id) == {i \in 1 .. Len(reservations) : reservations[i].id = id}

Find(id) == CHOOSE i \in Holding(id) : \A j \in Holding(id) : i <= j

Unexpired(r, now) == r.status = "Active" /\ now < ExpiresAt(r)

\* Mutant: expiry is only looked at when the reservation is granted.
LiveIgnoringExpiry(id, now) ==
    Holding(id) # {} /\ reservations[Find(id)].status = "Active"

\* effective_status(id, now) = Some(Active), the test of grant and consume.
Live(id, now) ==
    Holding(id) # {} /\ Unexpired(reservations[Find(id)], now)

-----------------------------------------------------------------------------

Init ==
    /\ reservations = << >>
    /\ next_id = 0
    /\ clock = 0
    /\ result = "Ok"
    /\ consumed = {}
    /\ barred = {}

\* Mutant: off by one at the capacity of the vector.
HasRoomOffByOne == Len(reservations) <= MaxReservations

\* The push of reserve succeeds.
HasRoom == Len(reservations) < MaxReservations

\* ReservationTtl::new followed by ReservationLedger::reserve.
Reserve(nonce, ticks) ==
    LET r == [id |-> next_id, origin_nonce |-> nonce, created_at |-> clock,
              ttl |-> ticks, status |-> "Active"]
    IN  /\ IF ~ValidTtl(ticks)
           THEN result' = "BadTtl" /\ UNCHANGED <<reservations, next_id>>
           ELSE IF ~HasRoom
           THEN result' = "CapacityExhausted"
                /\ UNCHANGED <<reservations, next_id>>
           ELSE /\ result' = "Ok"
                /\ reservations' = Append(reservations, r)
                /\ next_id' = SatAdd(next_id, 1, IdMax)
        /\ UNCHANGED <<clock, consumed, barred>>

\* ReservationLedger::revoke: only the stored status counts, so a lazily
\* expired reservation is still revoked.
Revoke(id) ==
    LET ok == Holding(id) # {} /\ reservations[Find(id)].status = "Active"
    IN  /\ reservations' = IF ok
                           THEN [reservations EXCEPT ![Find(id)].status = "Revoked"]
                           ELSE reservations
        /\ result' = IF ok THEN "True" ELSE "False"
        /\ barred' = IF ok THEN barred \cup {id} ELSE barred
        /\ UNCHANGED <<next_id, clock, consumed>>

\* Positions whose reservation came from the capability with this nonce.
FromNonce(nonce) ==
    {i \in 1 .. Len(reservations) : reservations[i].origin_nonce = nonce}

\* Mutant: the cascade stops at the first match, as revoke does.
RevokeByOriginNonceFirst(nonce) ==
    /\ reservations' =
          [i \in 1 .. Len(reservations) |->
              IF /\ i \in FromNonce(nonce)
                 /\ \A j \in FromNonce(nonce) : i <= j
                 /\ reservations[i].status = "Active"
              THEN [reservations[i] EXCEPT !.status = "Revoked"]
              ELSE reservations[i]]
    /\ barred' = barred \cup {reservations[i].id : i \in FromNonce(nonce)}
    /\ result' = "Cascaded"
    /\ UNCHANGED <<next_id, clock, consumed>>

\* ReservationLedger::revoke_by_origin_nonce.
RevokeByOriginNonce(nonce) ==
    /\ reservations' =
          [i \in 1 .. Len(reservations) |->
              IF i \in FromNonce(nonce) /\ reservations[i].status = "Active"
              THEN [reservations[i] EXCEPT !.status = "Revoked"]
              ELSE reservations[i]]
    /\ barred' = barred \cup {reservations[i].id : i \in FromNonce(nonce)}
    /\ result' = "Cascaded"
    /\ UNCHANGED <<next_id, clock, consumed>>

\* ReservationLedger::consume.
Consume(id) ==
    /\ Cardinality(consumed) < MaxConsumed
    /\ IF Live(id, clock)
       THEN /\ reservations' =
                  [reservations EXCEPT ![Find(id)].status = "Consumed"]
            /\ consumed' = consumed \cup {<<id, Cardinality(consumed)>>}
            /\ result' = "Consumed"
       ELSE /\ result' = "NotActive"
            /\ UNCHANGED <<reservations, consumed>>
    /\ UNCHANGED <<next_id, clock, barred>>

\* ReservationLedger::grant changes nothing: the grant can be asked for again
\* and carries no authority of its own.
Grant(id) ==
    /\ result' = IF Live(id, clock) THEN "Granted" ELSE "NotActive"
    /\ UNCHANGED <<reservations, next_id, clock, consumed, barred>>

\* Mutant: clearing the ledger also starts the identifiers over.
ClearResettingIds ==
    /\ reservations' = << >>
    /\ next_id' = 0
    /\ barred' = barred \cup {reservations[i].id : i \in DOMAIN reservations}
    /\ result' = "Cleared"
    /\ UNCHANGED <<clock, consumed>>

\* ReservationLedger::clear: next_id goes on, so no identifier comes back.
Clear ==
    /\ reservations' = << >>
    /\ barred' = barred \cup {reservations[i].id : i \in DOMAIN reservations}
    /\ result' = "Cleared"
    /\ UNCHANGED <<next_id, clock, consumed>>

\* The caller's clock advances.
Tick ==
    /\ clock < TickMax
    /\ clock' = clock + 1
    /\ UNCHANGED <<reservations, next_id, result, consumed, barred>>

Next ==
    \/ \E nonce \in Nonces, ticks \in Ttls : Reserve(nonce, ticks)
    \/ \E id \in Ids : Revoke(id)
    \/ \E nonce \in Nonces : RevokeByOriginNonce(nonce)
    \/ \E id \in Ids : Grant(id)
    \/ \E id \in Ids : Consume(id)
    \/ Clear
    \/ Tick

Spec == Init /\ [][Next]_vars

-----------------------------------------------------------------------------

Statuses == {"Active", "Revoked", "Consumed"}

Results == {"Ok", "BadTtl", "CapacityExhausted", "True", "False", "Cascaded",
            "Consumed", "NotActive", "Granted", "Cleared"}

Reservations ==
    [id : Ids, origin_nonce : Nonces, created_at : 0 .. TickMax,
     ttl : {t \in Ttls : ValidTtl(t)}, status : Statuses]

\* Type invariant.  The vector never outgrows its capacity, every stored
\* lifetime passed ReservationTtl::new, and Expired is never stored.
ResTypeOK ==
    /\ reservations \in Seq(Reservations)
    /\ Len(reservations) <= MaxReservations
    /\ next_id \in Ids
    /\ clock \in 0 .. TickMax
    /\ result \in Results
    /\ consumed \subseteq Ids \X Nat /\ IsFiniteSet(consumed)
    /\ barred \subseteq Ids

\* Below the saturation of next_id an identifier is consumed at most once in
\* the life of the ledger, whatever grants were taken before and however often
\* it was cleared in between (reserve, consume and clear together).
ConsumedOnce ==
    \A a, b \in consumed : a[1] = b[1] /\ a[1] < IdMax => a = b

Tokens == 0 .. IdMax - 1

Uses == 0 .. MaxConsumed

\* Refinement mapping: an identifier is dead once a caller was told so or its
\* time is over, unless it had been consumed before.
Spent == {c \in consumed : c[1] \in Tokens}

Expired ==
    {reservations[i].id : i \in
        {j \in DOMAIN reservations : clock >= ExpiresAt(reservations[j])}}

Dead == ((barred \cup Expired) \cap Tokens) \ {c[1] : c \in consumed}

Abstract == INSTANCE OneShotTokens WITH spent <- Spent, dead <- Dead

\* A reservation that a caller was told is gone, or whose time is over, can
\* not be consumed any more, not even by the holder of an earlier grant: the
\* ledger implements the one-shot tokens (consume, effective_status), and
\* revocation, cascade, expiry and clear are the ways a token dies.
ImplementsOneShot == Abstract!Spec
=============================================================================
