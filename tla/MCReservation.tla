---------------------------- MODULE MCReservation ----------------------------
(***************************************************************************)
(* A ledger of two reservations, two capability nonces and a clock that    *)
(* reaches its maximum: identifiers saturate, lifetimes reach the end of   *)
(* the clock, the ledger fills and is cleared.                             *)
(***************************************************************************)
EXTENDS Reservation

CONSTANTS c1, c2

MCNonces == {c1, c2}

\* 0 and 3 are the lifetimes ReservationTtl::new turns down.
MCTtls == 0 .. 3
=============================================================================
