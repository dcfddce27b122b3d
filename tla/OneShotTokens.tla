---------------------------- MODULE OneShotTokens ----------------------------
(***************************************************************************)
(* What the capability gate and the reservation ledger promise, without    *)
(* windows, ledgers, clocks or logs: each token is spent at most once, and *)
(* a token that is dead (revoked, expired, rotated away, cleared) stays    *)
(* dead and is never spent.  A use is what tells two spendings apart.      *)
(* src/auth/capability.rs lines 25-31 and src/auth/reservation.rs lines    *)
(* 84-87, 350-352 state this promise in words.                             *)
(***************************************************************************)

CONSTANTS Tokens, Uses

VARIABLES spent, dead

Init == spent = {} /\ dead = {}

Spend(t, u) ==
    /\ t \notin dead
    /\ \A s \in spent : s[1] # t
    /\ spent' = spent \cup {<<t, u>>}
    /\ dead' = dead

\* Revocation kills one token, rotation and expiry possibly many.
Kill(S) ==
    /\ dead' = dead \cup S
    /\ spent' = spent

Next ==
    \/ \E t \in Tokens, u \in Uses : Spend(t, u)
    \/ \E S \in SUBSET Tokens : Kill(S)

Spec == Init /\ [][Next]_<<spent, dead>>
=============================================================================
