------------------------------ MODULE MCPolicy ------------------------------
(* A small instance of the capability gate. *)
EXTENDS Policy

\* SHA-256 as the term it was computed from: equal only for equal inputs.
MCHash(prev, fields) == <<prev, fields>>
MCGenesisHash == << >>

MCNonces == {1, 2, 3}
MCRights == {"SCHEDULE", "DELEGATE"}

Cap(target, rights, generation, nonce) ==
    [target |-> target, rights |-> rights,
     generation |-> generation, nonce |-> nonce]

\* Three nonces against a window of two in generation 0, the nonce of one of
\* them reused in each later generation, and a twin for another target that
\* shares nonce 1 but lacks the right.
MCCaps ==
    {Cap(1, {"SCHEDULE"}, 0, n) : n \in MCNonces}
      \cup {Cap(1, {"SCHEDULE"}, g, 1) : g \in 1 .. 2}
      \cup {Cap(2, {"DELEGATE"}, 0, 1)}
=============================================================================
