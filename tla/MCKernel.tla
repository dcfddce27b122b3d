------------------------------ MODULE MCKernel ------------------------------
(* A small instance of the running kernel. *)
EXTENDS Kernel

\* SHA-256 as the term it was computed from: equal only for equal inputs.
MCHash(prev, fields) == <<prev, fields>>
MCGenesisHash == << >>

\* Three tokens against a queue of one: two that are good now, one that
\* becomes good after a rotation and reuses a nonce.
MCCaps ==
    {[target |-> 1, rights |-> {"SCHEDULE"}, generation |-> t[1],
      nonce |-> t[2]] : t \in {<<0, 1>>, <<0, 2>>, <<1, 1>>}}

\* Node 3 is beyond MaxNodes = 2; node 2 is in the graph without a quota.
MCNodes == {1, 2, 3}
MCCeiling == [n \in {1} |-> 3]
MCManifestEdges == {<<1, 2>>}
=============================================================================
