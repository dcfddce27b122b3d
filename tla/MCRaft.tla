------------------------------- MODULE MCRaft -------------------------------
(* Small clusters. *)
EXTENDS Raft, TLC

CONSTANTS n1, n2, n3, n4

MCServers == {n1, n2, n3}
MCServers2 == {n1, n2}
MCServers4 == {n1, n2, n3, n4}

\* Servers are interchangeable: no action or property names one.
Symmetry == Permutations(MCServers)
Symmetry2 == Permutations(MCServers2)
Symmetry4 == Permutations(MCServers4)

\* For the search for one schedule: n1 leads term 1 and proposes twice, n2
\* the later terms, and n3 follows as far as the second entry.
OneLeaderAtATime ==
    /\ \A e \in elected : e[2] = IF e[1] = 1 THEN n1 ELSE n2
    /\ node[n1].role = "Candidate" => node[n1].current_term = 1
    /\ node[n2].role = "Candidate" => node[n2].current_term > 1
    /\ node[n3].role = "Follower"
    /\ Len(node[n1].log) <= 2 /\ Len(node[n3].log) <= 2
    /\ Len(node[n2].log) <= node[n2].current_term + 1

\* n1 and n3 take turns as leader and n2 only ever votes.
OnlyN2Votes == node[n2].role = "Follower"
Symmetry13 == Permutations({n1, n3})

\* n1 runs one round after the other; its peers keep their RaftNode.
OnlyN1Campaigns ==
    node[n2].role = "Follower" /\ node[n3].role = "Follower"
=============================================================================
