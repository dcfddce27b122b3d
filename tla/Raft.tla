-------------------------------- MODULE Raft --------------------------------
(***************************************************************************)
(* The Raft state machine that validates topology traversals across nodes  *)
(* (src/consensus/).  node[n] is the RaftNode of server n; the handlers    *)
(* are operators from a node record and a message to the new record and    *)
(* the reply, as step() is.                                                *)
(*                                                                         *)
(* The transport belongs to the caller (trait RaftTransport): net is the   *)
(* bag of messages in flight.  Any message may be lost when it is sent,    *)
(* the others are delivered in any order, up to MaxDuplicates of them      *)
(* twice.  The node has no timers: elections and proposals happen when the *)
(* caller says so, and AppendEntries is sent by propose only.              *)
(***************************************************************************)
EXTENDS Integers, Sequences, FiniteSets, Bags

CONSTANTS
    Servers,          \* node identifiers of the cluster
    Values,           \* the edges (src, dst) that may be proposed
    Nobody,           \* voted_for = None
    MaxTerm,          \* bound: no election beyond this term
    LogCap,           \* capacity N of RaftLog
    MaxBatch,         \* capacity of the entries vector of AppendEntries
    MaxInFlight,      \* bound: messages the transport holds at once
    MaxDuplicates,    \* bound: messages the transport delivers twice
    MaxNewRounds      \* bound: rounds begun with a new RaftNode

ASSUME RaftConstants ==
    /\ IsFiniteSet(Servers) /\ Nobody \notin Servers
    /\ MaxTerm \in Nat /\ LogCap \in Nat /\ MaxBatch \in Nat
    /\ MaxInFlight \in Nat /\ MaxDuplicates \in Nat /\ MaxNewRounds \in Nat

VARIABLES
    node,             \* the RaftNode of each server
    net,              \* bag of messages in flight
    duplicates, new_rounds,   \* how often the environment used its bounds
    elected,          \* history: <<term, server>> of every leader
    chosen            \* history: what some node considered committed, and
                      \* the earliest term in which one did

vars == <<node, net, duplicates, new_rounds, elected, chosen>>

-----------------------------------------------------------------------------
(* The log (src/consensus/log.rs) and the node's helpers *)

LastTerm(log) == IF log = << >> THEN 0 ELSE log[Len(log)].term

\* PeerSet as every server's caller should fill it: each other server once.
\* (PeerSet::add also takes a peer twice and refuses the 17th.)
Peers(n) == Servers \ {n}

FreshNode(n) ==
    [role |-> "Follower", current_term |-> 0, voted_for |-> Nobody,
     log |-> << >>, commit_index |-> 0, votes_granted |-> 0,
     next_index |-> [p \in Peers(n) |-> 1],
     match_index |-> [p \in Peers(n) |-> 0]]

\* Mutant: half of the cluster is enough.
QuorumHalf(s) == (Cardinality(DOMAIN s.next_index) + 1) \div 2

\* Mutant: PeerSet::quorum_threshold, which is one vote less for an odd number
\* of peers.
QuorumThreshold(s) == Cardinality(DOMAIN s.next_index) \div 2 + 1

\* RaftNode::quorum, from the number of peers: div_ceil(2) + 1.
Quorum(s) == (Cardinality(DOMAIN s.next_index) + 1) \div 2 + 1

StepDown(s, term) ==
    [s EXCEPT !.current_term = term, !.role = "Follower", !.voted_for = Nobody]

BecomeLeader(s) ==
    [s EXCEPT !.role = "Leader",
              !.next_index = [p \in DOMAIN @ |-> Len(s.log) + 1],
              !.match_index = [p \in DOMAIN @ |-> 0]]

\* Mutant: only the lengths of the logs are compared.
LogUpToDateByLength(s, lastIndex, lastTerm) == lastIndex >= Len(s.log)

\* Mutant: the logs are not compared at all.
LogUpToDateUnchecked(s, lastIndex, lastTerm) == TRUE

LogUpToDateFor(s, lastIndex, lastTerm) ==
    \/ lastTerm > LastTerm(s.log)
    \/ lastTerm = LastTerm(s.log) /\ lastIndex >= Len(s.log)

MinOf(a, b) == IF a < b THEN a ELSE b

\* RaftNode::send_ae_to: up to MaxBatch entries from next_index on.
AppendEntriesFor(s, from, to) ==
    LET next == s.next_index[to]
        prev == next - 1
    IN  [type |-> "AppendEntries", from |-> from, to |-> to,
         term |-> s.current_term, prev_index |-> prev,
         prev_term |-> IF prev \in 1 .. Len(s.log) THEN s.log[prev].term ELSE 0,
         entries |-> SubSeq(s.log, next, MinOf(Len(s.log), prev + MaxBatch)),
         leader_commit |-> s.commit_index]

-----------------------------------------------------------------------------
(* Message handlers: [state, reply], reply a set of at most one message *)

VoteReply(s, m, granted) ==
    [type |-> "RequestVoteReply", from |-> m.to, to |-> m.from,
     term |-> s.current_term, granted |-> granted]

OnRequestVote(s0, m) ==
    LET s       == IF m.term > s0.current_term THEN StepDown(s0, m.term) ELSE s0
        granted == /\ m.term >= s.current_term
                   /\ LogUpToDateFor(s, m.last_log_index, m.last_log_term)
                   /\ s.voted_for \in {Nobody, m.candidate_id}
    IN  [state |-> IF granted THEN [s EXCEPT !.voted_for = m.candidate_id]
                              ELSE s,
         reply |-> {VoteReply(s, m, granted)}]

\* The reply does not say who voted: every granted reply of the current term
\* adds one to the count.
OnVoteReply(s, m) ==
    LET counted == [s EXCEPT !.votes_granted = @ + IF m.granted THEN 1 ELSE 0]
    IN  [state |-> IF m.term > s.current_term THEN StepDown(s, m.term)
                   ELSE IF s.role # "Candidate" \/ m.term # s.current_term
                   THEN s
                   ELSE IF counted.votes_granted >= Quorum(s)
                   THEN BecomeLeader(counted)
                   ELSE counted,
         reply |-> {}]

\* Mutant: everything after the previous entry is replaced, matching or not.
AppendLogEntriesTruncating(log, prev, entries) ==
    SubSeq(log, 1, prev) \o entries

\* Mutant: an entry that conflicts is kept, only what is missing is appended.
AppendLogEntriesKeeping(log, prev, entries) ==
    log \o SubSeq(entries, Len(log) - prev + 1, Len(entries))

\* RaftNode::append_log_entries: entries that match are kept, the first one
\* that is missing or has another term replaces the rest of the log (what
\* does not fit in the log's capacity is dropped).
AppendLogEntries(log, prev, entries) ==
    LET differs == {j \in 1 .. Len(entries) :
                      \/ prev + j > Len(log)
                      \/ log[prev + j].term # entries[j].term}
        first   == CHOOSE j \in differs : \A k \in differs : j <= k
        merged  == SubSeq(log, 1, prev + first - 1)
                     \o SubSeq(entries, first, Len(entries))
    IN  IF differs = {} THEN log
                        ELSE SubSeq(merged, 1, MinOf(Len(merged), LogCap))

AppendReply(s, m, success, match) ==
    [type |-> "AppendEntriesReply", from |-> m.to, to |-> m.from,
     term |-> s.current_term, success |-> success, match_index |-> match]

\* Mutant: the entry before the batch is not compared.
PrevOkUnchecked(s, m) == m.prev_index <= Len(s.log)

PrevOk(s, m) ==
    \/ m.prev_index = 0
    \/ /\ m.prev_index <= Len(s.log)
       /\ s.log[m.prev_index].term = m.prev_term

\* RaftNode::on_append_entries.  The commit index follows the leader's up to
\* the end of the follower's whole log, not of the entries just checked.
OnAppendEntries(s0, m) ==
    LET s   == IF m.term > s0.current_term
               THEN StepDown(s0, m.term)
               ELSE [s0 EXCEPT !.role = "Follower"]
        log == AppendLogEntries(s.log, m.prev_index, m.entries)
    IN  IF m.term < s0.current_term
        THEN [state |-> s0, reply |-> {AppendReply(s0, m, FALSE, 0)}]
        ELSE IF ~PrevOk(s, m)
        THEN [state |-> s, reply |-> {AppendReply(s, m, FALSE, 0)}]
        ELSE [state |-> [s EXCEPT !.log = log,
                                  !.commit_index =
                                      IF m.leader_commit > @
                                      THEN MinOf(m.leader_commit, Len(log))
                                      ELSE @],
              reply |-> {AppendReply(s, m, TRUE,
                                     m.prev_index + Len(m.entries))}]

\* Mutant: entries of earlier terms are committed by counting acks.
CommittableAnyTerm(s) ==
    {i \in s.commit_index + 1 .. Len(s.log) :
        1 + Cardinality({p \in DOMAIN s.match_index : s.match_index[p] >= i})
          >= Quorum(s)}

\* The indices advance_commit_index may commit: own term, acked by a quorum.
Committable(s) ==
    {i \in s.commit_index + 1 .. Len(s.log) :
        /\ s.log[i].term = s.current_term
        /\ 1 + Cardinality({p \in DOMAIN s.match_index : s.match_index[p] >= i})
             >= Quorum(s)}

AdvanceCommitIndex(s) ==
    [s EXCEPT !.commit_index =
        IF Committable(s) = {} THEN @
        ELSE CHOOSE i \in Committable(s) : \A k \in Committable(s) : k <= i]

\* Mutant: an acknowledgement is taken for all that was sent by now.
OnAeReplyOptimistic(s, m) ==
    LET acked == [s EXCEPT !.next_index[m.from] = Len(s.log) + 1,
                           !.match_index[m.from] = Len(s.log)]
    IN  [state |-> IF m.term > s.current_term THEN StepDown(s, m.term)
                   ELSE IF s.role # "Leader" \/ m.term # s.current_term THEN s
                   ELSE IF m.success THEN AdvanceCommitIndex(acked) ELSE s,
         reply |-> {}]

\* RaftNode::on_ae_reply.  A failure only lowers next_index; nothing is sent
\* again until the next proposal.
OnAeReply(s, m) ==
    LET acked  == [s EXCEPT !.next_index[m.from] = m.match_index + 1,
                            !.match_index[m.from] = m.match_index]
        backed == [s EXCEPT !.next_index[m.from] = IF @ > 1 THEN @ - 1 ELSE @]
    IN  [state |-> IF m.term > s.current_term THEN StepDown(s, m.term)
                   ELSE IF s.role # "Leader" \/ m.term # s.current_term THEN s
                   ELSE IF m.success THEN AdvanceCommitIndex(acked) ELSE backed,
         reply |-> {}]

\* RaftNode::step.
StepOf(s, m) ==
    CASE m.type = "RequestVote"        -> OnRequestVote(s, m)
      [] m.type = "RequestVoteReply"   -> OnVoteReply(s, m)
      [] m.type = "AppendEntries"      -> OnAppendEntries(s, m)
      [] m.type = "AppendEntriesReply" -> OnAeReply(s, m)

-----------------------------------------------------------------------------
(* The caller and the transport *)

\* History: n now has record s.
Became(n, s) ==
    /\ node' = [node EXCEPT ![n] = s]
    /\ elected' = IF s.role = "Leader"
                  THEN elected \cup {<<s.current_term, n>>} ELSE elected
    /\ chosen' = chosen \cup
          {[index |-> i, entry |-> s.log[i], term |-> s.current_term] :
              i \in {j \in node[n].commit_index + 1 .. s.commit_index :
                        ~\E c \in chosen : /\ c.index = j
                                           /\ c.entry = s.log[j]
                                           /\ c.term <= s.current_term}}

\* transport.send() of each message of ms: any of them may be lost.
Transmit(inflight, ms) ==
    \E kept \in SUBSET ms :
        /\ BagCardinality(inflight) + Cardinality(kept) <= MaxInFlight
        /\ net' = inflight (+) SetToBag(kept)

\* RaftNode::start_election, on record s0 of server n.
Campaign(n, s0) ==
    LET s == [s0 EXCEPT !.current_term = @ + 1, !.role = "Candidate",
                        !.voted_for = n, !.votes_granted = 1]
        request(p) == [type |-> "RequestVote", from |-> n, to |-> p,
                       term |-> s.current_term, candidate_id |-> n,
                       last_log_index |-> Len(s.log),
                       last_log_term |-> LastTerm(s.log)]
    IN  /\ s0.current_term < MaxTerm
        /\ Became(n, IF Peers(n) = {} THEN BecomeLeader(s) ELSE s)
        /\ Transmit(net, {request(p) : p \in Peers(n)})
        /\ UNCHANGED duplicates

StartElection(n) == Campaign(n, node[n]) /\ UNCHANGED new_rounds

\* run_topology_consensus opens every round with a RaftNode of its own, in
\* term 0 with an empty log, and campaigns at once: what the server's node
\* of an earlier round had voted, appended or committed is forgotten.
NewRound(n) ==
    /\ new_rounds < MaxNewRounds
    /\ node[n].current_term > 0
    /\ new_rounds' = new_rounds + 1
    /\ Campaign(n, FreshNode(n))

\* Mutant: the capacity of the log is not respected.
ProposeUnbounded(n, v) ==
    LET s == [node[n] EXCEPT !.log =
                 Append(@, [term |-> node[n].current_term, value |-> v])]
    IN  /\ node[n].role = "Leader"
        /\ Len(node[n].log) <= LogCap
        /\ Became(n, s)
        /\ Transmit(net, {AppendEntriesFor(s, n, p) : p \in Peers(n)})
        /\ UNCHANGED <<duplicates, new_rounds>>

\* RaftNode::propose on a leader with room in its log; otherwise it returns
\* an error and changes nothing.
Propose(n, v) ==
    LET s == [node[n] EXCEPT !.log =
                 Append(@, [term |-> node[n].current_term, value |-> v])]
    IN  /\ node[n].role = "Leader"
        /\ Len(node[n].log) < LogCap
        /\ Became(n, IF Peers(n) = {}
                     THEN [s EXCEPT !.commit_index = Len(s.log)] ELSE s)
        /\ Transmit(net, {AppendEntriesFor(s, n, p) : p \in Peers(n)})
        /\ UNCHANGED <<duplicates, new_rounds>>

\* transport.recv() yields m and the caller feeds it to step().
Deliver(m) ==
    LET r == StepOf(node[m.to], m)
    IN  /\ Became(m.to, r.state)
        /\ Transmit(net (-) SetToBag({m}), r.reply)
        /\ UNCHANGED <<duplicates, new_rounds>>

\* The transport delivers a message once more.
Duplicate(m) ==
    /\ duplicates < MaxDuplicates
    /\ BagCardinality(net) < MaxInFlight
    /\ duplicates' = duplicates + 1
    /\ net' = net (+) SetToBag({m})
    /\ UNCHANGED <<node, new_rounds, elected, chosen>>

Init ==
    /\ node = [n \in Servers |-> FreshNode(n)]
    /\ net = EmptyBag
    /\ duplicates = 0 /\ new_rounds = 0
    /\ elected = {} /\ chosen = {}

Next ==
    \/ \E n \in Servers : StartElection(n)
    \/ \E n \in Servers, v \in Values : Propose(n, v)
    \/ \E m \in BagToSet(net) : Deliver(m)
    \/ \E m \in BagToSet(net) : Duplicate(m)
    \/ \E n \in Servers : NewRound(n)

Spec == Init /\ [][Next]_vars

-----------------------------------------------------------------------------
(* Properties *)

Entries == [term : 1 .. MaxTerm, value : Values]

\* Every node record stays in its range; logs never outgrow their capacity
\* and commit_index never points past the log.
RaftTypeOK ==
    /\ \A n \in Servers :
          /\ node[n].role \in {"Follower", "Candidate", "Leader"}
          /\ node[n].current_term \in 0 .. MaxTerm
          /\ node[n].voted_for \in Servers \cup {Nobody}
          /\ Len(node[n].log) <= LogCap
          /\ \A i \in 1 .. Len(node[n].log) : node[n].log[i] \in Entries
          /\ node[n].commit_index \in 0 .. Len(node[n].log)
          /\ \A p \in Peers(n) : /\ node[n].next_index[p] \in 1 .. LogCap + 1
                                 /\ node[n].match_index[p] \in 0 .. LogCap
    /\ IsABag(net)

\* At most one server is ever leader of a term, although replies are counted
\* without looking at who sent them (raft.rs lines 355-375, 282-284).  In
\* clusters of two or three a repeated reply does no harm, because one vote
\* besides the candidate's own is already a quorum; in a cluster of four it
\* does, and this does not hold; nor does it with three servers and NewRound,
\* which forgets votes.
ElectionSafety ==
    \A a, b \in elected : a[1] = b[1] => a = b

\* Two logs that agree on the term of an entry agree on everything up to it
\* (raft.rs append_log_entries and the prev_log check).
LogMatching ==
    \A n, m \in Servers :
        \A i \in 1 .. MinOf(Len(node[n].log), Len(node[m].log)) :
            node[n].log[i].term = node[m].log[i].term =>
                SubSeq(node[n].log, 1, i) = SubSeq(node[m].log, 1, i)

\* A leader holds every entry that was committed in an earlier term: the
\* vote's log comparison and the own-term commit rule work together
\* (raft.rs log_up_to_date_for, advance_commit_index).
LeaderCompleteness ==
    \A n \in Servers : node[n].role = "Leader" =>
        \A c \in chosen : c.term < node[n].current_term =>
            /\ c.index <= Len(node[n].log)
            /\ node[n].log[c.index] = c.entry

\* No two nodes ever consider different entries committed at one index
\* (consensus/mod.rs lines 3-4, "a correct, linearisable Raft").
CommittedAgreement ==
    \A c, d \in chosen : c.index = d.index => c.entry = d.entry

\* When a leader commits an entry, a quorum of servers holds it: "a quorum
\* agreed to the entry" (boot/mod.rs line 144), "the entry has been committed
\* by a quorum" (raft.rs line 12).
CommitHeldByQuorum ==
    [][\A n \in Servers :
          LET c == node'[n].commit_index
          IN  /\ node'[n].role = "Leader"
              /\ c > node[n].commit_index
              => Cardinality({p \in Servers :
                                /\ c <= Len(node'[p].log)
                                /\ node'[p].log[c] = node'[n].log[c]})
                   >= Quorum(node'[n])]_vars

\* What a leader believes a peer has acknowledged is really there while the
\* peer is in the leader's term: the acknowledged prefixes are equal, also
\* after late, reordered or repeated replies (raft.rs lines 412, 439, 457).
AckSound ==
    \A n \in Servers : node[n].role = "Leader" =>
        \A p \in Peers(n) :
            node[p].current_term = node[n].current_term =>
                LET m == node[n].match_index[p]
                IN  /\ m <= Len(node[p].log)
                    /\ SubSeq(node[p].log, 1, m) = SubSeq(node[n].log, 1, m)

\* A node's committed prefix only grows: no AppendEntries, however late,
\* truncates or rewrites it (raft.rs append_log_entries, truncate_from).
CommittedPrefixStable ==
    [][\A n \in Servers :
          LET c == node[n].commit_index
          IN  /\ node'[n].commit_index >= c
              /\ SubSeq(node'[n].log, 1, c) = SubSeq(node[n].log, 1, c)]_vars
=============================================================================
