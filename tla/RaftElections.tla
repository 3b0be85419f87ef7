---------------------------- MODULE RaftElections ----------------------------
(***************************************************************************)
(* The Raft cluster with a record of every vote that a node has stored.    *)
(* A node keeps only its vote in the current term (log.rs, Key::TermVote); *)
(* the history variable keeps them all, so that elections of past terms,   *)
(* and leaders that have since crashed, can be talked about.               *)
(***************************************************************************)
EXTENDS Raft

VARIABLE ballots   \* every <<term, voter, candidate>> ever stored

VotesIn(nodes) ==
    {<<nodes[i].term, i, nodes[i].vote>> : i \in {j \in Nodes : nodes[j].vote # None}}

HInit == Init /\ ballots = VotesIn(node)
HNext == Next /\ ballots' = ballots \cup VotesIn(node')
hvars == <<node, net, client, ballots>>
HSpec == HInit /\ [][HNext]_hvars

Supporters(term, c) == {v \in Nodes : <<term, v, c>> \in ballots}
Won(term, c) == Cardinality(Supporters(term, c)) >= QuorumSize

\* At most one node wins the election of a term, counting every vote ever
\* stored, and whoever leads has won: a term never has two leaders, not even
\* one after the other across crashes and restarts.
ElectionSafety ==
    /\ \A b, d \in ballots :
          b[1] = d[1] /\ Won(b[1], b[3]) /\ Won(d[1], d[3]) => b[3] = d[3]
    /\ \A i \in Nodes : node[i].role.kind = "leader" => Won(node[i].term, i)

-----------------------------------------------------------------------------
(* The inductive invariant behind ElectionSafety. *)

\* The vote on disk is the last one the node has cast: votes of its current
\* term are that vote, and none is of a later term.
BallotsOnDisk ==
    \A b \in ballots :
        /\ b \in Nat \X Nodes \X Nodes
        /\ \/ b[1] < node[b[2]].term
           \/ b[1] = node[b[2]].term /\ b[3] = node[b[2]].vote

\* A node votes at most once in a term.
OneVotePerTerm ==
    \A b, d \in ballots : b[1] = d[1] /\ b[2] = d[2] => b[3] = d[3]

\* The votes that a candidate has counted, and those still in flight to it,
\* were cast for it in the term they are counted for.
CountedVotesCast ==
    /\ \A i \in Nodes : node[i].role.kind = "candidate" =>
          \A v \in node[i].role.votes : <<node[i].term, v, i>> \in ballots
    /\ \A m \in net : m.message.type = "CampaignResponse" /\ m.message.vote =>
          <<m.term, m.from, m.to>> \in ballots

\* The inductive strengthening of ElectionSafety: what SetTermVote stores
\* before a vote is answered is enough, whatever crashes.
ElectionIInv ==
    /\ BallotsOnDisk
    /\ OneVotePerTerm
    /\ CountedVotesCast
    /\ \A i \in Nodes : node[i].role.kind = "leader" => Won(node[i].term, i)
=============================================================================
