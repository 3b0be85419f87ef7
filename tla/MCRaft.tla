------------------------------- MODULE MCRaft -------------------------------
(* Instances of Raft for TLC.  A behaviour is bounded in one of several    *)
(* ways: how many terms, messages in flight and client requests there are, *)
(* and whether nodes restart.                                              *)
EXTENDS Raft, TLC

CONSTANT Instances
VARIABLE instance   \* the bounds of this behaviour

Bounds(terms, inFlight, requests, restarts) ==
    [terms |-> terms, inFlight |-> inFlight, requests |-> requests, restarts |-> restarts]

ManyTerms == Bounds(3, 1, 0, FALSE)
ManyMessages == Bounds(2, 2, 0, FALSE)
OneRequest == Bounds(2, 1, 1, FALSE)
Replication == {ManyTerms, Bounds(2, 1, 0, TRUE)}
MessageOrders == {ManyMessages, OneRequest}

MCInit == Init /\ instance \in Instances
Submitted == {id \in Requests : client[id].state # "idle"}
MCNext ==
    /\ \/ /\ Cardinality(Submitted) < instance.requests
          /\ \E i \in Nodes, id \in Requests : ClientRequest(i, id)
       \/ \E m \in net : Receive(m)
       \/ \E i \in Nodes : node[i].term < instance.terms /\ ElectionTimeout(i)
       \/ \E i \in Nodes : HeartbeatTimeout(i)
       \/ instance.restarts /\ \E i \in Nodes : Restart(i)
    /\ instance' = instance
    /\ Cardinality(net') <= instance.inFlight
    /\ \A i \in Nodes : node'[i].term <= instance.terms
MCSpec == MCInit /\ [][MCNext]_<<vars, instance>>

Symmetry == Permutations(Nodes)
=============================================================================
