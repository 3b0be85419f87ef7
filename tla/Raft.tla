-------------------------------- MODULE Raft --------------------------------
(***************************************************************************)
(* The Raft cluster of src/raft/: nodes (node.rs) with their durable logs  *)
(* (log.rs), exchanging envelopes (message.rs) over the lossy, reordering  *)
(* links of server.rs, and serving client requests.                        *)
(*                                                                         *)
(* A node is a record.  The handlers of node.rs are operators from a node  *)
(* record to a node record, composed as the code composes its methods, so  *)
(* one action is one whole call of Node::step or Node::tick.  The field tx *)
(* collects what a call sends; the action then routes it.  A failed        *)
(* assertion or a panic! of the code sets the field panicked: the routing  *)
(* thread is dead and the node can only be restarted.                      *)
(*                                                                         *)
(* Ticks are abstracted: a timeout may fire at any tick.  Commands are     *)
(* the identifiers of the requests that carry them, and the state machine  *)
(* (state.rs) is the sequence of entries applied to it.                    *)
(***************************************************************************)
EXTENDS Integers, Sequences, FiniteSets

CONSTANTS
    Nodes,        \* node IDs: every node has the same peers
    None,         \* Option::None, for a vote or a leader
    Writes,       \* IDs of the clients' write requests; also the commands
    Reads,        \* IDs of the clients' read requests
    Statuses,     \* IDs of the clients' status requests
    Noop,         \* the empty command of a new leader
    MaxTerm,      \* bound: no campaign beyond this term
    MaxAppend,    \* Options::max_append_entries
    MaxInFlight   \* bound: messages in flight; what exceeds it is dropped

ASSUME NodesAssumption == IsFiniteSet(Nodes) /\ Nodes # {} /\ None \notin Nodes
ASSUME RequestsAssumption ==
    Writes \cap Reads = {} /\ Statuses \cap (Writes \cup Reads) = {}
ASSUME BoundsAssumption == MaxTerm \in Nat /\ MaxAppend \in Nat \ {0}

VARIABLES
    node,     \* node[i]: the state of node i
    net,      \* envelopes in flight between two nodes
    client    \* client[id]: what the client that submitted id has seen

vars == <<node, net, client>>

Requests == Writes \cup Reads \cup Statuses
QuorumSize == Cardinality(Nodes) \div 2 + 1
Peers(n) == Nodes \ {n.id}
Max(a, b) == IF a >= b THEN a ELSE b
Min(a, b) == IF a <= b THEN a ELSE b
IsPrefix(s, t) == Len(s) <= Len(t) /\ s = SubSeq(t, 1, Len(s))

\* The quorum value: the QuorumSize-th largest of one value per node.
QuorumValue(f) ==
    CHOOSE v \in {f[i] : i \in Nodes} :
        /\ Cardinality({i \in Nodes : f[i] >= v}) >= QuorumSize
        /\ Cardinality({i \in Nodes : f[i] > v}) < QuorumSize

Check(n, cond) == [n EXCEPT !.panicked = @ \/ ~cond]

-----------------------------------------------------------------------------
(* Envelopes. *)

Envelope(n, to, message) ==
    [from |-> n.id, to |-> to, term |-> n.term, message |-> message]
Send(n, to, message) == [n EXCEPT !.tx = @ \cup {Envelope(n, to, message)}]
Broadcast(n, message) ==
    [n EXCEPT !.tx = @ \cup {Envelope(n, p, message) : p \in Peers(n)}]

Abort == [result |-> "abort"]
Done(index) == [result |-> "done", index |-> index]
ClientResponse(id, response) ==
    [type |-> "ClientResponse", id |-> id, response |-> response]
SendResponses(n, requests, response) ==
    [n EXCEPT !.tx = @ \cup
        {Envelope(n, r.from, ClientResponse(r.id, response)) : r \in requests}]

-----------------------------------------------------------------------------
(* The log.  Term, vote and entries are flushed by the call that changes   *)
(* them, the commit index is not (see Restart).                            *)

LastIndex(n) == Len(n.log)
TermAt(n, index) == IF index = 0 THEN 0 ELSE n.log[index].term
LastTerm(n) == TermAt(n, LastIndex(n))
Has(n, index, term) == index \in 1 .. LastIndex(n) /\ n.log[index].term = term

SetTermVote(n, term, vote) ==
    IF term = n.term /\ vote = n.vote
    THEN n
    ELSE [Check(n, term > n.term \/ (term = n.term /\ n.vote = None))
          EXCEPT !.term = term, !.vote = vote]

LogAppend(n, command) ==
    [n EXCEPT !.log = Append(@, [term |-> n.term, command |-> command])]

Commit(n, index) ==
    [Check(n, index \in n.commit .. LastIndex(n)) EXCEPT !.commit = index]

\* The log up to base, then the entries; the log's own before the first one.
Overwrite(log, base, entries, first) ==
    SubSeq(log, 1, base + first - 1) \o SubSeq(entries, first, Len(entries))

\* Entries follow base; those already in the log are skipped, and the first
\* conflicting one truncates the log.
Splice(n, base, entries) ==
    LET same   == {k \in 1 .. Len(entries) : Has(n, base + k, entries[k].term)}
        first  == CHOOSE k \in 1 .. Len(entries) + 1 :
                     /\ k = Len(entries) + 1 \/ k \notin same
                     /\ \A j \in 1 .. k - 1 : j \in same
        formed == /\ entries[Len(entries)].term <= n.term
                  /\ base <= LastIndex(n)
                  /\ TermAt(n, base) <= entries[1].term
                  /\ \A k \in 1 .. Len(entries) - 1 :
                        entries[k].term <= entries[k + 1].term
                  /\ \A k \in 1 .. first - 1 :
                        n.log[base + k].command = entries[k].command
    IN  IF entries = <<>> THEN n
        ELSE IF ~formed THEN Check(n, FALSE)
        ELSE IF first > Len(entries) THEN n
        ELSE IF base + first <= n.commit THEN Check(n, FALSE)
        ELSE [n EXCEPT !.log = Overwrite(@, base, entries, first)]

\* Mutant: applies the log again from its start.
ReapplyAll(n) == [n EXCEPT !.applied = @ \o SubSeq(n.log, 1, n.commit)]

\* Applies the committed entries that the state machine does not have yet.
MaybeApply(n) ==
    [n EXCEPT !.applied = @ \o SubSeq(n.log, Len(@) + 1, n.commit)]

-----------------------------------------------------------------------------
(* Roles: the typestate of RawNode, with the role's own state. *)

Follower(leader) == [kind |-> "follower", leader |-> leader, forwarded |-> {}]
Candidate(votes) == [kind |-> "candidate", votes |-> votes]
Leader(n) ==
    [kind |-> "leader",
     progress |-> [p \in Peers(n) |->
                     [match |-> 0, next |-> LastIndex(n) + 1, read |-> 0]],
     writes |-> {}, reads |-> {}, readSeq |-> 0]

AbortForwarded(n) ==
    SendResponses(n, {[from |-> n.id, id |-> id] : id \in n.role.forwarded}, Abort)

\* A new election: the next term, a vote for ourselves, a call for votes.
Campaign(n) ==
    LET c == [SetTermVote(n, n.term + 1, n.id) EXCEPT !.role = Candidate({n.id})]
    IN  Broadcast(c, [type |-> "Campaign",
                      lastIndex |-> LastIndex(c), lastTerm |-> LastTerm(c)])

IntoCandidate(n) == Campaign(MaybeApply(AbortForwarded(n)))

\* Leaderless follower in a later term, from any role.  Requests that the
\* node had forwarded, or had pending as the leader, are aborted.
IntoFollower(n, term) ==
    LET aborted == CASE n.role.kind = "follower"  -> AbortForwarded(n)
                     [] n.role.kind = "candidate" -> n
                     [] n.role.kind = "leader"    ->
                          SendResponses(n, n.role.writes \cup n.role.reads, Abort)
    IN  [SetTermVote(aborted, term, None) EXCEPT !.role = Follower(None)]

\* Follow the leader of the current term, discovered from a message of it:
\* a candidate that lost, or a follower that has no leader yet (and so has
\* forwarded nothing).
FollowLeader(n, leader) ==
    IF n.role.kind = "follower" /\ n.role.leader # None
    THEN Check(n, n.role.leader = leader)
    ELSE [Check(n, leader \in Peers(n)) EXCEPT !.role = Follower(leader)]

-----------------------------------------------------------------------------
(* Replication by the leader. *)

SetProgress(n, peer, p) == [n EXCEPT !.role.progress[peer] = p]

Advance(n, peer, match) ==
    LET p == n.role.progress[peer]
    IN  SetProgress(n, peer, [match |-> match, next |-> Max(p.next, match + 1),
                              read |-> p.read])

CanRegress(p, next) == next < p.next /\ p.next > p.match + 1

\* Mutant: moves back below what the peer is known to have.
RegressTooFar(n, peer, next) ==
    LET p == n.role.progress[peer]
    IN  SetProgress(n, peer, [p EXCEPT !.next = Min(@, next)])

RegressNext(n, peer, next) ==
    LET p == n.role.progress[peer]
    IN  IF CanRegress(p, next)
        THEN SetProgress(n, peer, [p EXCEPT !.next = Max(next, p.match + 1)])
        ELSE n

\* Sends the next batch of entries, or an empty append that probes for a
\* matching base; nothing when the peer is caught up or all is sent.
MaybeSendAppend(n, peer, probe) ==
    LET p       == n.role.progress[peer]
        last    == LastIndex(n)
        probing == probe /\ p.next > p.match + 1
        entries == IF probing THEN <<>>
                   ELSE SubSeq(n.log, p.next, Min(last, p.next + MaxAppend - 1))
        checked == Check(n, p.next # 0 /\ p.match < p.next
                              /\ p.match <= last /\ p.next <= last + 1)
    IN  IF p.match = last \/ (p.next > last /\ ~probing)
        THEN checked
        ELSE Send(SetProgress(checked, peer, [p EXCEPT !.next = @ + Len(entries)]),
                  peer,
                  [type |-> "Append", baseIndex |-> p.next - 1,
                   baseTerm |-> TermAt(n, p.next - 1), entries |-> entries])

\* Mutant: serves reads before an entry of the leader's term is committed.
ReadBeforeCommit(n) ==
    SendResponses([n EXCEPT !.role.reads = {}], n.role.reads, Done(Len(n.applied)))

\* Serves the reads that a quorum has confirmed, once an entry of the
\* leader's own term is committed and applied.
MaybeRead(n) ==
    LET seqs  == [i \in Nodes |-> IF i = n.id THEN n.role.readSeq
                                  ELSE n.role.progress[i].read]
        ready == {r \in n.role.reads : r.seq <= QuorumValue(seqs)}
    IN  IF \/ n.role.reads = {}
           \/ TermAt(n, n.commit) < n.term
           \/ Len(n.applied) < n.commit
        THEN n
        ELSE SendResponses([n EXCEPT !.role.reads = @ \ ready],
                           ready, Done(Len(n.applied)))

\* Commits up to an index, applies it and answers the writes; then serves
\* the reads that waited for a commit in the leader's own term.
CommitAndApply(n, index) ==
    LET applied == MaybeApply(Commit(n, index))
        done    == {w \in n.role.writes : w.index \in Len(n.applied) + 1 .. index}
        replied == [applied EXCEPT
                      !.role.writes = @ \ done,
                      !.tx = @ \cup {Envelope(n, w.from,
                                       ClientResponse(w.id, Done(w.index))) : w \in done}]
    IN  IF TermAt(n, n.commit) # n.term THEN MaybeRead(replied) ELSE replied

\* The highest index that a quorum has.
QuorumIndex(n) ==
    QuorumValue([i \in Nodes |-> IF i = n.id THEN LastIndex(n)
                                 ELSE n.role.progress[i].match])

\* Mutant: commits an entry of an earlier term as soon as a quorum has it.
MaybeCommitAnyTerm(n) ==
    IF QuorumIndex(n) <= n.commit THEN n ELSE CommitAndApply(n, QuorumIndex(n))

\* Commits what a quorum has, if it is of the leader's own term.
MaybeCommitAndApply(n) ==
    IF QuorumIndex(n) <= n.commit \/ TermAt(n, QuorumIndex(n)) # n.term
    THEN n
    ELSE CommitAndApply(n, QuorumIndex(n))

\* Appends a command and sends it to the peers that have been sent all before.
\* Each peer's append touches only that peer's progress.
Propose(n, command) ==
    LET a     == LogAppend(n, command)
        ready == {p \in Peers(n) : n.role.progress[p].next = LastIndex(a)}
        sent  == [p \in ready |-> MaybeSendAppend(a, p, FALSE)]
    IN  [a EXCEPT !.role.progress = [p \in Peers(n) |->
                       IF p \in ready THEN sent[p].role.progress[p] ELSE @[p]],
                  !.tx = @ \cup UNION {sent[p].tx : p \in ready},
                  !.panicked = @ \/ \E p \in ready : sent[p].panicked]

Heartbeat(n) ==
    Broadcast(Check(n, LastTerm(n) = n.term),
              [type |-> "Heartbeat", lastIndex |-> LastIndex(n),
               commitIndex |-> n.commit, readSeq |-> n.role.readSeq])

IntoLeader(n) ==
    LET leader == [Check(n, n.term # 0 /\ n.vote = n.id) EXCEPT !.role = Leader(n)]
    IN  Heartbeat(MaybeCommitAndApply(Propose(leader, Noop)))

-----------------------------------------------------------------------------
(* Node::step for a message of the node's current term, by role. *)

\* Mutants: grants a vote whatever the candidate's log, or a second vote.
VoteAnyLog(n, from, msg) ==
    Send(IF n.vote \in {None, from} THEN SetTermVote(n, n.term, from) ELSE n,
         from, [type |-> "CampaignResponse", vote |-> n.vote \in {None, from}])
VoteTwice(n, from, msg) ==
    Send([n EXCEPT !.vote = from], from, [type |-> "CampaignResponse", vote |-> TRUE])

\* Votes for at most one candidate a term, whose log is as up to date as ours.
StepCampaign(n, from, msg) ==
    LET behind == \/ LastTerm(n) > msg.lastTerm
                  \/ LastTerm(n) = msg.lastTerm /\ LastIndex(n) > msg.lastIndex
        grant  == n.vote \in {None, from} /\ ~behind
    IN  Send(IF grant THEN SetTermVote(n, n.term, from) ELSE n,
             from, [type |-> "CampaignResponse", vote |-> grant])

\* Mutant: reports a match at the leader's last index whatever its term.
HeartbeatAnyTerm(n, from, msg) ==
    LET match == IF msg.lastIndex <= LastIndex(n) THEN msg.lastIndex ELSE 0
    IN  Send(FollowLeader(n, from), from,
             [type |-> "HeartbeatResponse", matchIndex |-> match, readSeq |-> msg.readSeq])

StepHeartbeat(n, from, msg) ==
    LET f       == FollowLeader(Check(n, msg.commitIndex <= msg.lastIndex), from)
        match   == IF Has(f, msg.lastIndex, f.term) THEN msg.lastIndex ELSE 0
        replied == Send(f, from, [type |-> "HeartbeatResponse",
                                  matchIndex |-> match, readSeq |-> msg.readSeq])
    IN  IF match # 0 /\ msg.commitIndex > n.commit
        THEN MaybeApply(Commit(replied, msg.commitIndex))
        ELSE replied

\* Mutant: accepts entries on a base of any term.
AppendAnyBase(n, from, msg) ==
    IF msg.baseIndex <= LastIndex(n)
    THEN Send(Splice(FollowLeader(n, from), msg.baseIndex, msg.entries), from,
              [type |-> "AppendResponse", rejectIndex |-> 0,
               matchIndex |-> msg.baseIndex + Len(msg.entries)])
    ELSE FollowLeader(n, from)

StepAppend(n, from, msg) ==
    LET f == FollowLeader(n, from)
    IN  IF msg.baseIndex = 0 \/ Has(f, msg.baseIndex, msg.baseTerm)
        THEN Send(Splice(f, msg.baseIndex, msg.entries), from,
                  [type |-> "AppendResponse", rejectIndex |-> 0,
                   matchIndex |-> msg.baseIndex + Len(msg.entries)])
        ELSE Send(f, from,
                  [type |-> "AppendResponse", matchIndex |-> 0,
                   rejectIndex |-> Min(msg.baseIndex, LastIndex(f) + 1)])

FollowerStep(n, from, msg) ==
    CASE msg.type = "Heartbeat" -> StepHeartbeat(n, from, msg)
      [] msg.type = "Append"    -> StepAppend(n, from, msg)
      [] msg.type = "Read"      ->
           Send(FollowLeader(n, from), from,
                [type |-> "ReadResponse", seq |-> msg.seq])
      [] msg.type = "Campaign"  -> StepCampaign(n, from, msg)
      [] msg.type = "CampaignResponse" -> n
      [] msg.type = "ClientRequest" ->
           IF from # n.id THEN Check(n, FALSE)
           ELSE IF n.role.leader = None
           THEN Send(n, from, ClientResponse(msg.id, Abort))
           ELSE Send([n EXCEPT !.role.forwarded = @ \cup {msg.id}],
                     n.role.leader, msg)
      [] msg.type = "ClientResponse" ->
           IF from # n.role.leader THEN Check(n, FALSE)
           ELSE IF msg.id \in n.role.forwarded
           THEN Send([n EXCEPT !.role.forwarded = @ \ {msg.id}], n.id, msg)
           ELSE n
      [] OTHER -> Check(n, FALSE)

CandidateStep(n, from, msg) ==
    CASE msg.type = "CampaignResponse" ->
           LET c == [n EXCEPT !.role.votes = @ \cup {from}]
           IN  IF ~msg.vote THEN n
               ELSE IF Cardinality(c.role.votes) >= QuorumSize THEN IntoLeader(c)
               ELSE c
      [] msg.type = "Campaign" ->
           Send(n, from, [type |-> "CampaignResponse", vote |-> FALSE])
      [] msg.type \in {"Heartbeat", "Append", "Read"} ->
           FollowerStep(FollowLeader(n, from), from, msg)
      [] msg.type = "ClientRequest" ->
           Send(n, from, ClientResponse(msg.id, Abort))
      [] OTHER -> Check(n, FALSE)

\* A follower confirmed a read sequence number.
ConfirmRead(n, peer, seq) ==
    IF seq <= n.role.progress[peer].read THEN n
    ELSE MaybeRead(SetProgress(n, peer, [n.role.progress[peer] EXCEPT !.read = seq]))

\* A follower's log is known to match ours up to an index.
ConfirmMatch(n, peer, match) ==
    IF match <= n.role.progress[peer].match THEN n
    ELSE MaybeCommitAndApply(Advance(n, peer, match))

StepHeartbeatResponse(n, from, msg) ==
    LET last   == LastIndex(n)
        read   == ConfirmRead(Check(n, /\ msg.matchIndex <= last
                                       /\ msg.readSeq <= n.role.readSeq),
                              from, msg.readSeq)
        probed == IF msg.matchIndex # 0 THEN read
                  ELSE MaybeSendAppend(RegressNext(read, from, last), from, TRUE)
    IN  ConfirmMatch(probed, from, msg.matchIndex)

StepAppendResponse(n, from, msg) ==
    LET p == n.role.progress[from]
    IN  IF msg.rejectIndex = 0
        THEN MaybeSendAppend(
               ConfirmMatch(Check(n, msg.matchIndex \in 1 .. LastIndex(n)),
                            from, msg.matchIndex),
               from, FALSE)
        ELSE IF msg.rejectIndex <= p.match \/ ~CanRegress(p, msg.rejectIndex)
        THEN Check(n, msg.rejectIndex <= LastIndex(n))
        ELSE MaybeSendAppend(
               RegressNext(Check(n, msg.rejectIndex <= LastIndex(n)),
                           from, msg.rejectIndex),
               from, TRUE)

LeaderWrite(n, from, id) ==
    LET w == [Propose(n, id) EXCEPT !.role.writes =
                @ \cup {[index |-> LastIndex(n) + 1, from |-> from, id |-> id]}]
    IN  IF Nodes = {n.id} THEN MaybeCommitAndApply(w) ELSE w

LeaderRead(n, from, id) ==
    LET seq == n.role.readSeq + 1
        r   == Broadcast([n EXCEPT !.role.readSeq = seq,
                             !.role.reads = @ \cup {[seq |-> seq, from |-> from, id |-> id]}],
                         [type |-> "Read", seq |-> seq])
    IN  IF Nodes = {n.id} THEN MaybeRead(r) ELSE r

LeaderRequest(n, from, id) ==
    CASE id \in Writes   -> LeaderWrite(n, from, id)
      [] id \in Reads    -> LeaderRead(n, from, id)
      [] id \in Statuses -> Send(n, from, ClientResponse(id, Done(n.commit)))

LeaderStep(n, from, msg) ==
    CASE msg.type = "HeartbeatResponse" -> StepHeartbeatResponse(n, from, msg)
      [] msg.type = "AppendResponse"    -> StepAppendResponse(n, from, msg)
      [] msg.type = "ReadResponse"      -> ConfirmRead(n, from, msg.seq)
      [] msg.type = "ClientRequest"     -> LeaderRequest(n, from, msg.id)
      [] msg.type = "Campaign" ->
           Send(n, from, [type |-> "CampaignResponse", vote |-> FALSE])
      [] msg.type = "CampaignResponse" -> n
      [] OTHER -> Check(n, FALSE)

StepInTerm(n, from, msg) ==
    CASE n.role.kind = "follower"  -> FollowerStep(n, from, msg)
      [] n.role.kind = "candidate" -> CandidateStep(n, from, msg)
      [] n.role.kind = "leader"    -> LeaderStep(n, from, msg)

\* Messages of past terms are dropped, those of later terms start that term.
Step(n, m) ==
    IF m.term < n.term THEN n
    ELSE IF m.term > n.term
    THEN FollowerStep(IntoFollower(n, m.term), m.from, m.message)
    ELSE StepInTerm(n, m.from, m.message)

-----------------------------------------------------------------------------
(* The specification. *)

\* Node::new on what the log and the state machine have stored.
NewNode(i, term, vote, log, commit, applied) ==
    LET n == MaybeApply([id |-> i, term |-> term, vote |-> vote, log |-> log,
                         commit |-> commit, applied |-> applied,
                         role |-> Follower(None), tx |-> {}, panicked |-> FALSE])
    IN  IF Nodes = {i} THEN IntoLeader(IntoCandidate(n)) ELSE n

\* The highest index any node knows to be committed.
CommittedIndex ==
    CHOOSE c \in {node[i].commit : i \in Nodes} : \A i \in Nodes : node[i].commit <= c

Init ==
    /\ node = [i \in Nodes |-> [NewNode(i, 0, None, <<>>, 0, <<>>) EXCEPT !.tx = {}]]
    /\ net = {}
    /\ client = [id \in Requests |-> [state |-> "idle"]]

\* The result r of a call into node i: its messages to peers are put in
\* flight, or lost; its responses to local clients reach them.
Route(i, r, flight, clients) ==
    LET sent    == IF r.panicked THEN {} ELSE r.tx
        local   == {m \in sent : m.to = i}
        replies == {m.message : m \in local}
    IN  /\ node' = [node EXCEPT ![i] = [r EXCEPT !.tx = {}]]
        /\ \E out \in SUBSET (sent \ local) :
              /\ Cardinality(flight \cup out) <= MaxInFlight
              /\ net' = flight \cup out
        /\ client' = [id \in Requests |->
              IF clients[id].state = "pending" /\ \E p \in replies : p.id = id
              THEN [state |-> "answered", floor |-> clients[id].floor,
                    response |-> (CHOOSE p \in replies : p.id = id).response]
              ELSE clients[id]]

Running(i) == ~node[i].panicked

\* raft_route steps a message from a peer.  A link never duplicates a client
\* request or response; the other messages may be in flight more than once.
Receive(m) ==
    /\ Running(m.to)
    /\ \E flight \in {net \ {m}} \cup
             IF m.message.type \in {"ClientRequest", "ClientResponse"} THEN {} ELSE {net} :
          Route(m.to, Step(node[m.to], m), flight, client)

\* raft_route steps the request of a local client.
ClientRequest(i, id) ==
    /\ Running(i)
    /\ client[id].state = "idle"
    /\ Route(i,
             StepInTerm(node[i], i, [type |-> "ClientRequest", id |-> id]),
             net,
             [client EXCEPT ![id] = [state |-> "pending", floor |-> CommittedIndex]])

\* Node::tick when the election timeout has passed.
ElectionTimeout(i) ==
    /\ Running(i)
    /\ node[i].term < MaxTerm
    /\ \/ /\ node[i].role.kind = "follower"
          /\ Route(i, IntoCandidate(node[i]), net, client)
       \/ /\ node[i].role.kind = "candidate"
          /\ Route(i, Campaign(node[i]), net, client)

\* Node::tick of a leader when the heartbeat interval has passed.
HeartbeatTimeout(i) ==
    /\ Running(i)
    /\ node[i].role.kind = "leader"
    /\ Route(i, Heartbeat(node[i]), net, client)

\* Mutants: the vote, or the last entry, was not flushed before it was used.
RestartForgetsVote(i) ==
    /\ Route(i, NewNode(i, node[i].term, None, node[i].log, node[i].commit,
                        node[i].applied), net, client)
RestartLosesTail(i) ==
    /\ LastIndex(node[i]) > 0
    /\ Nodes = {i} => node[i].term < MaxTerm
    /\ LET last == LastIndex(node[i]) - 1
       IN  Route(i, NewNode(i, node[i].term, node[i].vote, SubSeq(node[i].log, 1, last),
                            Min(node[i].commit, last), SubSeq(node[i].applied, 1,
                            Min(Len(node[i].applied), last))), net, client)

\* The host of i crashes and its server starts again.  What was not flushed
\* may be lost: recent commit indexes (any earlier one may come back), and
\* any tail of the state machine's writes.  The crash may fall in a step that
\* has stored a later term and nothing else yet.
Restart(i) ==
    /\ Nodes = {i} => node[i].term < MaxTerm
    /\ LET n == node[i]
           later == {m.term : m \in {m \in net : m.to = i /\ m.term > n.term}}
       IN  \E term \in {n.term} \cup later, commit \in 0 .. n.commit,
              applied \in 0 .. Len(n.applied) :
              Route(i,
                    NewNode(i, term, IF term = n.term THEN n.vote ELSE None, n.log,
                            commit, SubSeq(n.applied, 1, applied)),
                    net, client)

Next ==
    \/ \E m \in net : Receive(m)
    \/ \E i \in Nodes, id \in Requests : ClientRequest(i, id)
    \/ \E i \in Nodes : ElectionTimeout(i) \/ HeartbeatTimeout(i) \/ Restart(i)

Spec == Init /\ [][Next]_vars

-----------------------------------------------------------------------------
(* Properties. *)

Entries == [term : Nat, command : Writes \cup {Noop}]
Responses == {Abort} \cup [result : {"done"}, index : Nat]
Messages ==
    [type : {"Campaign"}, lastIndex : Nat, lastTerm : Nat]
    \cup [type : {"CampaignResponse"}, vote : BOOLEAN]
    \cup [type : {"Heartbeat"}, lastIndex : Nat, commitIndex : Nat, readSeq : Nat]
    \cup [type : {"HeartbeatResponse"}, matchIndex : Nat, readSeq : Nat]
    \cup [type : {"Append"}, baseIndex : Nat, baseTerm : Nat, entries : Seq(Entries)]
    \cup [type : {"AppendResponse"}, matchIndex : Nat, rejectIndex : Nat]
    \cup [type : {"Read", "ReadResponse"}, seq : Nat]
    \cup [type : {"ClientRequest"}, id : Requests]
    \cup [type : {"ClientResponse"}, id : Requests, response : Responses]
Envelopes == [from : Nodes, to : Nodes, term : Nat, message : Messages]

Progress == [match : Nat, next : Nat, read : Nat]
FollowerRole(i) ==
    [kind : {"follower"}, leader : (Nodes \ {i}) \cup {None}, forwarded : SUBSET Requests]
CandidateRole == [kind : {"candidate"}, votes : SUBSET Nodes]
LeaderRole(i) ==
    [kind : {"leader"}, progress : [Nodes \ {i} -> Progress],
     writes : SUBSET [index : Nat, from : Nodes, id : Writes],
     reads : SUBSET [seq : Nat, from : Nodes, id : Reads], readSeq : Nat]
NodeState(i) ==
    [id : {i}, term : Nat, vote : Nodes \cup {None}, log : Seq(Entries), commit : Nat,
     applied : Seq(Entries), role : FollowerRole(i) \cup CandidateRole \cup LeaderRole(i),
     tx : SUBSET Envelopes, panicked : BOOLEAN]
ClientState ==
    [state : {"idle"}] \cup [state : {"pending"}, floor : Nat]
    \cup [state : {"answered"}, floor : Nat, response : Responses]

\* Every field of a node, of an envelope and of a client's view has the type
\* that node.rs, log.rs and message.rs give it, and the indexes of a node are
\* ordered: nothing is committed or applied that is not in the log.
TypeOK ==
    /\ DOMAIN node = Nodes
    /\ \A i \in Nodes :
          /\ node[i] \in NodeState(i) /\ node[i].tx = {}
          /\ node[i].commit <= LastIndex(node[i])
          /\ Len(node[i].applied) <= LastIndex(node[i])
    /\ net \subseteq Envelopes /\ \A m \in net : m.from # m.to
    /\ client \in [Requests -> ClientState]

Committed(i) == SubSeq(node[i].log, 1, node[i].commit)

\* If two logs hold an entry with the same index and term, they are identical
\* up to it (log.rs: the append of a follower checks its base entry).
LogMatching ==
    \A i, j \in Nodes : \A k \in 1 .. Min(LastIndex(node[i]), LastIndex(node[j])) :
        node[i].log[k].term = node[j].log[k].term
            => SubSeq(node[i].log, 1, k) = SubSeq(node[j].log, 1, k)

UpToDate(c, v) ==
    \/ LastTerm(node[c]) > LastTerm(node[v])
    \/ LastTerm(node[c]) = LastTerm(node[v]) /\ LastIndex(node[c]) >= LastIndex(node[v])
Electable(c) == Cardinality({v \in Nodes : UpToDate(c, v)}) >= QuorumSize

\* A node whose log would win it the votes of a quorum holds every entry that
\* any node has committed or applied: whoever leads next, nothing committed is
\* lost.  This is what committing only entries of the leader's own term is for.
ElectableHoldCommitted ==
    \A c, i \in Nodes : Electable(c) =>
        IsPrefix(Committed(i), node[c].log) /\ IsPrefix(node[i].applied, node[c].log)

\* Any two state machines have applied the same entries in the same order, one
\* possibly fewer than the other, and only entries their own log still holds.
StateMachineSafety ==
    \A i, j \in Nodes :
        /\ IsPrefix(node[i].applied, node[j].applied) \/ IsPrefix(node[j].applied, node[i].applied)
        /\ IsPrefix(node[i].applied, node[i].log)

\* A leader's match index for a follower is an index up to which the
\* follower's log is identical to the leader's, as long as the follower has
\* not moved to a later term; the leader commits by counting these.
ProgressSound ==
    \A i \in Nodes : node[i].role.kind = "leader" =>
        \A p \in Peers(node[i]) :
            LET match == node[i].role.progress[p].match
            IN  node[p].term <= node[i].term =>
                    IsPrefix(SubSeq(node[i].log, 1, match), node[p].log)

\* Every answer respects real time.  A read returns a state that includes all
\* that any node had committed when the read was submitted, although the
\* leader that serves it may have been deposed in the meantime.  A write is
\* answered with the index where it is applied, after all that was committed
\* when it was submitted, and whoever may lead next has it there.
Linearizable ==
    \A id \in Reads \cup Writes :
        client[id].state = "answered" /\ client[id].response # Abort =>
            LET index == client[id].response.index
            IN  /\ id \in Reads => index >= client[id].floor
                /\ id \in Writes => /\ index > client[id].floor
                                    /\ \A c \in Nodes : Electable(c) =>
                                          /\ index <= LastIndex(node[c])
                                          /\ node[c].log[index].command = id

\* No assertion of node.rs and log.rs fails and no handler receives a message
\* it calls unexpected, whatever the order and the loss of messages.
NoPanic == \A i \in Nodes : ~node[i].panicked

CommittedStep == \A i \in Nodes : IsPrefix(Committed(i), node'[i].log)

\* Committed entries are never changed or removed, by any step or restart.
CommittedStable == [][CommittedStep]_vars
=============================================================================
