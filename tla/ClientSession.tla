---------------------------- MODULE ClientSession ----------------------------
(***************************************************************************)
(* One SQL client and its server session: Client::with_retry of            *)
(* src/client.rs running a closure of statements, the session that         *)
(* executes them (src/sql/execution/session.rs), and the transactions that *)
(* the session's requests begin, write and end below Raft                  *)
(* (src/sql/engine/raft.rs).                                               *)
(*                                                                         *)
(* A request through Raft is applied and answered, or the session gets     *)
(* Error::Abort, for instance because the leader changed.  An aborted      *)
(* request may have been lost, or applied, or may still be applied later.  *)
(* Waiting between retries is left out.                                    *)
(***************************************************************************)
EXTENDS Integers, Sequences, FiniteSets

CONSTANTS
    Closures,    \* sequences of statements, the closures that with_retry may run
    MaxRetries,  \* MAX_RETRIES
    MaxCalls,    \* bound: calls of with_retry
    MaxVersion,  \* bound: transactions; Begin is lost beyond
    None         \* no transaction, no statement, no request

VARIABLES
    client,    \* with_retry: txn (Client::txn), closure, pos (next statement), status,
               \* retries, calls
    session,   \* txn (Session::txn), stmt being executed, pc, version and result
               \* of an implicit transaction
    mvcc,      \* version -> "unused", "active", "committed" or "rolledback"
    wrote,     \* the versions that have written
    limbo,     \* aborted requests that may still be applied, equal ones once
    mine,      \* history: the versions begun in this call of with_retry
    stranded   \* history: the versions whose Begin, Commit or Rollback was aborted,
               \* unless it has ended them since

vars == <<client, session, mvcc, wrote, limbo, mine, stranded>>

Versions == 1 .. MaxVersion

-----------------------------------------------------------------------------
(* Requests: State::write of raft.rs.  The outcomes of a request are       *)
(* triples of a result, the transactions and the versions that have        *)
(* written.  A write may meet a conflict with other clients.               *)

Request(kind, version) == [kind |-> kind, version |-> version]
Unused == {v \in Versions : mvcc[v] = "unused"}
NextVersion == CHOOSE v \in Unused : \A w \in Unused : v <= w

Outcome(result, txns, written) == [result |-> result, mvcc |-> txns, wrote |-> written]
Applied(r) ==
    CASE r.kind = "Begin" ->
           IF Unused = {} THEN {}
           ELSE {Outcome("ok", [mvcc EXCEPT ![NextVersion] = "active"], wrote)}
      [] r.kind # "Begin" /\ mvcc[r.version] # "active" -> {Outcome("input", mvcc, wrote)}
      [] r.kind = "Write" /\ mvcc[r.version] = "active" ->
           {Outcome("ok", mvcc, wrote \cup {r.version}), Outcome("serialization", mvcc, wrote)}
      [] r.kind = "Commit" /\ mvcc[r.version] = "active" ->
           {Outcome("ok", [mvcc EXCEPT ![r.version] = "committed"], wrote)}
      [] r.kind = "Rollback" /\ mvcc[r.version] = "active" ->
           {Outcome("ok", [mvcc EXCEPT ![r.version] = "rolledback"], wrote \ {r.version})}

\* Raft::request: the result, and what becomes of the request.
Raft(r, result) ==
    \/ \E o \in Applied(r) :
          /\ result = o.result
          /\ mvcc' = o.mvcc
          /\ wrote' = o.wrote
          /\ mine' = IF r.kind = "Begin" THEN mine \cup {NextVersion} ELSE mine
          /\ UNCHANGED <<limbo, stranded>>
    \/ /\ result = "abort"
       /\ limbo' \in {limbo, limbo \cup {r}}
       /\ stranded' = IF r.kind \in {"Commit", "Rollback"} THEN stranded \cup {r.version} ELSE stranded
       /\ UNCHANGED <<mvcc, wrote, mine>>

\* An aborted request is applied after all.
ApplyLate ==
    /\ \E r \in limbo : \E o \in Applied(r) :
          /\ mvcc' = o.mvcc
          /\ wrote' = o.wrote
          /\ limbo' = limbo \ {r}
          /\ stranded' = {v \in stranded \cup Unused : o.mvcc[v] = "active"}
    /\ UNCHANGED <<client, session, mine>>

Results == {"ok", "input", "serialization", "abort"}

-----------------------------------------------------------------------------
(* Client::execute and with_retry, on the response to a statement.         *)

Fresh(c, txn, closure) == [txn |-> txn, closure |-> closure, pos |-> 1,
                           status |-> "running", retries |-> 0, calls |-> c]

\* Mutant: a failed COMMIT or ROLLBACK also ends the transaction.
ClientTxnEager(stmt, result, version) ==
    IF stmt \in {"COMMIT", "ROLLBACK"} THEN None
    ELSE IF stmt = "BEGIN" /\ result = "ok" THEN version ELSE client.txn

\* Client::execute: the transaction that the client believes is open.
ClientTxn(stmt, result, version) ==
    IF result # "ok" THEN client.txn
    ELSE IF stmt = "BEGIN" THEN version
    ELSE IF stmt \in {"COMMIT", "ROLLBACK"} THEN None ELSE client.txn

\* Mutant: retries are not counted.
RetryForever(c) == [c EXCEPT !.pos = 1, !.status = "running"]

Retry(c) == [c EXCEPT !.retries = @ + 1, !.pos = 1, !.status = "running"]
Retryable(result) == result \in {"serialization", "abort"} /\ client.retries < MaxRetries

\* with_retry: what follows the response to a statement of the closure, and
\* to a ROLLBACK that with_retry itself has sent.
AfterStatement(c, result) ==
    CASE result = "ok" ->
           IF c.pos = Len(c.closure) THEN [c EXCEPT !.status = "ok"] ELSE [c EXCEPT !.pos = @ + 1]
      [] result # "ok" /\ Retryable(result) ->
           IF c.txn = None THEN Retry(c) ELSE [c EXCEPT !.status = "rollback then retry"]
      [] result # "ok" /\ ~Retryable(result) ->
           [c EXCEPT !.status = IF c.txn = None THEN "error" ELSE "rollback then error"]
AfterRollback(c, result) ==
    IF c.status = "rollback then retry" /\ result = "ok" THEN Retry(c)
    ELSE [c EXCEPT !.status = "error"]

Respond(stmt, result, version) ==
    LET c == [client EXCEPT !.txn = ClientTxn(stmt, result, version)]
    IN  client' = IF client.status = "running" THEN AfterStatement(c, result)
                  ELSE AfterRollback(c, result)

-----------------------------------------------------------------------------
(* Session::execute. *)

Idle(txn) == [txn |-> txn, stmt |-> None, pc |-> "idle", version |-> None, result |-> None]
NewVersion == IF Unused = {} THEN None ELSE NextVersion

Init ==
    /\ client \in {Fresh(1, None, closure) : closure \in Closures}
    /\ session = Idle(None)
    /\ mvcc = [v \in Versions |-> "unused"]
    /\ wrote = {} /\ limbo = {} /\ mine = {} /\ stranded = {}

\* The client sends the next statement of its closure, or ROLLBACK.
Send ==
    /\ session.pc = "idle"
    /\ client.status \in {"running", "rollback then retry", "rollback then error"}
    /\ session' = [session EXCEPT
          !.stmt = IF client.status = "running" THEN client.closure[client.pos] ELSE "ROLLBACK",
          !.pc = "execute"]
    /\ UNCHANGED <<client, mvcc, wrote, limbo, mine, stranded>>

Begin ==
    /\ session.pc = "execute" /\ session.stmt = "BEGIN"
    /\ IF session.txn # None
       THEN /\ session' = Idle(session.txn)
            /\ Respond("BEGIN", "input", None)
            /\ UNCHANGED <<mvcc, wrote, limbo, mine, stranded>>
       ELSE \E result \in Results :
              /\ Raft(Request("Begin", None), result)
              /\ session' = Idle(IF result = "ok" THEN NewVersion ELSE None)
              /\ Respond("BEGIN", result, NewVersion)

\* Mutant: the error of a failed request is not returned.
EndIgnoresError ==
    /\ session.pc = "execute" /\ session.stmt \in {"COMMIT", "ROLLBACK"}
    /\ session' = Idle(None)
    /\ session.txn # None
    /\ \E result \in Results :
          /\ Raft(Request(IF session.stmt = "COMMIT" THEN "Commit" ELSE "Rollback",
                          session.txn), result)
          /\ Respond(session.stmt, "ok", None)

\* COMMIT and ROLLBACK take the transaction out of the session first.
End ==
    /\ session.pc = "execute" /\ session.stmt \in {"COMMIT", "ROLLBACK"}
    /\ session' = Idle(None)
    /\ IF session.txn = None
       THEN Respond(session.stmt, "input", None) /\ UNCHANGED <<mvcc, wrote, limbo, mine, stranded>>
       ELSE \E result \in Results :
              /\ Raft(Request(IF session.stmt = "COMMIT" THEN "Commit" ELSE "Rollback",
                              session.txn), result)
              /\ Respond(session.stmt, result, None)

\* with_txn: in the open transaction, or in an implicit one.
Write ==
    /\ session.pc = "execute" /\ session.stmt = "WRITE"
    /\ session.txn # None
    /\ \E result \in Results :
          /\ Raft(Request("Write", session.txn), result)
          /\ session' = Idle(session.txn)
          /\ Respond("WRITE", result, None)
ImplicitBegin ==
    /\ session.pc = "execute" /\ session.stmt = "WRITE"
    /\ session.txn = None
    /\ \E result \in Results :
          /\ Raft(Request("Begin", None), result)
          /\ IF result = "ok"
             THEN /\ session' = [session EXCEPT !.pc = "implicit", !.version = NewVersion]
                  /\ UNCHANGED client
             ELSE session' = Idle(None) /\ Respond("WRITE", result, None)
ImplicitWrite ==
    /\ session.pc = "implicit"
    /\ \E result \in Results :
          /\ Raft(Request("Write", session.version), result)
          /\ session' = [session EXCEPT !.pc = "finish", !.result = result]
    /\ UNCHANGED client

ImplicitEnd ==
    /\ session.pc = "finish"
    /\ session' = Idle(None)
    /\ \E result \in Results :
          /\ Raft(Request(IF session.result = "ok" THEN "Commit" ELSE "Rollback",
                          session.version), result)
          /\ Respond("WRITE", IF result = "ok" THEN session.result ELSE result, None)

\* The application calls with_retry again.
CallAgain ==
    /\ client.status \in {"ok", "error"}
    /\ client.calls < MaxCalls
    /\ client' \in {Fresh(client.calls + 1, client.txn, closure) : closure \in Closures}
    /\ mine' = {}
    /\ UNCHANGED <<session, mvcc, wrote, limbo, stranded>>

\* Mutant: the transaction is dropped without a rollback.
DisconnectNoRollback ==
    /\ session.pc = "idle" /\ client.status # "closed"
    /\ client' = [client EXCEPT !.status = "closed"]
    /\ session' = Idle(None)
    /\ UNCHANGED <<mvcc, wrote, limbo, mine, stranded>>

\* The client closes the connection or dies: once it has executed what it was
\* sent, the session is dropped and rolls back its transaction, if any.
Disconnect ==
    /\ session.pc = "idle" /\ client.status # "closed"
    /\ client' = [client EXCEPT !.status = "closed"]
    /\ session' = Idle(None)
    /\ IF session.txn = None THEN UNCHANGED <<mvcc, wrote, limbo, mine, stranded>>
       ELSE \E result \in Results : Raft(Request("Rollback", session.txn), result)

Next ==
    \/ Send \/ Begin \/ End \/ Write
    \/ ImplicitBegin \/ ImplicitWrite \/ ImplicitEnd
    \/ CallAgain \/ Disconnect
    \/ ApplyLate

Spec == Init /\ [][Next]_vars

\* The client's thread goes on.  Nothing of the kind is assumed of a request:
\* Raft::request waits for its response without a timeout.
FairSpec == Spec /\ WF_vars(Send)

-----------------------------------------------------------------------------
(* Properties. *)

Effects == {v \in mine : mvcc[v] = "committed" /\ v \in wrote}

\* A closure that uses a transaction takes effect at most once, however often
\* with_retry runs it and whatever its aborted requests do later.
EffectAtMostOnce == Head(client.closure) = "BEGIN" => Cardinality(Effects) <= 1

\* When with_retry returns Ok, the closure's write is committed, whatever was
\* aborted and retried on the way.
OkHasEffect == client.status = "ok" => Effects # {}

\* No transaction is left behind: one that is active is the session's, open
\* or implicit, unless its own BEGIN, COMMIT or ROLLBACK was aborted.  Aborted
\* and conflicting writes, retries and closed connections leave none.
NoLeakedTxns ==
    \A v \in Versions : mvcc[v] = "active" => v \in {session.txn, session.version} \cup stranded

\* with_retry returns, or its connection is closed, if every statement is
\* answered in the end: retries come to an end whichever requests are aborted,
\* and no response leaves the client with nothing more to send.
CallsReturn ==
    []<>(session.pc = "idle") =>
        (client.status \notin {"ok", "error", "closed"} ~> client.status \in {"ok", "error", "closed"})
=============================================================================
