# toyDB in TLA+

A verification development for toyDB: TLA+ modules translated from the Rust
source, TLC runs that check them on small instances, and TLAPS proofs of the
properties that matter most, for every instance. `PROJECT.json` maps every
definition to the lines it models and lists runs, mutants, findings, hazards
and theorems.

## 1. The system

toyDB is a distributed SQL database. A client talks to any server; the server
turns each SQL statement into reads and writes of a replicated state machine;
Raft orders the writes; each node applies them to an MVCC key/value store on a
local storage engine.

    client -> server session -> SQL execution -> Raft SQL engine
           -> Raft node (leader election, log replication, reads)
           -> SQL state machine (apply) -> local SQL engine -> MVCC -> BitCask

Source paths are below `src/src/`.

| Part | Source | State | Operations | Module |
|------|--------|-------|------------|--------|
| MVCC transactions | `storage/mvcc.rs` | next version, active set, active-set snapshots, write records, versioned keys, handles | begin, begin read-only, begin as of, resume, get, set, delete, scan, commit, rollback | `MVCC`, `MVCCScan`, `SnapshotIsolation` |
| Raft node | `raft/node.rs`, `message.rs` | term, vote, role, votes, progress, pending writes and reads, forwarded requests | step, tick, campaign, append, heartbeat, read, client request | `Raft`, `RaftElections` |
| Raft log | `raft/log.rs` | entries, term and vote, commit index, cached last entry | set_term_vote, append, commit, splice, new | `RaftLog` (and inside `Raft`) |
| BitCask | `storage/bitcask.rs` | log file, key directory | set, delete, flush, get, scan, compact, open | `BitCask` |
| Engine contract | `storage/engine.rs`, `memory.rs` | a map | set, delete, flush | `KeyValue` |
| Local SQL engine | `sql/engine/local.rs`, `sql/types/schema.rs` | table, row and index keys | insert, update, delete, create, drop | `LocalEngine` |
| SQL state machine | `sql/engine/raft.rs` | applied index over the MVCC store | apply, read | `SQLState` |
| Session, client | `sql/execution/session.rs`, `client.rs` | open transaction on both sides, retries | execute, with_txn, with_retry, drop | `ClientSession` |
| Server | `server.rs` | response channels, peer channels, threads | route, send, receive, accept | partly, in `Raft` and `ClientSession` |
| Lexer, parser | `sql/parser/` | none | tokens to syntax trees and back, nesting guard | `SqlSyntax`, `SqlExpressionParser`, `SqlParser`, `SqlLegacyParser`, `SqlNesting`, `SqlPrinter` (the lexer is not modelled) |
| Values, expressions | `sql/types/` | none | order, arithmetic, evaluation, rewrites | `SqlValues`, `SqlExpressions` |
| Planner, optimizer | `sql/planner/` | none | syntax tree to plan, plan to plan | `SqlPlan`, `SqlPlanner`, `SqlOptimizer` |
| Executor, joins, aggregation | `sql/execution/` | none between statements | a plan to rows | `SqlExecutor`; writes in `LocalEngine` |
| Encodings | `encoding/` | none | pure functions | not modelled |
| Binaries, errors | `bin/`, `error.rs` | none | start-up, terminal | not modelled |

What is hard about it: writers that overlap, and reads that must not move while
they do (MVCC); messages lost, repeated and reordered, nodes that crash and
come back with what they had flushed, leaders that do not know they were
deposed (Raft); crashes between two storage writes (Raft log, BitCask, SQL
state machine); constraint checks made on a snapshot, and statements that fail
half way (SQL engine); requests whose outcome is unknown to whoever retries
them (client); and a chain of pure functions, each of which rewrites what the
last one made, so that a column index or a parenthesis that one of them gets
wrong shows only in the rows of some query (SQL layer).

## 2. The modules

One action is one whole call in the code, except where the point of a module is
what happens between two storage writes of a call.

**`MVCC`** has one variable per kind of raw key and one for the handles that
sessions hold. Each operation holds the engine mutex throughout, so it is one
action. An operation that returns an error changes nothing and is a stuttering
step. `Drop` is a handle that is lost without commit or rollback.
**`SnapshotIsolation`** is what the engine promises: private snapshots, buffered
writes, atomic commits, conflicts exactly between concurrent writers.
`ImplementsSnapshotIsolation` maps the versioned keys to it.
**`MVCCScan`** adds `ScanIterator`, which locks the engine for one batch at a
time and keeps the first key of the remainder between them; all operations of
all transactions may come in between. A scan covers all keys, in any order
chosen when it starts, and there is one at a time.

**`Raft`** models the cluster. A node is a record, and each method of `node.rs`
is an operator from record to record, composed as the methods are, so that
`Receive`, `ClientRequest`, `ElectionTimeout` and `HeartbeatTimeout` are whole
calls of `Node::step` and `Node::tick`. Failed assertions and panics set a flag
that stops the node. `Route` is the server's routing thread: any message
between nodes may be lost, and those in flight are an unordered set. `Restart`
keeps what `log.rs` flushes (term, vote, entries) and any earlier commit index
and applied state. Timeouts may fire at any time; commands are the identifiers of
requests. **`RaftElections`** adds the history of all votes stored.

**`RaftLog`** opens up the calls of `log.rs`: each storage write is a step, a
process crash keeps all that was written, a host crash keeps any prefix of what
was written since the last flush. `Log::fsync` is on, as by default.

**`BitCask`** models the file as cells, so that an entry may be cut off anywhere,
together with the scan that rebuilds the key directory, compaction and crashes.
**`KeyValue`** is the map it implements: after a crash, any state since the last
flush. The memory engine is this map without crashes.

**`LocalEngine`** runs on snapshot-isolated keys, which `MVCC` provides. A
statement is one step (Raft applies one command at a time), and its writes are
made in the code's order: the first that fails ends the statement, and those
before it stay in the transaction. A table has a primary key and one more
column, indexed, unique or a foreign key as the schema says.

**`SQLState`** applies a log of commands on one replica, one storage write at a
time, crashes, and applies the log again from the applied index that it finds.
It is compared with a replica that never crashes (`reference`). The commands are
all of `Write`, with several rows, on one table of a primary key and a second
column that may have an index; it has no unique column and no reference.
`Replayable` says which commands a crash may tear without a trace. After a crash
that tears another one, the model replays the log that there is, and then stops:
nothing is claimed of that replica.

**`ClientSession`** runs `with_retry` against a session. A request through Raft is
answered, or it is aborted, and then lost or applied at any later time.

The SQL layer has no state between statements. Its modules are operators,
translated function by function:

* **`SqlSyntax`**: tokens, syntax trees, precedence. **`SqlExpressionParser`** and
  **`SqlParser`** are the parser that the server runs (`verified_precedence.rs`,
  `verified_control.rs`), **`SqlLegacyParser`** the one that it replaced and the
  tests still compare it with, **`SqlNesting`** the scan that turns away
  statements too deep for the stack, **`SqlPrinter`** the printers with minimal
  parentheses (`verified_minparen.rs`, `verified_minparen_stmt.rs`). A token is
  one string, so a statement is a short sequence.
* **`SqlValues`**: equality, order and checked arithmetic, with integers of a
  small width and floats as exact fractions. **`SqlExpressions`**: evaluation in
  three-valued logic, normal forms, and the column lookups that the optimizer
  finds in them.
* **`SqlPlan`**, **`SqlPlanner`**: plan nodes, and how scopes turn names into column
  indexes. **`SqlOptimizer`**: constant folding, filter pushdown, index lookup,
  hash join and short-circuiting, in their order. **`SqlExecutor`**: what every
  node returns, rows and errors in sequence.
* **`SqlMeaning`** is the reference: what a statement means by its names, without
  plans or column indexes. **`SqlFrontEnd`** and **`SqlQueries`** put everything
  together: statements arrive, each a well-formed one or one token edit away,
  and the properties say what parsers, printer, planner, optimizer and executor
  make of them.

## 3. The runs

| Run | Shows |
|-----|-------|
| `mvcc` | the safety properties and inductive invariant of `MVCC`; it implements `SnapshotIsolation`; a scan in batches is one read of its snapshot |
| `raft_replication` | logs match, electable nodes hold all that is committed, state machines agree, committed entries never change |
| `raft_messages` | progress tracking, assertions and linearizable answers with messages that overtake each other |
| `raft_elections` | one winner per term, over all votes ever stored |
| `raft_log` | votes and committed entries survive crashes, caches match the store |
| `bitcask` | the key directory matches the file; it implements `KeyValue` |
| `local` | indexes match rows, constraints hold |
| `sql_state` | a replayed log leads to the same state, whatever commands a crash tears of the kinds listed below |
| `client` | a retried transaction takes effect at most once; Ok means it did; every call returns |
| `sql` | parsing undoes printing; the two parsers agree; the nesting guard charges exactly what nests, and nothing for width; plans, optimized or not, compute what their statement says |

Two runs end in a violation. Each shows a place where the program does not do
what a comment or a document of the repository says (`findings` quotes the
lines):

* `sql_state_reapply`: replaying a half-applied `Begin` leads to another state.
* `sql_outer_join`: filter pushdown moves a condition of an outer join's `ON` into
  the outer table, whose excluded rows are then missing instead of padded with
  `NULL`.

### Conditions

Some properties hold only under a condition, which is written into them. History
variables record what has happened, so that the runs check the property as far
as it goes:

* `VoteSurvivesCrash`, `CommittedKept`: until a process crashes inside a call of
  the log. What such a process wrote and did not flush is found again by
  `Log::new`, and relied upon (by the early return of `set_term_vote`, too)
  without a flush.
* `NoPanic`: without restarts. A leader that restarts within its term is a
  follower of that term, and `node.rs` panics on the responses to messages that
  it sent before.
* `IntactWithoutTornCalls`: until any crash inside a call. A torn `splice` leaves
  decreasing terms, or a gap, as it removes the old tail in ascending order.
* `DurableAfterFlush` of `BitCask`: under `OrderedRename`, a file system that
  writes a file's data before its rename. `compact` syncs neither.
* `IndexesMatchRows`, `UniqueColumns`: unless a transaction that ran beside
  another commits after a statement of it failed. A conflict on an index entry
  comes after the row was written, and the transaction stays usable.
* `ReferentialIntegrity`, `NoOrphanedRows`: for transactions that do not overlap.
  Snapshot isolation permits the write skew of deleting a row, or dropping a
  table, while another transaction inserts a reference or a row.
* `ReplayLeavesNoTrace`: while a crash tears only commits, rollbacks, deletes,
  updates of rows that keep their primary keys, `CREATE TABLE`, `DROP TABLE` of a
  table without rows and, in a table without an index, the insert or change of
  primary key of a single row. The others are not repeatable: `Begin` takes
  another version, the row of an insert exists already when it is inserted again
  (its index entry, and the rows after it, are then never written), and a dropped
  table is not found. With `Replayable` weakened to allow any one of them, TLC
  finds the state that differs; only for changes of primary key of several rows
  without an index, which need three keys, was this not done.
* `NoLeakedTxns`: but for transactions whose own begin, commit or rollback was
  aborted. The program has no cleanup for them.
* `EffectAtMostOnce`: if a COMMIT or ROLLBACK was aborted, the session has dropped
  its transaction and the client has not, so the ROLLBACK that precedes a retry
  fails and its error is returned. The property needs this: were the client to
  forget the transaction as well and retry, the closure could take effect twice
  (this is the property's mutant).
* `CallsReturn`: if every statement is answered in the end. `Raft::request` waits
  for its response without a timeout, so a lost one is waited for forever.
* `ScanIsSnapshot`: keys that the transaction itself writes during the scan are
  left out; whether the scan finds them depends on the batches.
* `ParsersAgree`: the two parsers have different errors for an `IS` that neither
  `NULL` nor `NAN` follows. What the nesting guard rejects is not compared.
* `RoundTrip`, `WideListsFree`, `GuardChargesNesting`: for trees without negative or
  infinite literals, for which there is no token.
* `GuardChargesNesting`: expressions as the printer prints them. It is about the calls
  that can nest without bound; each may make a few more, one for every precedence
  level between an operator and its operand, which the guard does not count. With
  a factorial it may charge too much: after `!` the guard expects an operand, so
  it charges an infix `-` that follows like a prefix one and keeps the `^` chain
  open.
* `ExecutesAsWritten`: when the plan succeeds, and without a lone `*` in an
  aggregate query, which is not expanded and returns the aggregates' columns.
* `OptimizedAsWritten`: when the plan succeeds with and without optimization (folding
  and pushdown evaluate expressions on rows, or without rows, that the planned
  statement would not have reached, and so may raise an error); without outer
  joins (see the finding; a `WHERE` condition pushed into their predicate, and a
  `Nothing` in the place of one side, change results too); and without primary keys that
  an `OR` names twice, which are looked up twice. The inputs have no float literal
  of integral value: `=` equates it with the integer, lookups and hash joins do
  not.

### Bounds

Where one set of bounds cannot have everything that matters, an MC module chooses
among several at the start of a behaviour (`instance`), and one run covers them
all.

* MVCC: two sessions and three versions of one key, so that a reader meets a
  finished, an overlapping and a lost writer; three sessions and two versions of
  two keys, for what relates keys (atomic commits, scans). Batches hold one key
  instead of 32, so that every scan stops between keys; while it does, at most two
  transactions are open.
* Raft elections: one term (`MaxTerm = 1`) and two messages in flight. The
  candidates of a term compete with every order of votes, crashes and late
  messages; what relates the votes of two terms is not exercised there.
* Raft otherwise: three nodes are the least with a real quorum; the branches for a
  cluster of one are modelled and not exercised. Three terms are the least in
  which an entry of an old term can be overwritten after a quorum had it.
  `MaxInFlight` bounds the set of messages; more are dropped, which the links may
  do anyway. Two in flight are needed to reorder. Client
  requests come one at a time (with one message in flight): a read or write meets
  elections and the entries that new leaders append, not another request.
* RaftLog: three indexes and two terms give a splice that both overwrites and
  removes.
* BitCask: `MaxFile` cells hold three entries and a cut-off one; `MaxReplaced`
  bounds the old files that a crash may bring back.
* LocalEngine: two integers as keys and values; statements of up to two rows. Two
  sessions share the unique table (three transactions of one write, or two of
  two); one uses the self-referencing table, or parent and child (up to three
  transactions of three writes).
* SQLState: two keys, two values, commands of up to two rows and two transactions:
  two more commands after a committed table with a row, with and without an
  index, or after one that is not committed yet.
* ClientSession: two retries instead of ten, two calls, four transactions; equal
  aborted requests are kept once.
* SQL: 26 statements that have all clauses, operators and precedence levels, and
  every statement one token away from them (insert, replace or delete, from 47
  tokens). Queries run on two tables of three rows with NULL, NaN and equal
  values, either of which may be empty. Integers end at 19 and version numbers at
  39, so that digits, sums and products overflow; the nesting limit is 4.

Deadlock checking is off where the bounds or a stopped node end all activity.

### Fairness

The run `client` assumes weak fairness of `Send`: the client's thread, which is
not blocked when a response has arrived, sends the next statement. Nothing is
assumed of the session's steps, which wait for Raft; `CallsReturn` has the
assumption that they end as its premise. All other properties are safety
properties and need no fairness.

## 4. The proofs

`MVCCProofs` proves, for any sets of keys, values and sessions and any bound on
versions, that `IInv` is inductive and that it implies `TypeOK`,
`NoConcurrentWriters`, `TxnWriteIsUncommitted`, `LatestKeySuffices`,
`SnapshotStable` and `TimeTravelStable`. The assumptions are that the bound is
a natural number and that the markers (no value, tombstone, no transaction) are
distinct from what they mark.

None of these is inductive alone. A write is safe because its conflict check
consults the handle's active set, so the invariant ties handles to the persisted
active sets (`HandlesOK`); the check looks at the newest version only, which
needs that active sets nest (`SnapshotsOK`: a transaction active for a younger
version was active for every version in between); and reads of the past are
stable because whatever a reader can see is finished (`ReadersSeeFinished`). TLC
checks `IInv`, which has `TypeOK` and `TxnWriteIsUncommitted` as conjuncts, in
the run `mvcc`.

Only model-checked: that `MVCC` implements `SnapshotIsolation`, scans in batches,
and all properties of the other modules. Liveness under fairness and what
recursive definitions compute (the SQL layer is made of them, and `BitCask`
scans its file recursively) are outside the prover's reach.

## 5. Not modelled

* The lexer: its input is text, character by character; the front end starts
  from tokens.
* Encodings (Keycode, bincode, the wire format): byte by byte. Modules above work
  on decoded keys and messages, and rely on Keycode keeping the order of keys.
* The Verus specifications and proofs in `sql/parser/verified_*.rs` and
  `verified_roundtrip.rs`: they are erased from the program. They are much of the
  lines below `src/`.
* Display of plans, expressions and errors; the wording of error messages.
* Floats: rounding, infinities as results, negative zero; `LIKE` is a table of the
  pairs that match.
* Key ranges of scans, read-only SQL sessions, datatypes and defaults in
  `LocalEngine`, references from a primary key, the TCP links as queues.
* Binaries: start-up and terminal I/O, no state of their own.
* I/O errors: the code panics on them where they would make replicas diverge.

## 6. Plan

1. Raft liveness: a stable leader commits and answers. It needs fairness of the
   links that carry a message often enough, and counters of ticks.
2. Proofs: `ElectionSafety` from `ElectionIInv` (already checked by TLC), vote
   durability in `RaftLog`, `EffectAtMostOnce`, and the refinement of
   `SnapshotIsolation`.
3. Links as queues with reconnections; Keycode order.
