------------------------------ MODULE SQLState ------------------------------
(***************************************************************************)
(* The SQL state machine that Raft applies commands to (State in           *)
(* src/sql/engine/raft.rs) on one replica, one storage write at a time,    *)
(* with crashes and the replay of the log that follows.                    *)
(*                                                                         *)
(* The writes of a command are those of src/sql/engine/local.rs and        *)
(* src/storage/mvcc.rs, in their order; the last one stores the applied    *)
(* index.  Nothing is flushed: a crash keeps some prefix of all writes,    *)
(* and the log is applied again from the applied index found.              *)
(*                                                                         *)
(* There is one table, of a primary key and a second column, that may have *)
(* an index; it has no unique column and no reference (see LocalEngine).   *)
(***************************************************************************)
EXTENDS Integers, SequencesExt, FiniteSetsExt

CONSTANTS
    Ids,          \* primary keys, integers
    Values,       \* values of the second column, integers
    Absent,       \* a key that is not stored
    Deleted,      \* the tombstone of a deleted key
    InitialLogs,  \* logs that the replica has applied before
    MaxVersion,   \* bound: transactions
    MaxIndex,     \* bound: entries of the log
    MaxRows       \* bound: rows of a command

VARIABLES
    log,        \* the committed commands
    flushed,    \* the store that the last crash left
    pending,    \* the writes since, in order
    todo,       \* the writes that the command being applied has yet to make
    torn,       \* history: flushed ends in the middle of a command
    spoiled,    \* history: a crash tore a command that is not Replayable
    reference   \* history: the store after each entry, of a replica that never crashes

vars == <<log, flushed, pending, todo, torn, spoiled, reference>>

Versions == 1 .. MaxVersion + 1   \* the last one for a Begin that is replayed
Schemas == {"plain", "indexed"}   \* whether the second column has an index
RowsOf == [id : Ids, value : Values]

\* The keys of local.rs, in their order.
Table == <<"Table", 0>>
Index(value) == <<"Index", value>>
Row(id) == <<"Row", id>>
Ascending(S) == SetToSortSeq(S, <)
SqlKeys == <<Table>> \o [i \in DOMAIN Ascending(Values) |-> Index(Ascending(Values)[i])]
                     \o [i \in DOMAIN Ascending(Ids) |-> Row(Ascending(Ids)[i])]

\* The keys of mvcc.rs, and the unversioned applied index.
NextVersion == <<"NextVersion", 0, Table>>
TxnActive(v) == <<"TxnActive", v, Table>>
TxnActiveSnapshot(v) == <<"TxnActiveSnapshot", v, Table>>
TxnWrite(v, key) == <<"TxnWrite", v, key>>
Version(key, v) == <<"Version", v, key>>
AppliedIndex == <<"AppliedIndex", 0, Table>>
Keys == {NextVersion, AppliedIndex} \cup {TxnActive(v) : v \in Versions}
        \cup {TxnActiveSnapshot(v) : v \in Versions}
        \cup {TxnWrite(v, key) : v \in Versions, key \in ToSet(SqlKeys)}
        \cup {Version(key, v) : v \in Versions, key \in ToSet(SqlKeys)}

EmptyStore == [k \in Keys |-> IF k = NextVersion THEN 1 ELSE IF k = AppliedIndex THEN 0
                              ELSE Absent]
Put(key, value) == [key |-> key, value |-> value]
Remove1(key) == Put(key, Absent)
Write(store, w) == [store EXCEPT ![w.key] = w.value]
Replay(store, writes) == FoldLeft(Write, store, writes)

-----------------------------------------------------------------------------
(* Transactions.  txn is the TransactionState that a client got from Begin. *)

ActiveIn(store) == {v \in Versions : store[TxnActive(v)] # Absent}
IsVisible(txn, v) == v \notin txn.active /\ v <= txn.version

BeginWrites(store) ==
    LET v == store[NextVersion]
    IN  <<Put(NextVersion, v + 1)>>
        \o (IF ActiveIn(store) = {} THEN <<>>
            ELSE <<Put(TxnActiveSnapshot(v), ActiveIn(store))>>)
        \o <<Put(TxnActive(v), "")>>

Written(store, txn) ==
    SelectSeq(SqlKeys, LAMBDA key : store[TxnWrite(txn.version, key)] # Absent)

CommitWrites(store, txn) ==
    [i \in DOMAIN Written(store, txn) |->
        Remove1(TxnWrite(txn.version, Written(store, txn)[i]))]
    \o <<Remove1(TxnActive(txn.version))>>

RollbackWrites(store, txn) ==
    FlattenSeq([i \in DOMAIN Written(store, txn) |->
        LET key == Written(store, txn)[i]
        IN  <<Remove1(Version(key, txn.version)), Remove1(TxnWrite(txn.version, key))>>])
    \o <<Remove1(TxnActive(txn.version))>>

Stored(store, key) == {v \in Versions : store[Version(key, v)] # Absent}

\* write_version: the newest version from the oldest active one on decides.
Conflict(store, txn, key) ==
    LET from  == IF txn.active = {} THEN txn.version + 1 ELSE Min(txn.active)
        range == {v \in Stored(store, key) : v >= from}
    IN  range # {} /\ ~IsVisible(txn, Max(range))

Get(store, txn, key) ==
    LET seen == {v \in Stored(store, key) : IsVisible(txn, v)}
    IN  IF seen = {} THEN Deleted ELSE store[Version(key, Max(seen))]
Exists(store, txn, key) == Get(store, txn, key) # Deleted

-----------------------------------------------------------------------------
(* The commands of a transaction.  A run is a command being executed: the  *)
(* store it sees, the writes it has made, whether an error stopped it, and *)
(* whether it panicked.                                                    *)

Started(store) == [store |-> store, writes |-> <<>>, ok |-> TRUE, panic |-> FALSE]
Fail(run) == [run EXCEPT !.ok = FALSE]

SetKey(run, txn, key, value) ==
    LET writes == <<Put(TxnWrite(txn.version, key), ""), Put(Version(key, txn.version), value)>>
    IN  IF ~run.ok THEN run
        ELSE IF Conflict(run.store, txn, key) THEN Fail(run)
        ELSE [run EXCEPT !.store = Replay(@, writes), !.writes = @ \o writes]

\* set_index: an entry without ids is deleted.
SetIndex(run, txn, value, ids) ==
    SetKey(run, txn, Index(value), IF ids = {} THEN Deleted ELSE ids)
GetIndex(run, txn, value) ==
    IF Exists(run.store, txn, Index(value)) THEN Get(run.store, txn, Index(value)) ELSE {}
Indexed(run, txn) == Get(run.store, txn, Table) = "indexed"

InsertRow(run, txn, row) ==
    LET set == SetKey(run, txn, Row(row.id), row.value)
    IN  IF Exists(run.store, txn, Row(row.id)) THEN Fail(run)
        ELSE IF ~Indexed(run, txn) THEN set
        ELSE SetIndex(set, txn, row.value, GetIndex(set, txn, row.value) \cup {row.id})

DeleteRow(run, txn, id) ==
    LET old       == Get(run.store, txn, Row(id))
        unindexed == IF Indexed(run, txn) /\ old # Deleted
                     THEN SetIndex(run, txn, old, GetIndex(run, txn, old) \ {id}) ELSE run
    IN  SetKey(unindexed, txn, Row(id), Deleted)

\* A change of primary key deletes the row and inserts it; the index entry of
\* a row that is missing is a panic.
UpdateRow(run, txn, id, row) ==
    LET old     == Get(run.store, txn, Row(id))
        removed == SetIndex(run, txn, old, GetIndex(run, txn, old) \ {id})
        added   == SetIndex(removed, txn, row.value, GetIndex(removed, txn, row.value) \cup {id})
    IN  IF id # row.id THEN InsertRow(DeleteRow(run, txn, id), txn, row)
        ELSE IF run.ok /\ Indexed(run, txn) /\ old = Deleted
        THEN [Fail(run) EXCEPT !.panic = TRUE]
        ELSE SetKey(IF Indexed(run, txn) /\ old # row.value THEN added ELSE run,
                    txn, Row(id), row.value)

\* The schema goes first, then the rows, then the index.
DropTable(run, txn) ==
    LET indexes == SelectSeq(SqlKeys, LAMBDA key : key[1] = "Index" /\ Exists(run.store, txn, key))
        rows    == SelectSeq(SqlKeys, LAMBDA key : key[1] = "Row" /\ Exists(run.store, txn, key))
    IN  FoldLeft(LAMBDA r, key : SetKey(r, txn, key, Deleted), run,
                 <<Table>> \o rows \o (IF Indexed(run, txn) THEN indexes ELSE <<>>))

Execute(store, c) ==
    LET run     == Started(store)
        txn     == c.txn
        created == Exists(store, txn, Table)
    IN  CASE c.kind = "CreateTable" -> IF created THEN run ELSE SetKey(run, txn, Table, c.schema)
          [] c.kind # "CreateTable" /\ ~created -> run
          [] c.kind = "DropTable" /\ created -> DropTable(run, txn)
          [] c.kind = "Insert" /\ created ->
               FoldLeft(LAMBDA r, row : InsertRow(r, txn, row), run, c.rows)
          [] c.kind = "Delete" /\ created ->
               FoldLeft(LAMBDA r, id : DeleteRow(r, txn, id), run, c.ids)
          [] c.kind = "Update" /\ created ->
               FoldLeft(LAMBDA r, id : UpdateRow(r, txn, id, c.rows[id]), run,
                        Ascending(DOMAIN c.rows))

\* A panic stops the node, and stops it again when it restarts.
Panics(store, c) == c.kind = "Update" /\ Execute(store, c).panic

\* State::write.  A command of a transaction that is not active is an error.
CommandWrites(store, c) ==
    CASE c.kind = "Noop" -> <<>>
      [] c.kind = "Begin" -> BeginWrites(store)
      [] OTHER ->
           IF c.txn.version \notin ActiveIn(store) THEN <<>>
           ELSE IF c.kind = "Commit" THEN CommitWrites(store, c.txn)
           ELSE IF c.kind = "Rollback" THEN RollbackWrites(store, c.txn)
           ELSE Execute(store, c).writes

\* Mutant: the applied index is stored before the command's writes.
ApplyWritesFirst(store, c, index) ==
    <<Put(AppliedIndex, index)>> \o CommandWrites(store, c)
\* State::apply.
ApplyWrites(store, c, index) ==
    CommandWrites(store, c) \o <<Put(AppliedIndex, index)>>

-----------------------------------------------------------------------------
Store == Replay(flushed, pending)
Applied == Store[AppliedIndex]
Idle == todo = <<>>

\* The store after n entries, and the stores after each entry of a log.
Reference(n) == reference[n + 1]
References(entries) ==
    FoldLeft(LAMBDA stores, i : Append(stores, Replay(Last(stores),
                                             ApplyWrites(Last(stores), entries[i], i))),
             <<EmptyStore>>, [i \in DOMAIN entries |-> i])

\* The transactions that Begin has returned to clients: from the leader, which
\* in this model has not crashed.
Txns ==
    {[version |-> Reference(n - 1)[NextVersion], active |-> ActiveIn(Reference(n - 1))] :
        n \in {i \in DOMAIN log : log[i].kind = "Begin"}}

\* The statements that a client makes of the rows that its transaction sees.
Statements(txn) ==
    LET seen   == {id \in Ids : Exists(Last(reference), txn, Row(id))}
        chosen == {S \in SUBSET seen : Cardinality(S) \in 1 .. MaxRows}
    IN  [kind : {"Commit", "Rollback", "DropTable"}, txn : {txn}]
        \cup [kind : {"CreateTable"}, txn : {txn}, schema : Schemas]
        \cup [kind : {"Insert"}, txn : {txn},
              rows : UNION {[1 .. n -> RowsOf] : n \in 1 .. MaxRows}]
        \cup [kind : {"Delete"}, txn : {txn}, ids : {Ascending(S) : S \in chosen}]
        \cup [kind : {"Update"}, txn : {txn}, rows : UNION {[S -> RowsOf] : S \in chosen}]

Commands ==
    [kind : {"Noop"} \cup (IF Last(reference)[NextVersion] > MaxVersion THEN {} ELSE {"Begin"})]
    \cup UNION {Statements(txn) : txn \in Txns}

Init ==
    /\ log \in InitialLogs
    /\ reference = References(log)
    /\ flushed = Last(reference)
    /\ pending = <<>>
    /\ todo = <<>>
    /\ torn = FALSE
    /\ spoiled = FALSE

\* Raft commits another entry (once this replica has caught up: what it does
\* with earlier entries does not depend on later ones).
CommitEntry ==
    /\ Idle
    /\ Applied = Len(log)
    /\ Len(log) < MaxIndex /\ ~spoiled
    /\ \E c \in Commands :
          /\ log' = Append(log, c)
          /\ reference' = Append(reference, Replay(Last(reference),
                              ApplyWrites(Last(reference), c, Len(log) + 1)))
    /\ UNCHANGED <<flushed, pending, todo, torn, spoiled>>

Apply ==
    /\ Idle
    /\ Applied < Len(log)
    /\ ~Panics(Store, log[Applied + 1])
    /\ todo' = ApplyWrites(Store, log[Applied + 1], Applied + 1)
    /\ UNCHANGED <<log, flushed, pending, torn, spoiled, reference>>

Storage ==
    /\ ~Idle
    /\ pending' = Append(pending, Head(todo))
    /\ todo' = Tail(todo)
    /\ UNCHANGED <<log, flushed, torn, spoiled, reference>>

\* A command whose replay leads to the same state, wherever a crash tore it.
\* Of an insert that is replayed, the rows written before the crash exist
\* already, and what should follow them is not written; of a DROP TABLE the
\* schema is gone already.
Replayable(store, c) ==
    CASE c.kind = "Begin" -> FALSE
      [] c.kind = "Insert" -> Len(c.rows) = 1 /\ Get(store, c.txn, Table) # "indexed"
      [] c.kind = "Update" ->
           \/ \A id \in DOMAIN c.rows : c.rows[id].id = id
           \/ Cardinality(DOMAIN c.rows) = 1 /\ Get(store, c.txn, Table) # "indexed"
      [] c.kind = "DropTable" -> \A id \in Ids : ~Exists(store, c.txn, Row(id))
      [] OTHER -> TRUE

\* A crash keeps the first k writes; State::new reads the applied index.
Crash(k) ==
    LET kept  == Replay(flushed, SubSeq(pending, 1, k))
        clean == k = 0 \/ pending[k].key = AppliedIndex
        n     == kept[AppliedIndex]
    IN  /\ ~spoiled
        /\ flushed' = kept
        /\ pending' = <<>>
        /\ todo' = <<>>
        /\ torn' = IF k = 0 THEN torn ELSE ~clean
        /\ spoiled' = (spoiled \/ (~clean /\ ~Replayable(Reference(n), log[n + 1])))
        /\ UNCHANGED <<log, reference>>

Next ==
    \/ CommitEntry
    \/ Apply
    \/ Storage
    \/ \E k \in 0 .. Len(pending) : Crash(k)

Spec == Init /\ [][Next]_vars

-----------------------------------------------------------------------------
(* Properties. *)

\* The replica is between two commands.
Settled == Idle /\ (pending # <<>> \/ ~torn)

\* "it must yield the same state and result on all nodes, even if the command
\* is reapplied following a node crash": a replica that has crashed and
\* replayed is in the state of one that has not.
SameState == Settled => Store = Reference(Applied)

\* A crash leaves no trace, however often it tears commands of these kinds:
\* COMMIT, ROLLBACK, DELETE, UPDATE of rows that keep their primary keys,
\* CREATE TABLE, DROP TABLE of an empty table, and, without an index, the
\* insert or change of primary key of a single row.  State::apply repeats the
\* whole command, and every write that it makes twice is the same write.
ReplayLeavesNoTrace == Settled /\ ~spoiled => Store = Reference(Applied)
=============================================================================
