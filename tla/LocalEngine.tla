----------------------------- MODULE LocalEngine -----------------------------
(***************************************************************************)
(* The local SQL engine (src/sql/engine/local.rs) over transactional keys: *)
(* tables, rows, secondary indexes, and the constraints that writes check  *)
(* (Table::validate and validate_row of src/sql/types/schema.rs).          *)
(*                                                                         *)
(* Transactions are those of module SnapshotIsolation, which the MVCC      *)
(* engine implements.  A statement is one step, since Raft applies one     *)
(* command at a time, but its writes are made one by one: the first that   *)
(* fails ends it, and those before it stay in the transaction.             *)
(*                                                                         *)
(* A table has a primary key and at most one more column, which may be     *)
(* indexed, unique and a foreign key.  Datatypes and defaults are left out.*)
(***************************************************************************)
EXTENDS Integers, SequencesExt, FiniteSetsExt

CONSTANTS
    Sessions,
    Tables,          \* table names
    Schema,          \* Tables -> [index, unique : BOOLEAN, references : a table or Null]
    Ids,             \* integers, for primary keys and references
    Null,
    Absent,          \* what a key that is not stored reads as
    NoTxn,           \* a session that has no transaction
    MaxTxns,         \* bound: transactions begun
    MaxWrites        \* bound: write statements per transaction

ASSUME SchemaAssumption ==
    \A t \in Tables : Schema[t].unique \/ Schema[t].references # Null => Schema[t].index

VARIABLES
    db,      \* the committed contents of every key
    txn,     \* each session's transaction
    begun,   \* how many transactions have begun
    events   \* history: "overlap", two transactions have been open at once;
             \* "salvage", one has committed after a statement of it failed

vars == <<db, txn, begun, events>>

Values == Ids \cup {Null}

\* Key of local.rs: Table(t), Row(t, id) and Index(t, column, value).
TableKey(t) == <<"table", t, Null>>
RowKey(t, id) == <<"row", t, id>>
IndexKey(t, v) == <<"index", t, v>>
Keys == {TableKey(t) : t \in Tables}
        \cup {RowKey(t, id) : t \in Tables, id \in Ids}
        \cup {IndexKey(t, v) : t \in {u \in Tables : Schema[u].index}, v \in Values}

-----------------------------------------------------------------------------
(* Reading, from the view that a transaction has of the keys. *)

HasTable(view, t) == view[TableKey(t)] # Absent
HasRow(view, t, id) == view[RowKey(t, id)] # Absent
\* get_index: no entry reads as the empty set.
GetIndex(view, t, v) == IF view[IndexKey(t, v)] = Absent THEN {} ELSE view[IndexKey(t, v)]
\* table_references: the tables whose column references t.
References(view, t) == {u \in Tables : HasTable(view, u) /\ Schema[u].references = t}

-----------------------------------------------------------------------------
(* Writing.  A statement maps a transaction to a transaction; failed says  *)
(* that a write of it, or a check, returned an error.                      *)

Open(s) == txn[s] # NoTxn
Fail(x) == [x EXCEPT !.failed = TRUE]

\* write_version returns a serialization error when another open transaction,
\* or one that committed after this one began, has written the key.
Conflict(x, k) ==
    \/ k \in x.stale
    \/ \E s \in Sessions : Open(s) /\ txn[s].id # x.id /\ k \in txn[s].written

Set(x, k, value) ==
    IF x.failed THEN x
    ELSE IF Conflict(x, k) THEN Fail(x)
    ELSE [x EXCEPT !.view[k] = value, !.written = @ \cup {k}]

SetIndex(x, t, v, ids) ==
    IF ~Schema[t].index THEN x
    ELSE Set(x, IndexKey(t, v), IF ids = {} THEN Absent ELSE ids)
IndexAdd(x, t, v, id) ==
    IF ~Schema[t].index THEN x ELSE SetIndex(x, t, v, GetIndex(x.view, t, v) \cup {id})
IndexRemove(x, t, v, id) ==
    IF ~Schema[t].index THEN x ELSE SetIndex(x, t, v, GetIndex(x.view, t, v) \ {id})

\* Table::validate_row: a row is its primary key and its other column.
ValidReference(view, t, row) ==
    \/ Schema[t].references = Null
    \/ row.value = Null
    \/ Schema[t].references = t /\ row.value = row.id
    \/ HasRow(view, Schema[t].references, row.value)

ValidRow(view, t, row, update) ==
    /\ update \/ ~HasRow(view, t, row.id)
    /\ ValidReference(view, t, row)
    /\ Schema[t].unique /\ row.value # Null =>
          GetIndex(view, t, row.value) \ (IF update THEN {row.id} ELSE {}) = {}

InsertRow(x, t, row) ==
    IF x.failed \/ ~ValidRow(x.view, t, row, FALSE) THEN Fail(x)
    ELSE IndexAdd(Set(x, RowKey(t, row.id), row.value), t, row.value, row.id)

Insert(x, t, rows) ==
    FoldLeft(LAMBDA y, row : InsertRow(y, t, row), x, rows)

\* Mutant: references within the deleted table are always ignored.
ReferencingOthers(view, t, ids) ==
    UNION {UNION {GetIndex(view, u, id) : id \in ids} : u \in References(view, t) \ {t}}

\* delete: rows that reference the deleted ones, other than these themselves.
Referencing(view, t, ids) ==
    UNION {UNION {GetIndex(view, u, id) : id \in ids} \ (IF u = t THEN ids ELSE {}) :
              u \in References(view, t)}
DeleteRow(x, t, id) ==
    LET y == IF HasRow(x.view, t, id) THEN IndexRemove(x, t, x.view[RowKey(t, id)], id) ELSE x
    IN  Set(y, RowKey(t, id), Absent)
Delete(x, t, ids) ==
    IF x.failed \/ Referencing(x.view, t, ids) # {} THEN Fail(x)
    ELSE FoldLeft(LAMBDA y, id : DeleteRow(y, t, id), x, SetToSortSeq(ids, <))

\* Mutant: the old index entry keeps the row.
UpdateRowAddsOnly(x, t, id, row) ==
    IF x.failed THEN x
    ELSE IF id # row.id THEN InsertRow(Delete(x, t, {id}), t, row)
    ELSE IF ~ValidRow(x.view, t, row, TRUE) THEN Fail(x)
    ELSE Set(IndexAdd(x, t, row.value, id), RowKey(t, id), row.value)

UpdateRow(x, t, id, row) ==
    LET old     == x.view[RowKey(t, id)]
        indexed == IF old = row.value THEN x
                   ELSE IndexAdd(IndexRemove(x, t, old, id), t, row.value, id)
    IN  IF x.failed THEN x
        ELSE IF id # row.id THEN InsertRow(Delete(x, t, {id}), t, row)
        ELSE IF ~ValidRow(x.view, t, row, TRUE) THEN Fail(x)
        ELSE Set(indexed, RowKey(t, id), row.value)
\* update takes the new rows in the order of the old primary keys.
Update(x, t, rows) ==
    FoldLeft(LAMBDA y, id : UpdateRow(y, t, id, rows[id]), x,
             SetToSortSeq(DOMAIN rows, <))

CreateTable(x, t) ==
    IF \/ HasTable(x.view, t)
       \/ Schema[t].references \notin {Null, t} /\ ~HasTable(x.view, Schema[t].references)
    THEN Fail(x)
    ELSE Set(x, TableKey(t), "table")

\* Mutant: the rows stay behind.
DropTableOnly(x, t) ==
    IF ~HasTable(x.view, t) \/ References(x.view, t) \ {t} # {} THEN Fail(x)
    ELSE Set(x, TableKey(t), Absent)

\* drop_table: the schema, then the rows, then the index entries.
DropTable(x, t) ==
    LET stored == {k \in Keys : k[2] = t /\ x.view[k] # Absent}
        order  == SetToSeq({k \in stored : k[1] = "table"})
                  \o SetToSeq({k \in stored : k[1] = "row"})
                  \o SetToSeq({k \in stored : k[1] = "index"})
    IN  IF ~HasTable(x.view, t) \/ References(x.view, t) \ {t} # {} THEN Fail(x)
        ELSE FoldLeft(LAMBDA y, k : Set(y, k, Absent), x, order)

-----------------------------------------------------------------------------
Init ==
    /\ db = [k \in Keys |-> IF k[1] = "table" THEN "table" ELSE Absent]
    /\ txn = [s \in Sessions |-> NoTxn]
    /\ begun = 0
    /\ events = {}

Begin(s) ==
    /\ ~Open(s)
    /\ begun < MaxTxns
    /\ begun' = begun + 1
    /\ txn' = [txn EXCEPT ![s] = [id |-> begun', view |-> db, written |-> {}, stale |-> {},
                                   failed |-> FALSE, errors |-> FALSE, writes |-> 0]]
    /\ events' = events \cup (IF \E o \in Sessions : Open(o) THEN {"overlap"} ELSE {})
    /\ UNCHANGED db

\* A statement; the client learns whether it failed.
Execute(s, x) ==
    /\ txn' = [txn EXCEPT ![s] = [x EXCEPT !.failed = FALSE, !.errors = @ \/ x.failed,
                                            !.writes = @ + 1]]
    /\ UNCHANGED <<db, begun, events>>

\* must_get_table and the planner fail before anything is written.
CanWrite(s, t) ==
    /\ Open(s)
    /\ txn[s].writes < MaxWrites
    /\ HasTable(txn[s].view, t)

Rows(t) == [id : Ids, value : IF Schema[t].index THEN Values ELSE {Null}]
RowsOf(s, t) == {id \in Ids : HasRow(txn[s].view, t, id)}

\* Mutant: open transactions do not see what has been committed as a conflict.
CommitIgnoresConcurrent(s) ==
    /\ Open(s)
    /\ db' = [k \in Keys |-> IF k \in txn[s].written THEN txn[s].view[k] ELSE db[k]]
    /\ txn' = [txn EXCEPT ![s] = NoTxn]
    /\ events' = events \cup (IF txn[s].errors THEN {"salvage"} ELSE {})
    /\ UNCHANGED begun

Commit(s) ==
    /\ Open(s)
    /\ db' = [k \in Keys |-> IF k \in txn[s].written THEN txn[s].view[k] ELSE db[k]]
    /\ txn' = [o \in Sessions |->
                 IF o = s THEN NoTxn
                 ELSE IF Open(o) THEN [txn[o] EXCEPT !.stale = @ \cup txn[s].written]
                 ELSE NoTxn]
    /\ events' = events \cup (IF txn[s].errors THEN {"salvage"} ELSE {})
    /\ UNCHANGED begun

Rollback(s) ==
    /\ Open(s)
    /\ txn' = [txn EXCEPT ![s] = NoTxn]
    /\ UNCHANGED <<db, begun, events>>

\* A write statement on table t.
Statement(s, t) ==
    \/ /\ CanWrite(s, t)
       /\ \/ \E rows \in SeqOf(Rows(t), 2) \ {<<>>} : Execute(s, Insert(txn[s], t, rows))
          \/ \E ids \in SUBSET RowsOf(s, t) \ {{}} : Execute(s, Delete(txn[s], t, ids))
          \/ \E ids \in SUBSET RowsOf(s, t) \ {{}} : \E rows \in [ids -> Rows(t)] :
                Execute(s, Update(txn[s], t, rows))
          \/ Execute(s, DropTable(txn[s], t))
    \/ /\ Open(s) /\ txn[s].writes < MaxWrites
       /\ Execute(s, CreateTable(txn[s], t))

Next ==
    \E s \in Sessions :
        Begin(s) \/ Commit(s) \/ Rollback(s) \/ \E t \in Tables : Statement(s, t)

Spec == Init /\ [][Next]_vars

-----------------------------------------------------------------------------
(* Properties of the committed database. *)

CommittedRows(t) == {id \in Ids : HasRow(db, t, id)}

\* Writes of a statement that failed on a conflict have not been committed.
WholeStatements == ~({"overlap", "salvage"} \subseteq events)
\* No transaction has been open beside another one.
Serial == "overlap" \notin events

\* A secondary index lists exactly the rows with its value: lookup_index and
\* the checks built on it (uniqueness, references on delete) miss no row.
\* Snapshot isolation is enough for this, since an index entry is rewritten
\* by everyone who adds a row to it; but a conflict on the entry comes after
\* the row is written, so the client must not commit after such an error.
IndexesMatchRows ==
    WholeStatements => \A t \in Tables : Schema[t].index => \A v \in Values :
        GetIndex(db, t, v) = {id \in CommittedRows(t) : db[RowKey(t, id)] = v}

\* No two rows have the same value in a unique column (NULL aside), whichever
\* transactions inserted or updated them side by side.
UniqueColumns ==
    WholeStatements => \A t \in Tables : Schema[t].unique => \A i, j \in CommittedRows(t) :
        db[RowKey(t, i)] = db[RowKey(t, j)] /\ db[RowKey(t, i)] # Null => i = j

\* The row that a foreign key names exists, after any statements, failed ones
\* included, of transactions that run one after the other.  (Side by side, a
\* delete of the row and an insert of a reference to it write different keys,
\* and both commit.)
ReferentialIntegrity ==
    Serial => \A t \in Tables : Schema[t].references # Null => \A id \in CommittedRows(t) :
        \/ db[RowKey(t, id)] = Null
        \/ HasRow(db, Schema[t].references, db[RowKey(t, id)])

\* Rows and index entries belong to tables that exist, and a foreign key's
\* table exists, when transactions run one after the other.
NoOrphanedRows ==
    Serial =>
        /\ \A k \in Keys : db[k] # Absent => HasTable(db, k[2])
        /\ \A t \in Tables : HasTable(db, t) /\ Schema[t].references # Null =>
              HasTable(db, Schema[t].references)
=============================================================================
