-------------------------- MODULE SnapshotIsolation --------------------------
(***************************************************************************)
(* What the MVCC engine promises (module documentation of                  *)
(* src/storage/mvcc.rs, "ISOLATION"), without versions or active sets: a   *)
(* transaction works on a private copy of the database taken when it began,*)
(* its writes reach the database in one step when it commits, and of two   *)
(* concurrent writers of a key only one succeeds.                          *)
(***************************************************************************)
EXTENDS Integers

CONSTANTS Keys, Values, Tombstone, Sessions, NoTxn, NoWrite, MaxVersion

VARIABLES
    db,        \* the committed database
    history,   \* history[v]: the database when read-write transaction v began
    begun,     \* how many read-write transactions have begun
    txn,       \* each session's transaction
    orphaned   \* keys written by transactions whose session is gone

vars == <<db, history, begun, txn, orphaned>>

Contents == [Keys -> Values \cup {Tombstone}]

\* snap: the private snapshot; writes: the buffered writes; stale: the keys
\* concurrent transactions have committed since this one began.
ReadWrite(snap) == [read_only |-> FALSE, snap |-> snap, stale |-> {},
                    writes |-> [k \in Keys |-> NoWrite]]
ReadOnly(snap) == [read_only |-> TRUE, snap |-> snap, stale |-> {},
                   writes |-> [k \in Keys |-> NoWrite]]

Written(t) == {k \in Keys : t.writes[k] # NoWrite}

Init ==
    /\ db = [k \in Keys |-> Tombstone]
    /\ history = [v \in 0..MaxVersion |-> db]
    /\ begun = 0
    /\ txn = [s \in Sessions |-> NoTxn]
    /\ orphaned = {}

\* A session's transaction begins, goes on and ends.
Starts(s) == txn[s] = NoTxn /\ txn'[s] # NoTxn
Continues(s) == txn[s] # NoTxn /\ txn'[s] # NoTxn
Ends(s) == txn[s] # NoTxn /\ txn'[s] = NoTxn

Begin(s) ==
    /\ begun < MaxVersion
    /\ begun' = begun + 1
    /\ Starts(s)
    /\ history' = [history EXCEPT ![begun + 1] = db]
    /\ txn' = [txn EXCEPT ![s] = ReadWrite(db)]
    /\ UNCHANGED <<db, orphaned>>

\* A read-only transaction sees the database now, or as transaction v saw it.
BeginReadOnly(s) ==
    /\ begun' = begun /\ Starts(s)
    /\ \E snap \in {db} \cup {history[v] : v \in 0..begun} :
          txn' = [txn EXCEPT ![s] = ReadOnly(snap)]
    /\ UNCHANGED <<db, history, orphaned>>

Write(s, k, value) ==
    /\ begun' = begun /\ Continues(s)
    /\ ~txn[s].read_only /\ txn'[s].writes[k] = value
    /\ k \notin txn[s].stale \cup orphaned
    /\ \A o \in Sessions \ {s} : txn[o] # NoTxn => k \notin Written(txn[o])
    /\ txn' = [txn EXCEPT ![s].writes[k] = value]
    /\ UNCHANGED <<db, history, orphaned>>

Commit(s) ==
    /\ begun' = begun /\ Ends(s)
    /\ db' = [k \in Keys |-> IF k \in Written(txn[s]) THEN txn[s].writes[k] ELSE db[k]]
    /\ txn' = [o \in Sessions |->
                 IF o = s THEN NoTxn
                 ELSE IF txn[o] # NoTxn /\ ~txn[o].read_only
                      THEN [txn[o] EXCEPT !.stale = @ \cup Written(txn[s])]
                      ELSE txn[o]]
    /\ UNCHANGED <<history, orphaned>>

Rollback(s) ==
    /\ begun' = begun /\ Ends(s)
    /\ txn' = [txn EXCEPT ![s] = NoTxn]
    /\ UNCHANGED <<db, history, orphaned>>

\* The session vanishes: its writes are never committed, nor rolled back.
Abandon(s) ==
    /\ begun' = begun /\ Ends(s)
    /\ txn' = [txn EXCEPT ![s] = NoTxn]
    /\ orphaned' = orphaned \cup Written(txn[s])
    /\ UNCHANGED <<db, history>>

Next ==
    \E s \in Sessions :
        \/ Begin(s)
        \/ BeginReadOnly(s)
        \/ \E k \in Keys, value \in Values \cup {Tombstone} : Write(s, k, value)
        \/ Commit(s)
        \/ Rollback(s)
        \/ Abandon(s)

Spec == Init /\ [][Next]_vars
=============================================================================
