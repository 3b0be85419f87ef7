-------------------------------- MODULE MVCC --------------------------------
(***************************************************************************)
(* The MVCC transaction engine of src/storage/mvcc.rs: versioned keys, the *)
(* active set, and the transactions that run over them.                    *)
(*                                                                         *)
(* Every operation of Transaction locks the engine mutex for its whole     *)
(* duration, so it is one atomic action here.  The raw engine keys become  *)
(* one variable per kind of key: NextVersion, TxnActive, TxnActiveSnapshot,*)
(* TxnWrite and Version.  An operation that returns an error changes no    *)
(* key, so a failed operation is a stuttering step.                        *)
(***************************************************************************)
EXTENDS Integers, FiniteSets

CONSTANTS
    Keys,        \* user keys
    Values,      \* user values
    Tombstone,   \* the None that delete() writes
    Absent,      \* no Key::Version(key, version) is stored
    Sessions,    \* holders of transactions
    NoTxn,       \* a session that holds no transaction
    MaxVersion   \* bound: begin() is disabled once this many versions are used

ASSUME MaxVersionAssumption == MaxVersion \in Nat

ASSUME DistinctAssumption ==
    /\ Tombstone \notin Values
    /\ Absent \notin Values
    /\ Tombstone # Absent

VARIABLES
    nextVersion,      \* Key::NextVersion (1 when the key is missing)
    txnActive,        \* the versions with a Key::TxnActive
    activeSnapshot,   \* Key::TxnActiveSnapshot, {} where the key is missing
    txnWrite,         \* the pairs of Key::TxnWrite
    data,             \* Key::Version(key, version) => value
    txns              \* the TransactionState each session holds in memory

vars == <<nextVersion, txnActive, activeSnapshot, txnWrite, data, txns>>

Versions == 1..MaxVersion

TransactionState ==
    [version : 0..(MaxVersion + 1), read_only : BOOLEAN, active : SUBSET Versions]

ASSUME NoTxnAssumption == NoTxn \notin TransactionState

InTxn(s) == txns[s] # NoTxn

-----------------------------------------------------------------------------
\* Mutants of IsVisible: the active set is ignored; a read-only transaction
\* sees the writes at its own version.
IsVisibleIgnoresActive(t, v) == IF t.read_only THEN v < t.version ELSE v <= t.version
IsVisibleOwnVersion(t, v) == v \notin t.active /\ v <= t.version

(* TransactionState::is_visible.                                           *)
IsVisible(t, v) ==
    /\ v \notin t.active
    /\ IF t.read_only THEN v < t.version ELSE v <= t.version

\* The versions at which key k is stored.
Stored(k) == {v \in Versions : data[k][v] # Absent}

\* v is the newest element of a set of versions.
IsLatest(v, S) == v \in S /\ \A w \in S : w <= v

(* Transaction::get: the newest stored version in 0..=version that is      *)
(* visible, Tombstone (None) when there is none or it is a deletion.       *)
Get(t, k) ==
    LET seen == {v \in Stored(k) : v <= t.version /\ IsVisible(t, v)}
    IN  IF seen = {} THEN Tombstone
        ELSE data[k][CHOOSE v \in seen : IsLatest(v, seen)]

\* Mutant of ConflictRange: older uncommitted versions are not scanned.
ConflictRangeNewer(t, k) == {v \in Stored(k) : v >= t.version + 1}

(* The conflict check of write_version: only the newest stored version in  *)
(* the scanned range is looked at.  The range starts at the oldest version *)
(* of the transaction's active set, or just above its own version.         *)
ConflictRange(t, k) ==
    {v \in Stored(k) : IF t.active = {} THEN v >= t.version + 1
                       ELSE \E a \in t.active : v >= a}

\* Mutant of WriteConflict: only newer versions conflict.
WriteConflictNewer(t, k) == \E v \in Stored(k) : v > t.version

WriteConflict(t, k) ==
    \E v \in ConflictRange(t, k) :
        IsLatest(v, ConflictRange(t, k)) /\ ~IsVisible(t, v)

-----------------------------------------------------------------------------
Init ==
    /\ nextVersion = 1
    /\ txnActive = {}
    /\ activeSnapshot = [v \in Versions |-> {}]
    /\ txnWrite = {}
    /\ data = [k \in Keys |-> [v \in Versions |-> Absent]]
    /\ txns = [s \in Sessions |-> NoTxn]

\* Mutant of Begin: the active set is not persisted for time travel.
BeginWithoutSnapshot(s) ==
    /\ ~InTxn(s)
    /\ nextVersion <= MaxVersion
    /\ nextVersion' = nextVersion + 1
    /\ txnActive' = txnActive \cup {nextVersion}
    /\ txns' = [txns EXCEPT ![s] = [version |-> nextVersion, read_only |-> FALSE,
                                     active |-> txnActive]]
    /\ UNCHANGED <<activeSnapshot, txnWrite, data>>

(* Transaction::begin.                                                     *)
Begin(s) ==
    /\ ~InTxn(s)
    /\ nextVersion <= MaxVersion
    /\ nextVersion' = nextVersion + 1
    /\ activeSnapshot' = [activeSnapshot EXCEPT ![nextVersion] = txnActive]
    /\ txnActive' = txnActive \cup {nextVersion}
    /\ txns' = [txns EXCEPT ![s] = [version |-> nextVersion, read_only |-> FALSE,
                                     active |-> txnActive]]
    /\ UNCHANGED <<txnWrite, data>>

(* Transaction::begin_read_only without as_of.                             *)
BeginReadOnly(s) ==
    /\ ~InTxn(s)
    /\ txns' = [txns EXCEPT ![s] = [version |-> nextVersion, read_only |-> TRUE,
                                     active |-> txnActive]]
    /\ UNCHANGED <<nextVersion, txnActive, activeSnapshot, txnWrite, data>>

\* Mutant of AsOfState: the current active set instead of the one at v.
AsOfCurrentActive(v) == [version |-> v, read_only |-> TRUE, active |-> txnActive]

(* Transaction::begin_read_only as of a past version.                      *)
AsOfState(v) ==
    [version |-> v, read_only |-> TRUE,
     active |-> IF v \in Versions THEN activeSnapshot[v] ELSE {}]

BeginAsOf(s, v) ==
    /\ ~InTxn(s)
    /\ v < nextVersion
    /\ txns' = [txns EXCEPT ![s] = AsOfState(v)]
    /\ UNCHANGED <<nextVersion, txnActive, activeSnapshot, txnWrite, data>>

(* Transaction::resume: the operations of a read-write transaction need    *)
(* its Key::TxnActive.                                                     *)
CanResume(t) == t.read_only \/ t.version \in txnActive

(* Transaction::set and delete, through write_version.                     *)
WriteVersion(s, k, value) ==
    LET t == txns[s] IN
    /\ InTxn(s)
    /\ CanResume(t)
    /\ ~t.read_only
    /\ ~WriteConflict(t, k)
    /\ txnWrite' = txnWrite \cup {<<t.version, k>>}
    /\ data' = [data EXCEPT ![k][t.version] = value]
    /\ UNCHANGED <<nextVersion, txnActive, activeSnapshot, txns>>

(* Transaction::commit.  A read-only commit only drops the handle.         *)
Commit(s) ==
    LET t == txns[s] IN
    /\ InTxn(s)
    /\ CanResume(t)
    /\ txns' = [txns EXCEPT ![s] = NoTxn]
    /\ IF t.read_only
       THEN UNCHANGED <<txnActive, txnWrite>>
       ELSE /\ txnWrite' = {w \in txnWrite : w[1] # t.version}
            /\ txnActive' = txnActive \ {t.version}
    /\ UNCHANGED <<nextVersion, activeSnapshot, data>>

(* Transaction::rollback: the TxnWrite records say which versions to       *)
(* delete.  The active snapshot is left behind.                            *)
Rollback(s) ==
    LET t == txns[s] IN
    /\ InTxn(s)
    /\ CanResume(t)
    /\ txns' = [txns EXCEPT ![s] = NoTxn]
    /\ IF t.read_only
       THEN UNCHANGED <<txnActive, txnWrite, data>>
       ELSE /\ data' = [k \in Keys |-> [v \in Versions |->
                           IF v = t.version /\ <<v, k>> \in txnWrite
                           THEN Absent ELSE data[k][v]]]
            /\ txnWrite' = {w \in txnWrite : w[1] # t.version}
            /\ txnActive' = txnActive \ {t.version}
    /\ UNCHANGED <<nextVersion, activeSnapshot>>

(* Transaction has no Drop: a handle that is dropped, or a session that is *)
(* lost, leaves the transaction's keys behind.                             *)
Drop(s) ==
    /\ InTxn(s)
    /\ txns' = [txns EXCEPT ![s] = NoTxn]
    /\ UNCHANGED <<nextVersion, txnActive, activeSnapshot, txnWrite, data>>

Next ==
    \E s \in Sessions :
        \/ Begin(s)
        \/ BeginReadOnly(s)
        \/ \E v \in 0..MaxVersion : BeginAsOf(s, v)
        \/ \E k \in Keys, value \in Values \cup {Tombstone} : WriteVersion(s, k, value)
        \/ Commit(s)
        \/ Rollback(s)
        \/ Drop(s)

Spec == Init /\ [][Next]_vars
-----------------------------------------------------------------------------
(* Correctness.                                                            *)

(* Versions in use are below NextVersion, records and stored versions are  *)
(* of known versions and keys, and handles are TransactionStates.          *)
TypeOK ==
    /\ nextVersion \in 1..(MaxVersion + 1)
    /\ txnActive \in SUBSET (Versions \cap 1..(nextVersion - 1))
    /\ activeSnapshot \in [Versions -> SUBSET Versions]
    /\ txnWrite \in SUBSET (Versions \X Keys)
    /\ data \in [Keys -> [Versions -> Values \cup {Tombstone, Absent}]]
    /\ txns \in [Sessions -> TransactionState \cup {NoTxn}]

(* No two concurrent transactions both write a key: whoever stored version *)
(* w of a key had every older stored version of it in its snapshot (it was *)
(* committed when w began).  Two writers of one key therefore never        *)
(* overlap, which is what the Serialization error of write_version is for. *)
NoConcurrentWriters ==
    \A k \in Keys : \A v, w \in Stored(k) :
        v < w => v \notin activeSnapshot[w] /\ v \notin txnActive

(* write_version looks at the newest stored version only ("we can only     *)
(* conflict with the latest key").  That finds every conflict: whenever    *)
(* any stored version is invisible to a live read-write transaction, the   *)
(* newest one in the scanned range is.                                     *)
LatestKeySuffices ==
    \A s \in Sessions, k \in Keys :
        InTxn(s) /\ ~txns[s].read_only =>
            (WriteConflict(txns[s], k) <=> \E v \in Stored(k) : ~IsVisible(txns[s], v))

(* The TxnWrite records are exactly the uncommitted versions, so rollback  *)
(* finds everything it must undo and commit forgets nothing.               *)
TxnWriteIsUncommitted ==
    \A k \in Keys, v \in Versions :
        <<v, k>> \in txnWrite <=> v \in txnActive /\ data[k][v] # Absent

\* In this step, reads of transactions that stay open only change for a
\* transaction that wrote the key itself.
SnapshotStep ==
    \A s \in Sessions, k \in Keys :
        InTxn(s) /\ txns'[s] = txns[s] =>
            \/ Get(txns[s], k)' = Get(txns[s], k)
            \/ ~txns[s].read_only /\ data'[k][txns[s].version] # data[k][txns[s].version]

(* Snapshot isolation: whatever another session does (write, commit, roll  *)
(* back, vanish), what a transaction reads does not change.  Only its own  *)
(* writes change its reads.                                                *)
SnapshotStable == [][SnapshotStep]_vars

\* In this step, no read as of a version that has begun changes.
TimeTravelStep ==
    \A v \in 0..MaxVersion, k \in Keys :
        v < nextVersion => Get(AsOfState(v), k)' = Get(AsOfState(v), k)

(* Time travel: once version v has begun, a read-only transaction as of v  *)
(* reads the same state whenever it is started, before or after v and the  *)
(* transactions that were active with it commit or roll back.              *)
TimeTravelStable == [][TimeTravelStep]_vars

-----------------------------------------------------------------------------
(* The inductive invariant behind the properties above.                    *)

\* A read-write handle is the only one at its version, which is active, and
\* carries the active set that begin() also persisted.
HandlesOK ==
    /\ \A s \in Sessions : InTxn(s) /\ ~txns[s].read_only =>
          /\ txns[s].version \in txnActive
          /\ txns[s].active = activeSnapshot[txns[s].version]
    /\ \A s, r \in Sessions :
          /\ s # r
          /\ InTxn(s) /\ ~txns[s].read_only
          /\ InTxn(r) /\ ~txns[r].read_only
          => txns[s].version # txns[r].version

\* What a read-only handle can see is finished: no transaction can still
\* write or roll back a version below the handle's that it did not exclude.
ReadersSeeFinished ==
    \A s \in Sessions : InTxn(s) /\ txns[s].read_only =>
        /\ txns[s].version <= nextVersion
        /\ \A v \in txnActive : v < txns[s].version => v \in txns[s].active

\* An active set snapshot only holds older versions, and a transaction that
\* is still active is in the snapshot of every younger one.
SnapshotsOK ==
    /\ \A w \in Versions : \A v \in activeSnapshot[w] : v < w
    /\ \A v, w \in Versions :
          v < w /\ w < nextVersion /\ v \in txnActive => v \in activeSnapshot[w]
    /\ \A u, v, w \in Versions :
          u < v /\ v < w /\ w < nextVersion /\ u \in activeSnapshot[w]
            => u \in activeSnapshot[v]

\* Nothing is stored at a version that has not begun.
StoredHasBegun == \A k \in Keys, v \in Versions : data[k][v] # Absent => v < nextVersion

(* The inductive invariant: the handles, the persisted active sets and the *)
(* stored versions of src/storage/mvcc.rs stay consistent with each other. *)
IInv ==
    /\ TypeOK
    /\ HandlesOK
    /\ ReadersSeeFinished
    /\ SnapshotsOK
    /\ StoredHasBegun
    /\ TxnWriteIsUncommitted
    /\ NoConcurrentWriters

-----------------------------------------------------------------------------
(* The engine implements SnapshotIsolation.  The committed database is     *)
(* what a transaction starting now would read; a transaction's snapshot is *)
(* what it reads below its own version; its buffered writes are the        *)
(* versions stored at its own.                                             *)
NoWrite == Absent

AbstractDb == [k \in Keys |->
    Get([version |-> nextVersion, read_only |-> TRUE, active |-> txnActive], k)]

AbstractHistory == [v \in 0..MaxVersion |->
    IF v < nextVersion THEN [k \in Keys |-> Get(AsOfState(v), k)]
    ELSE [k \in Keys |-> Tombstone]]

AbstractTxn(t) ==
    [read_only |-> t.read_only,
     snap |-> [k \in Keys |-> Get([t EXCEPT !.read_only = TRUE], k)],
     writes |-> [k \in Keys |-> IF t.read_only THEN NoWrite ELSE data[k][t.version]],
     stale |-> IF t.read_only THEN {}
               ELSE {k \in Keys : \E v \in Stored(k) \ txnActive : ~IsVisible(t, v)}]

Orphaned ==
    {k \in Keys : \E v \in Stored(k) \cap txnActive :
        \A s \in Sessions : InTxn(s) /\ ~txns[s].read_only => txns[s].version # v}

SI == INSTANCE SnapshotIsolation WITH
        db <- AbstractDb,
        history <- AbstractHistory,
        begun <- nextVersion - 1,
        txn <- [s \in Sessions |-> IF InTxn(s) THEN AbstractTxn(txns[s]) ELSE NoTxn],
        orphaned <- Orphaned

(* Every behaviour of the MVCC engine is a behaviour of SnapshotIsolation: *)
(* commits are atomic, snapshots private, time travel returns the state    *)
(* the transaction at that version began with, conflicts are exactly those *)
(* between concurrent writers.                                             *)
ImplementsSnapshotIsolation == SI!Spec
=============================================================================
