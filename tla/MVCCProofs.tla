----------------------------- MODULE MVCCProofs -----------------------------
(***************************************************************************)
(* Proofs about MVCC: the inductive invariant IInv, and from it that no    *)
(* two concurrent transactions write the same key, that the conflict check *)
(* of write_version finds every conflict, and that snapshots and           *)
(* time-travel reads are stable.                                           *)
(***************************************************************************)
EXTENDS MVCC, WellFoundedInduction, TLAPS

USE MaxVersionAssumption, DistinctAssumption, NoTxnAssumption

(* A non-empty set of versions has a newest element.                       *)
LEMMA LatestExists ==
    ASSUME NEW S \in SUBSET (1..MaxVersion), S # {}
    PROVE  \E v \in S : IsLatest(v, S)
<1> DEFINE R == OpToRel(<, Nat)
           T == {MaxVersion - v : v \in S}
<1>1. T \subseteq Nat /\ T # {}
  <2>1. PICK v \in S : TRUE
    OBVIOUS
  <2>2. MaxVersion - v \in T
    BY <2>1
  <2>3. T \subseteq Nat
    OBVIOUS
  <2> QED BY <2>2, <2>3
<1>2. PICK x \in T : \A y \in T : <<y, x>> \notin R
  <2> HIDE DEF T, R
  <2> QED BY <1>1, WFMin, NatLessThanWellFounded DEF R
<1>3. \A y \in T : ~(y < x)
  BY <1>1, <1>2 DEF OpToRel
<1>4. PICK v \in S : x = MaxVersion - v
  OBVIOUS
<1>5. \A w \in S : w <= v
  BY <1>3, <1>4
<1> QED BY <1>4, <1>5 DEF IsLatest

LEMMA InitIInv == Init => IInv
BY DEF Init, IInv, TypeOK, HandlesOK, ReadersSeeFinished, SnapshotsOK, StoredHasBegun,
       TxnWriteIsUncommitted, NoConcurrentWriters, InTxn, Stored, Versions

(* begin() keeps the invariant.                                            *)
LEMMA BeginIInv == ASSUME IInv, NEW s \in Sessions, Begin(s) PROVE IInv'
<1> DEFINE n == nextVersion
<1>0. n \in Versions /\ n \notin txnActive
  BY DEF IInv, TypeOK, Begin, Versions
<1>1. TypeOK'
  BY <1>0 DEF IInv, TypeOK, Begin, Versions, TransactionState
<1>2. HandlesOK'
  BY <1>0 DEF IInv, TypeOK, HandlesOK, Begin, InTxn, TransactionState, Versions
<1>3. ReadersSeeFinished'
  BY <1>0 DEF IInv, TypeOK, ReadersSeeFinished, Begin, InTxn, TransactionState, Versions
<1>4. SnapshotsOK'
  BY <1>0 DEF IInv, TypeOK, SnapshotsOK, Begin, Versions
<1>5. StoredHasBegun'
  BY <1>0 DEF IInv, TypeOK, StoredHasBegun, Begin, Versions
<1>6. TxnWriteIsUncommitted'
  <2> SUFFICES ASSUME NEW k \in Keys, NEW v \in Versions
               PROVE  <<v, k>> \in txnWrite <=> v \in txnActive' /\ data[k][v] # Absent
    BY DEF TxnWriteIsUncommitted, Begin
  <2>1. <<v, k>> \in txnWrite <=> v \in txnActive /\ data[k][v] # Absent
    BY DEF IInv, TxnWriteIsUncommitted
  <2>2. v = n => data[k][v] = Absent
    BY <1>0 DEF IInv, StoredHasBegun, Versions
  <2> QED BY <2>1, <2>2 DEF Begin
<1>7. NoConcurrentWriters'
  BY <1>0 DEF IInv, TypeOK, NoConcurrentWriters, StoredHasBegun, Stored, Begin, Versions
<1> QED BY <1>1, <1>2, <1>3, <1>4, <1>5, <1>6, <1>7 DEF IInv
(* A step that only changes one session's handle, to no transaction or to  *)
(* a read-only one that excludes what is active, keeps the invariant.      *)
LEMMA HandleIInv ==
    ASSUME IInv, NEW s \in Sessions, NEW h,
           h = NoTxn \/ /\ h \in TransactionState
                        /\ h.read_only
                        /\ h.version <= nextVersion
                        /\ \A v \in txnActive : v < h.version => v \in h.active,
           txns' = [txns EXCEPT ![s] = h],
           UNCHANGED <<nextVersion, txnActive, activeSnapshot, txnWrite, data>>
    PROVE  IInv'
<1>1. TypeOK'
  BY DEF IInv, TypeOK, Versions
<1>2. HandlesOK'
  BY DEF IInv, TypeOK, HandlesOK, InTxn
<1>3. ReadersSeeFinished'
  BY DEF IInv, TypeOK, ReadersSeeFinished, InTxn
<1>4. (SnapshotsOK /\ StoredHasBegun)'
  BY DEF IInv, SnapshotsOK, StoredHasBegun
<1>5. (TxnWriteIsUncommitted /\ NoConcurrentWriters)'
  BY DEF IInv, TxnWriteIsUncommitted, NoConcurrentWriters, Stored
<1> QED BY <1>1, <1>2, <1>3, <1>4, <1>5 DEF IInv

LEMMA BeginReadOnlyIInv == ASSUME IInv, NEW s \in Sessions, BeginReadOnly(s) PROVE IInv'
<1> DEFINE h == [version |-> nextVersion, read_only |-> TRUE, active |-> txnActive]
<1>1. h \in TransactionState
  BY DEF IInv, TypeOK, TransactionState, Versions
<1>2. h.version <= nextVersion /\ h.active = txnActive /\ h.read_only
  BY DEF IInv, TypeOK
<1> HIDE DEF h
<1>3. txns' = [txns EXCEPT ![s] = h]
  BY DEF BeginReadOnly, h
<1> QED BY <1>1, <1>2, <1>3, HandleIInv DEF BeginReadOnly

LEMMA BeginAsOfIInv ==
    ASSUME IInv, NEW s \in Sessions, NEW v \in 0..MaxVersion, BeginAsOf(s, v)
    PROVE  IInv'
<1>1. AsOfState(v) \in TransactionState
  BY DEF IInv, TypeOK, TransactionState, Versions, AsOfState
<1>2. \A u \in txnActive : u < v => u \in AsOfState(v).active
  BY DEF IInv, TypeOK, SnapshotsOK, Versions, AsOfState, BeginAsOf
<1>3. v <= nextVersion
  BY DEF BeginAsOf, IInv, TypeOK
<1> QED BY <1>1, <1>2, <1>3, HandleIInv DEF BeginAsOf, AsOfState

LEMMA DropIInv == ASSUME IInv, NEW s \in Sessions, Drop(s) PROVE IInv'
BY HandleIInv DEF Drop
(* The transaction of a read-write session.                                *)
LEMMA WriterFacts ==
    ASSUME IInv, NEW s \in Sessions, InTxn(s), ~txns[s].read_only
    PROVE  /\ txns[s].version \in Versions
           /\ txns[s].version \in txnActive
           /\ txns[s].version < nextVersion
           /\ txns[s].active = activeSnapshot[txns[s].version]
           /\ txns[s].active \in SUBSET Versions
           /\ txns[s].read_only = FALSE
BY DEF IInv, TypeOK, HandlesOK, InTxn, TransactionState, Versions

(* What write_version's check of the newest version means: if it finds no  *)
(* conflict, every stored version of the key is visible to the writer.     *)
LEMMA ConflictCheck ==
    ASSUME IInv, NEW s \in Sessions, InTxn(s), ~txns[s].read_only,
           NEW k \in Keys, NEW v \in Stored(k), ~IsVisible(txns[s], v)
    PROVE  WriteConflict(txns[s], k)
<1> DEFINE t == txns[s]
           w == t.version
           R == ConflictRange(t, k)
<1>0. /\ w \in Versions /\ w < nextVersion /\ w \in txnActive
      /\ t.active = activeSnapshot[w] /\ t.active \in SUBSET Versions /\ t.read_only = FALSE
  BY WriterFacts
<1>1. v \in Versions /\ v < nextVersion
  BY DEF Stored, IInv, StoredHasBegun
<1>2. v \in t.active \/ v > w
  BY <1>0, <1>1 DEF IsVisible, Versions
<1>3. v \in R
  <2>1. CASE t.active = {}
    BY <2>1, <1>2, <1>1, <1>0 DEF ConflictRange, Versions
  <2>2. CASE t.active # {} /\ v \in t.active
    BY <2>2, <1>1 DEF ConflictRange, Versions
  <2>3. CASE t.active # {} /\ v > w
    <3>1. PICK a \in t.active : TRUE
      BY <2>3
    <3>2. a \in Versions /\ a < w
      BY <3>1, <1>0 DEF IInv, SnapshotsOK
    <3> QED BY <3>1, <3>2, <2>3, <1>0, <1>1 DEF ConflictRange, Versions
  <2> QED BY <2>1, <2>2, <2>3, <1>2
<1>4. R \in SUBSET (1..MaxVersion)
  BY DEF ConflictRange, Stored, Versions
<1>5. PICK m \in R : IsLatest(m, R)
  BY <1>3, <1>4, LatestExists
<1>6. ~IsVisible(t, m)
  <2> SUFFICES ASSUME IsVisible(t, m) PROVE FALSE
    OBVIOUS
  <2>1. m \in Versions /\ m <= w /\ m \notin activeSnapshot[w] /\ v <= m /\ m \in Stored(k)
    BY <1>3, <1>4, <1>5, <1>0 DEF IsVisible, IsLatest, Versions, ConflictRange
  <2>2. v \in activeSnapshot[w] /\ v # m /\ v < m
    BY <2>1, <1>2, <1>1, <1>0 DEF Versions
  <2>3. v \notin activeSnapshot[m]
    BY <2>1, <2>2 DEF IInv, NoConcurrentWriters
  <2>4. CASE m = w
    BY <2>2, <2>3, <2>4
  <2>5. CASE m < w
    BY <2>1, <2>2, <2>3, <2>5, <1>0, <1>1 DEF IInv, SnapshotsOK
  <2> QED BY <2>4, <2>5, <2>1, <1>0 DEF Versions
<1> QED BY <1>5, <1>6 DEF WriteConflict
LEMMA WriteIInv ==
    ASSUME IInv, NEW s \in Sessions, NEW k \in Keys,
           NEW value \in Values \cup {Tombstone}, WriteVersion(s, k, value)
    PROVE  IInv'
<1> DEFINE w == txns[s].version
<1>0. /\ w \in Versions /\ w < nextVersion /\ w \in txnActive /\ InTxn(s)
      /\ txns[s].active = activeSnapshot[w] /\ txns[s].read_only = FALSE
  BY WriterFacts DEF WriteVersion
<1>1. \A v \in Stored(k) : IsVisible(txns[s], v)
  BY <1>0, ConflictCheck DEF WriteVersion
<1>2. /\ data' = [data EXCEPT ![k][w] = value]
      /\ txnWrite' = txnWrite \cup {<<w, k>>}
      /\ UNCHANGED <<nextVersion, txnActive, activeSnapshot, txns>>
  BY DEF WriteVersion
<1>3. TypeOK'
  BY <1>0, <1>2 DEF IInv, TypeOK, Versions
<1>4. (HandlesOK /\ ReadersSeeFinished /\ SnapshotsOK)'
  BY <1>2 DEF IInv, HandlesOK, ReadersSeeFinished, SnapshotsOK, InTxn
<1>5. StoredHasBegun'
  BY <1>0, <1>2 DEF IInv, TypeOK, StoredHasBegun
<1>6. TxnWriteIsUncommitted'
  <2> SUFFICES ASSUME NEW k2 \in Keys, NEW v \in Versions
               PROVE  (<<v, k2>> \in txnWrite <=> v \in txnActive /\ data[k2][v] # Absent)'
    BY DEF TxnWriteIsUncommitted
  <2>1. <<v, k2>> \in txnWrite <=> v \in txnActive /\ data[k2][v] # Absent
    BY DEF IInv, TxnWriteIsUncommitted
  <2>2. CASE v = w /\ k2 = k
    BY <2>2, <1>0, <1>2 DEF IInv, TypeOK
  <2>3. CASE ~(v = w /\ k2 = k)
    <3>1. data'[k2][v] = data[k2][v]
      BY <2>3, <1>0, <1>2 DEF IInv, TypeOK
    <3>2. <<v, k2>> \in txnWrite' <=> <<v, k2>> \in txnWrite
      BY <2>3, <1>2
    <3> QED BY <3>1, <3>2, <2>1, <1>2
  <2> QED BY <2>2, <2>3
<1>7. NoConcurrentWriters'
  <2> SUFFICES ASSUME NEW k2 \in Keys, NEW u \in Versions, NEW v \in Versions,
                      data'[k2][u] # Absent, data'[k2][v] # Absent, u < v
               PROVE  u \notin activeSnapshot[v] /\ u \notin txnActive
    BY <1>2 DEF NoConcurrentWriters, Stored
  <2>1. CASE data[k2][u] # Absent /\ data[k2][v] # Absent
    BY <2>1 DEF IInv, NoConcurrentWriters, Stored
  <2>2. CASE ~(data[k2][u] # Absent /\ data[k2][v] # Absent)
    <3>1. k2 = k /\ (u = w \/ v = w)
      BY <2>2, <1>0, <1>2 DEF IInv, TypeOK
    <3>2. CASE v = w
      <4>1. u \in Stored(k)
        BY <3>1, <3>2, <1>0, <1>2 DEF IInv, TypeOK, Stored, Versions
      <4>2. u \notin activeSnapshot[w]
        BY <4>1, <1>1, <1>0 DEF IsVisible
      <4> QED BY <4>2, <3>2, <1>0 DEF IInv, SnapshotsOK
    <3>3. CASE u = w /\ v # w
      <4>1. v \in Stored(k)
        BY <3>1, <3>3, <1>0, <1>2 DEF IInv, TypeOK, Stored, Versions
      <4>2. v <= w
        BY <4>1, <1>1, <1>0 DEF IsVisible
      <4> QED BY <4>2, <3>3 DEF Versions
    <3> QED BY <3>1, <3>2, <3>3
  <2> QED BY <2>1, <2>2
<1> QED BY <1>3, <1>4, <1>5, <1>6, <1>7 DEF IInv
(* Finishing a read-write transaction, by commit() or rollback(): its      *)
(* TxnWrite records and TxnActive go, and versions may only disappear, all *)
(* of its own (rollback) or none (commit).                                 *)
LEMMA FinishIInv ==
    ASSUME IInv, NEW s \in Sessions, InTxn(s), ~txns[s].read_only,
           UNCHANGED <<nextVersion, activeSnapshot>>,
           txns' = [txns EXCEPT ![s] = NoTxn],
           txnActive' = txnActive \ {txns[s].version},
           txnWrite' = {w \in txnWrite : w[1] # txns[s].version},
           data' \in [Keys -> [Versions -> Values \cup {Tombstone, Absent}]],
           \A k \in Keys, v \in Versions :
               /\ v # txns[s].version => data'[k][v] = data[k][v]
               /\ data'[k][v] # Absent => data[k][v] # Absent
    PROVE  IInv'
<1> DEFINE t == txns[s].version
<1>0. t \in Versions /\ t \in txnActive
  BY WriterFacts
<1>1. TypeOK'
  BY <1>0 DEF IInv, TypeOK, Versions
<1>2. HandlesOK'
  BY <1>0 DEF IInv, TypeOK, HandlesOK, InTxn
<1>3. (ReadersSeeFinished /\ SnapshotsOK)'
  BY <1>0 DEF IInv, TypeOK, ReadersSeeFinished, SnapshotsOK, InTxn
<1>4. StoredHasBegun'
  BY DEF IInv, StoredHasBegun
<1>5. TxnWriteIsUncommitted'
  <2> SUFFICES ASSUME NEW k \in Keys, NEW v \in Versions
               PROVE  (<<v, k>> \in txnWrite <=> v \in txnActive /\ data[k][v] # Absent)'
    BY DEF TxnWriteIsUncommitted
  <2>1. <<v, k>> \in txnWrite <=> v \in txnActive /\ data[k][v] # Absent
    BY DEF IInv, TxnWriteIsUncommitted
  <2>2. <<v, k>> \in txnWrite' <=> <<v, k>> \in txnWrite /\ v # t
    OBVIOUS
  <2> QED BY <2>1, <2>2
<1>6. NoConcurrentWriters'
  BY DEF IInv, NoConcurrentWriters, Stored
<1> QED BY <1>1, <1>2, <1>3, <1>4, <1>5, <1>6 DEF IInv

LEMMA CommitIInv == ASSUME IInv, NEW s \in Sessions, Commit(s) PROVE IInv'
<1>1. CASE txns[s].read_only
  BY <1>1, HandleIInv DEF Commit
<1>2. CASE ~txns[s].read_only
  BY <1>2, FinishIInv DEF Commit, IInv, TypeOK
<1> QED BY <1>1, <1>2

LEMMA RollbackIInv == ASSUME IInv, NEW s \in Sessions, Rollback(s) PROVE IInv'
<1>1. CASE txns[s].read_only
  BY <1>1, HandleIInv DEF Rollback
<1>2. CASE ~txns[s].read_only
  <2> DEFINE undone(k, v) == v = txns[s].version /\ <<v, k>> \in txnWrite
  <2>0. data' = [k \in Keys |-> [v \in Versions |-> IF undone(k, v) THEN Absent ELSE data[k][v]]]
    BY <1>2 DEF Rollback
  <2>2. \A k \in Keys, v \in Versions :
            /\ v # txns[s].version => data'[k][v] = data[k][v]
            /\ data'[k][v] # Absent => data[k][v] # Absent
    <3>1. \A k \in Keys, v \in Versions : undone(k, v) => v = txns[s].version
      OBVIOUS
    <3> HIDE DEF undone
    <3> QED BY <2>0, <3>1
  <2>1. data' \in [Keys -> [Versions -> Values \cup {Tombstone, Absent}]]
    <3> HIDE DEF undone
    <3>1. \A k \in Keys, v \in Versions : data[k][v] \in Values \cup {Tombstone, Absent}
      BY DEF IInv, TypeOK
    <3> QED BY <2>0, <3>1
  <2> QED BY <1>2, <2>1, <2>2, FinishIInv DEF Rollback
<1> QED BY <1>1, <1>2

LEMMA NextIInv == IInv /\ [Next]_vars => IInv'
<1>1. ASSUME IInv, UNCHANGED vars PROVE IInv'
  BY <1>1 DEF vars, IInv, TypeOK, HandlesOK, ReadersSeeFinished, SnapshotsOK, StoredHasBegun,
              TxnWriteIsUncommitted, NoConcurrentWriters, InTxn, Stored
<1> QED BY <1>1, BeginIInv, BeginReadOnlyIInv, BeginAsOfIInv, WriteIInv, CommitIInv,
           RollbackIInv, DropIInv DEF Next

(* IInv holds in every reachable state of the engine.                      *)
THEOREM Invariance == Spec => []IInv
BY InitIInv, NextIInv, PTL DEF Spec

(* The keys of the engine and the handles of its sessions stay well formed *)
(* for any number of sessions, keys and versions.                          *)
THEOREM TypeCorrect == Spec => []TypeOK
<1>1. IInv => TypeOK
  BY DEF IInv
<1> QED BY <1>1, Invariance, PTL

(* No two concurrent transactions ever both store a version of a key.      *)
THEOREM WritersNeverOverlap == Spec => []NoConcurrentWriters
<1>1. IInv => NoConcurrentWriters
  BY DEF IInv
<1> QED BY <1>1, Invariance, PTL

(* rollback() always finds every version it has to undo.                   *)
THEOREM RollbackFindsWrites == Spec => []TxnWriteIsUncommitted
<1>1. IInv => TxnWriteIsUncommitted
  BY DEF IInv
<1> QED BY <1>1, Invariance, PTL

(* Checking the newest version of a key is enough for write_version to     *)
(* find every conflict.                                                    *)
THEOREM ConflictCheckComplete == Spec => []LatestKeySuffices
<1>1. IInv => LatestKeySuffices
  <2> SUFFICES ASSUME IInv, NEW s \in Sessions, NEW k \in Keys, InTxn(s), ~txns[s].read_only
               PROVE  WriteConflict(txns[s], k)
                        <=> \E v \in Stored(k) : ~IsVisible(txns[s], v)
    BY DEF LatestKeySuffices
  <2>1. WriteConflict(txns[s], k) => \E v \in Stored(k) : ~IsVisible(txns[s], v)
    BY DEF WriteConflict, ConflictRange
  <2>2. (\E v \in Stored(k) : ~IsVisible(txns[s], v)) => WriteConflict(txns[s], k)
    BY ConflictCheck
  <2> QED BY <2>1, <2>2
<1> QED BY <1>1, Invariance, PTL
(* A step only touches stored versions of transactions that are active.    *)
LEMMA OnlyActiveVersionsChange ==
    ASSUME IInv, [Next]_vars, NEW k \in Keys, NEW v \in Versions, data'[k][v] # data[k][v]
    PROVE  v \in txnActive
<1>1. ASSUME NEW s \in Sessions, NEW k2 \in Keys, NEW value \in Values \cup {Tombstone},
             WriteVersion(s, k2, value)
      PROVE  v \in txnActive
  <2>1. txns[s].version \in Versions /\ txns[s].version \in txnActive
    BY <1>1, WriterFacts DEF WriteVersion
  <2>2. data' = [data EXCEPT ![k2][txns[s].version] = value]
    BY <1>1 DEF WriteVersion
  <2>3. v = txns[s].version
    BY <2>1, <2>2 DEF IInv, TypeOK
  <2> QED BY <2>1, <2>3
<1>2. ASSUME NEW s \in Sessions, Rollback(s) PROVE v \in txnActive
  <2>1. ~txns[s].read_only /\ InTxn(s)
    BY <1>2 DEF Rollback
  <2>2. txns[s].version \in txnActive
    BY <2>1, WriterFacts
  <2> DEFINE undone(k2, w) == w = txns[s].version /\ <<w, k2>> \in txnWrite
  <2>3. data' = [k2 \in Keys |-> [w \in Versions |->
                    IF undone(k2, w) THEN Absent ELSE data[k2][w]]]
    BY <1>2, <2>1 DEF Rollback
  <2>4. undone(k, v)
    <3> HIDE DEF undone
    <3> QED BY <2>3
  <2> QED BY <2>2, <2>4
<1>3. (\E s \in Sessions : Rollback(s) \/ \E k2 \in Keys, value \in Values \cup {Tombstone} :
                                             WriteVersion(s, k2, value))
  BY DEF Next, vars, Begin, BeginReadOnly, BeginAsOf, Commit, Drop
<1> QED BY <1>1, <1>2, <1>3

(* get() depends only on the visible versions at or below the version of   *)
(* the transaction.                                                        *)
LEMMA GetDependsOnVisible ==
    ASSUME NEW t, NEW k \in Keys,
           \A v \in Versions :
               v <= t.version /\ IsVisible(t, v) => data'[k][v] = data[k][v]
    PROVE  Get(t, k)' = Get(t, k)
<1> DEFINE seen == {v \in Stored(k) : v <= t.version /\ IsVisible(t, v)}
           last == CHOOSE v \in seen : IsLatest(v, seen)
<1>1. seen' = seen
  BY DEF Stored, IsVisible
<1>2. CASE seen = {}
  BY <1>1, <1>2 DEF Get
<1>3. CASE seen # {}
  <2>1. seen \in SUBSET (1..MaxVersion)
    BY DEF Stored, Versions
  <2>2. last \in seen
    <3> HIDE DEF seen
    <3> QED BY <2>1, <1>3, LatestExists
  <2>3. data'[k][last] = data[k][last]
    BY <2>2 DEF Stored
  <2>4. Get(t, k) = data[k][last]
    BY <1>3 DEF Get
  <2>5. Get(t, k)' = data'[k][last]
    BY <1>1, <1>3 DEF Get, Stored, IsVisible, IsLatest
  <2> QED BY <2>3, <2>4, <2>5
<1> QED BY <1>2, <1>3
(* A transaction's reads only change when it writes itself.                *)
THEOREM SnapshotsNeverMove == Spec => SnapshotStable
<1>1. IInv /\ [Next]_vars => SnapshotStep
  <2> SUFFICES ASSUME IInv, [Next]_vars, NEW s \in Sessions, NEW k \in Keys, InTxn(s),
                      txns'[s] = txns[s],
                      ~(/\ ~txns[s].read_only
                        /\ data'[k][txns[s].version] # data[k][txns[s].version])
               PROVE  Get(txns[s], k)' = Get(txns[s], k)
    BY DEF SnapshotStep
  <2> DEFINE t == txns[s]
  <2>1. t \in TransactionState
    BY DEF InTxn, IInv, TypeOK
  <2>2. ASSUME NEW v \in Versions, v <= t.version, IsVisible(t, v)
        PROVE  data'[k][v] = data[k][v]
    <3>1. CASE t.read_only
      <4>1. v \notin txnActive
        BY <2>2, <3>1 DEF IInv, ReadersSeeFinished, IsVisible
      <4> QED BY <4>1, OnlyActiveVersionsChange
    <3>2. CASE ~t.read_only /\ v = t.version
      BY <3>2
    <3>3. CASE ~t.read_only /\ v # t.version
      <4>1. t.version \in Versions /\ t.version < nextVersion /\ t.active = activeSnapshot[t.version]
        BY <3>3, WriterFacts
      <4>2. v < t.version /\ v \notin activeSnapshot[t.version]
        BY <4>1, <2>2, <3>3 DEF IsVisible, Versions
      <4>3. v \notin txnActive
        BY <4>1, <4>2 DEF IInv, SnapshotsOK
      <4> QED BY <4>3, OnlyActiveVersionsChange
    <3> QED BY <3>1, <3>2, <3>3
  <2>3. \A x : x = t => Get(x, k)' = Get(x, k)
    BY <2>2, GetDependsOnVisible
  <2>4. PICK x : x = t
    OBVIOUS
  <2>5. Get(txns[s], k)' = Get(x, k)'
    BY <2>4 DEF Get, Stored, IsVisible
  <2> QED BY <2>3, <2>4, <2>5
<1> QED BY <1>1, Invariance, PTL DEF Spec, SnapshotStable

(* A read as of a past version returns the same value for ever.            *)
THEOREM TimeTravelNeverMoves == Spec => TimeTravelStable
<1>1. IInv /\ [Next]_vars => TimeTravelStep
  <2> SUFFICES ASSUME IInv, [Next]_vars, NEW v \in 0..MaxVersion, NEW k \in Keys,
                      v < nextVersion
               PROVE  Get(AsOfState(v), k)' = Get(AsOfState(v), k)
    BY DEF TimeTravelStep
  <2>1. AsOfState(v)' = AsOfState(v)
    <3>1. v \in Versions => activeSnapshot'[v] = activeSnapshot[v]
      BY DEF Next, vars, Begin, BeginReadOnly, BeginAsOf, WriteVersion, Commit, Rollback, Drop,
             IInv, TypeOK, Versions
    <3> QED BY <3>1 DEF AsOfState
  <2>2. ASSUME NEW u \in Versions, IsVisible(AsOfState(v), u)
        PROVE  data'[k][u] = data[k][u]
    <3>1. u < v /\ v \in Versions /\ u \notin activeSnapshot[v]
      BY <2>2 DEF IsVisible, AsOfState, Versions
    <3>2. u \notin txnActive
      BY <3>1 DEF IInv, SnapshotsOK
    <3> QED BY <3>2, OnlyActiveVersionsChange
  <2>3. \A x : x = AsOfState(v) => Get(x, k)' = Get(x, k)
    BY <2>2, GetDependsOnVisible
  <2>4. PICK x : x = AsOfState(v)
    OBVIOUS
  <2>5. Get(AsOfState(v), k)' = Get(x, k)'
    BY <2>1, <2>4 DEF Get, Stored, IsVisible
  <2> QED BY <2>3, <2>4, <2>5
<1> QED BY <1>1, Invariance, PTL DEF Spec, TimeTravelStable
=============================================================================
