------------------------------ MODULE MVCCScan ------------------------------
(***************************************************************************)
(* Scans over the MVCC engine (ScanIterator of src/storage/mvcc.rs).  A    *)
(* scan reads a batch of keys under the engine lock and releases the lock  *)
(* before the next one, while all transactions, its own included, go on.   *)
(*                                                                         *)
(* The scans here are over all keys, one at a time, and end with their     *)
(* transaction.  What the reader has taken out of the buffer and what is   *)
(* still in it is not told apart.                                          *)
(***************************************************************************)
EXTENDS MVCC, SequencesExt

CONSTANT BufferSize   \* ScanIterator::BUFFER_SIZE

ASSUME BufferSizeAssumption == BufferSize \in Nat \ {0}

VARIABLE
    scan   \* the running ScanIterator: its session, the keys in the order of their
           \* encodings, the remainder (<<>> if none), what its batches returned, and
           \* history: the keys that its own transaction has written since

svars == <<vars, scan>>

NoScan == [session |-> NoTxn, order |-> <<>>, remainder |-> <<>>, out |-> <<>>, touched |-> {}]
Orders == {o \in [1 .. Cardinality(Keys) -> Keys] : \A k \in Keys : \E i \in DOMAIN o : o[i] = k}

(* VersionIterator: the visible versions in the remainder of scan c, each  *)
(* as the position of its key and the version, and which one comes first.  *)
VisibleIn(c) ==
    {p \in (DOMAIN c.order) \X Versions :
        /\ p[1] > c.remainder[1] \/ (p[1] = c.remainder[1] /\ p[2] >= c.remainder[2])
        /\ p[2] \in Stored(c.order[p[1]]) /\ IsVisible(txns[c.session], p[2])}
Before(p, q) == p[1] < q[1] \/ (p[1] = q[1] /\ p[2] < q[2])

\* Mutant of Remainder: the scan resumes after the key that it peeked at.
RemainderPeeked(seen, batch) ==
    LET rest == {p \in seen : \A i \in batch : p[1] > i}
        next == {p \in rest : \A q \in rest : p = q \/ Before(p, q)}
    IN IF Cardinality(batch) < BufferSize \/ rest = {} THEN <<>>
       ELSE CHOOSE p \in {<<q[1] + 1, 1>> : q \in next} : TRUE

(* A full buffer leaves a range that starts at the next visible version.   *)
Remainder(seen, batch) ==
    LET rest == {p \in seen : \A i \in batch : p[1] > i}
    IN IF Cardinality(batch) < BufferSize \/ rest = {} THEN <<>>
       ELSE CHOOSE p \in rest : \A q \in rest : p = q \/ Before(p, q)

(* ScanIterator::fill_buffer, when what it held has been read: of each    *)
(* key its latest version counts, unless it is a tombstone.                *)
FillBuffer(c) ==
    LET seen == VisibleIn(c)
        live == {p \in seen : /\ data[c.order[p[1]]][p[2]] # Tombstone
                              /\ \A q \in seen : q[1] = p[1] => q[2] <= p[2]}
        batch == {p \in live : Cardinality({q \in live : Before(q, p)}) < BufferSize}
        sorted == SetToSortSeq(batch, Before)
    IN [c EXCEPT
          !.remainder = Remainder(seen, {p[1] : p \in batch}),
          !.out = @ \o [n \in DOMAIN sorted |->
                          LET k == c.order[sorted[n][1]] IN <<k, data[k][sorted[n][2]]>>]]

SInit == Init /\ scan = NoScan

(* Transaction::scan and its first batch: nothing is read before it.  Only *)
(* a scan looks at the order of the keys, which can be any.                *)
StartScan(s) ==
    /\ InTxn(s) /\ scan = NoScan
    /\ \E o \in Orders :
         scan' = FillBuffer([NoScan EXCEPT !.session = s, !.order = o, !.remainder = <<1, 0>>])
    /\ UNCHANGED vars

(* The next batch. *)
ContinueScan ==
    /\ scan.remainder # <<>>
    /\ scan' = FillBuffer(scan)
    /\ UNCHANGED vars

(* A scan that has returned everything is dropped. *)
Finished == scan # NoScan /\ scan.remainder = <<>>
EndScan == Finished /\ scan' = NoScan /\ UNCHANGED vars

(* An operation of a transaction.  A scan ends with its transaction.       *)
Operate ==
    /\ Next
    /\ LET s == scan.session
           own == IF txns[s].read_only THEN {}
                  ELSE {k \in Keys : data'[k][txns[s].version] # data[k][txns[s].version]}
       IN scan' = IF scan = NoScan \/ txns'[s] # txns[s] THEN NoScan
                  ELSE [scan EXCEPT !.touched = @ \cup own]

SNext == Operate \/ ContinueScan \/ EndScan \/ \E s \in Sessions : StartScan(s)

SSpec == SInit /\ [][SNext]_svars

(* A scan in batches is one read of the transaction's snapshot: whatever   *)
(* the other transactions write, commit and roll back between batches, the *)
(* keys that the scan has passed are returned in order, once each, and     *)
(* with the value that get returns, and none that get does not find.  Keys *)
(* that the transaction itself has written since the scan began are left   *)
(* out.                                                                    *)
ScanIsSnapshot ==
    scan # NoScan =>
        LET t == txns[scan.session]
            passed == IF scan.remainder = <<>> THEN scan.order
                      ELSE SubSeq(scan.order, 1, scan.remainder[1] - 1)
            due == SelectSeq(passed, LAMBDA k : k \notin scan.touched /\ Get(t, k) # Tombstone)
        IN SelectSeq(scan.out, LAMBDA pair : pair[1] \notin scan.touched)
              = [i \in 1 .. Len(due) |-> <<due[i], Get(t, due[i])>>]
=============================================================================
