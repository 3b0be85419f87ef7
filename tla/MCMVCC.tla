------------------------------- MODULE MCMVCC -------------------------------
(* Instances of MVCC for TLC, each bounded in its own way: many versions   *)
(* of one key, and transactions that write two keys, with scans that stop  *)
(* after each key while no more than two transactions are open, and that   *)
(* are dropped when they have returned everything.                         *)
EXTENDS MVCCScan, TLC

VARIABLE instance   \* the bounds of this behaviour

Instances == {[versions |-> 3, sessions |-> 2, keys |-> 1, scanning |-> 0],
              [versions |-> 2, sessions |-> 3, keys |-> 2, scanning |-> 2]}

Open == Cardinality({s \in Sessions : InTxn(s)})
Within ==
    /\ nextVersion <= instance.versions + 1
    /\ Open <= IF scan = NoScan THEN instance.sessions ELSE instance.scanning
    /\ Cardinality({k \in Keys : Stored(k) # {}}) <= instance.keys

MCInit == SInit /\ instance \in Instances
MCNext ==
    /\ \/ ~Finished /\ Operate
       \/ ContinueScan
       \/ EndScan
       \/ Open <= instance.scanning /\ \E s \in Sessions : StartScan(s)
    /\ instance' = instance
    /\ Within'
MCSpec == MCInit /\ [][MCNext]_<<svars, instance>>

Symmetry == Permutations(Sessions) \cup Permutations(Keys) \cup Permutations(Values)
=============================================================================
