------------------------------ MODULE KeyValue ------------------------------
(***************************************************************************)
(* What a durable storage engine promises (src/storage/engine.rs): a map   *)
(* from keys to values in which a write takes effect at once, and is       *)
(* durable after the next flush.  A crash of the host goes back to the     *)
(* state after some prefix of the writes made since the last flush.        *)
(***************************************************************************)
CONSTANTS Keys, Values

VARIABLES
    data,         \* the map: a function from a subset of Keys to Values
    recoverable   \* the maps that a crash may leave

Without(key) == [k \in DOMAIN data \ {key} |-> data[k]]
With(key, value) ==
    [k \in DOMAIN data \cup {key} |-> IF k = key THEN value ELSE data[k]]

Init == data = <<>> /\ recoverable = {data}

Write(map) == data' = map /\ recoverable' = recoverable \cup {map}
Set(key, value) == Write(With(key, value))
Delete(key) == Write(Without(key))
Flush == recoverable' = {data} /\ UNCHANGED data
Crash == data' \in recoverable /\ recoverable' = {data'}

Next ==
    \/ \E key \in Keys : Delete(key) \/ \E value \in Values : Set(key, value)
    \/ Flush
    \/ Crash

Spec == Init /\ [][Next]_<<data, recoverable>>
=============================================================================
