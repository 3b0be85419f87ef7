----------------------------- MODULE MCSQLState -----------------------------
(* Instances of SQLState for TLC: an open transaction on a table with or   *)
(* without an index; one on a table that is not committed yet, after two   *)
(* changes of leader; and a new database.                                  *)
EXTENDS SQLState

First == [version |-> 1, active |-> {}]
Load(schema, ids) ==
    <<[kind |-> "Begin"], [kind |-> "CreateTable", txn |-> First, schema |-> schema],
      [kind |-> "Insert", txn |-> First, rows |-> [i \in DOMAIN ids |-> [id |-> ids[i], value |-> 1]]]>>
Committed == <<[kind |-> "Commit", txn |-> First], [kind |-> "Begin"]>>
Noops == <<[kind |-> "Noop"], [kind |-> "Noop"]>>

MCInitialLogs ==
    {Load("plain", <<2>>) \o Committed, Load("indexed", <<1>>) \o Committed,
     Noops \o Load("indexed", <<1>>)}
MCEmptyLog == {<<>>}
=============================================================================
