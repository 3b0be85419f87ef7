-------------------------- MODULE MCClientSession ---------------------------
(* The closures that the client runs: with a transaction, and without one. *)
EXTENDS ClientSession
Both == {<<"BEGIN", "WRITE", "COMMIT">>, <<"WRITE">>}
=============================================================================
