----------------------------- MODULE MCPostgresLog -----------------------------
(* PostgresLog on small instances: two calls at a time, one reader.          *)
EXTENDS PostgresLog, TLC

MCBatches == {<<"event", "event">>, <<"snapshot">>}

Symmetry == Permutations(Clients) \cup Permutations(Streams)
=============================================================================
