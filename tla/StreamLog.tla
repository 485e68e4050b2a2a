------------------------------- MODULE StreamLog -------------------------------
(***************************************************************************)
(* What a store promises of its event log: commits with consecutive        *)
(* versions per stream and increasing ids, truncation to a seed, pruning   *)
(* behind a snapshot, restoring a backup, each in one step.  This is the   *)
(* SQLite adapter, whose every call is one write transaction; PostgreSQL   *)
(* spreads a call over several statements (module PostgresLog).            *)
(***************************************************************************)
EXTENDS Integers, FiniteSets, Sequences

CONSTANTS Streams,
          Batches,   \* what a call commits: sequences of event names
          MaxId      \* bound on event ids

VARIABLE log         \* the rows of the events table

Ids == 1 .. MaxId
Event == [id : Ids, stream : Streams, version : Nat,
          name : {"event", "snapshot", "tombstone"}]

Init == log = {}

-----------------------------------------------------------------------------

Of(s) == {e \in log : e.stream = s}

\* v is the head version of s, -1 when s is empty.
IsHead(s, v) ==
    \/ Of(s) = {} /\ v = -1
    \/ \E e \in Of(s) : e.version = v /\ \A f \in Of(s) : f.version <= v

\* The rows of a batch of names behind version v of s, ids from first.
Rows(s, batch, v, first) ==
    {[id |-> first + k - 1, stream |-> s, version |-> v + k, name |-> batch[k]] :
        k \in DOMAIN batch}

\* Ids of new rows are past those of every row; a rolled back call of
\* PostgreSQL leaves a gap.
Fresh(rows) ==
    /\ \A r \in rows : r.id \in Ids
    /\ \A e \in log, r \in rows : e.id < r.id

\* Either all of a batch is committed, right behind the stream's head, or
\* nothing.
Commit(s, batch) ==
    \E v \in {-1} \cup {e.version : e \in log}, first \in Ids :
        /\ IsHead(s, v)
        /\ Fresh(Rows(s, batch, v, first))
        /\ log' = log \cup Rows(s, batch, v, first)

\* A full close: one seed at version 0 for all rows of the stream.
Truncate(s) ==
    \E id \in Ids, name \in {"snapshot", "tombstone"} :
        LET seed == {[id |-> id, stream |-> s, version |-> 0, name |-> name]}
        IN  Fresh(seed) /\ log' = (log \ Of(s)) \cup seed

\* A windowed close: the rows below a snapshot, the latest one that its cutoff
\* and its cap allow.
Below(s, b) == {e \in Of(s) : e.id < b.id}
Prune(s) == \E b \in Of(s) : b.name = "snapshot" /\ log' = log \ Below(s, b)

\* A backup, renumbered from 1 in its order.
Renumbered(rows) ==
    {[id |-> Cardinality({f \in rows : f.id <= e.id}),
      stream |-> e.stream, version |-> e.version, name |-> e.name] : e \in rows}

Restore == \E rows \in SUBSET log : log' = Renumbered(rows)

\* A call that changes no row is a stutter.
Next ==
    /\ log' # log
    /\ \/ \E s \in Streams :
             \/ \E batch \in Batches : Commit(s, batch)
             \/ Truncate(s) \/ Prune(s)
       \/ Restore

Spec == Init /\ [][Next]_log
=============================================================================
