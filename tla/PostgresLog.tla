------------------------------ MODULE PostgresLog ------------------------------
(***************************************************************************)
(* The event log of the PostgreSQL adapter.  A commit is two round trips:  *)
(* a probe of the stream's head, and one statement that takes an advisory  *)
(* lock, draws its ids from a sequence and inserts.  truncate takes the    *)
(* same lock, restore locks the table.  What a transaction writes appears  *)
(* to others when it commits, and readers take positions in the meantime.  *)
(*                                                                         *)
(* One action per statement; the statement that inserts is two, its work   *)
(* under the lock and the commit that ends it.                             *)
(***************************************************************************)
EXTENDS Integers, FiniteSets, Sequences

CONSTANTS Streams, Batches, MaxId,   \* as in StreamLog
          MaxVersion,   \* bound on versions, which outlive a renumbering
          Clients,      \* calls in flight, of any number of processes
          Readers,      \* whoever keeps a position in the log
          Kept,         \* readers whose position survives a restore
          Straddling,   \* a deletion may appear between a commit's probe and insert
          Nobody        \* holder of a free lock, stream of an idle call

ASSUME PostgresLogAssumption ==
    /\ MaxId \in Nat
    /\ Batches \subseteq Seq({"event", "snapshot", "tombstone"}) \ {<<>>}
    /\ Kept \subseteq Readers
    /\ Straddling \in BOOLEAN
    /\ Nobody \notin Clients \cup Streams

VARIABLES
    log,     \* visible rows of the events table
    serial,  \* next value of the id sequence
    lock,    \* holder of the advisory lock, or of the table lock of restore
    call,    \* [Clients -> local state of the call]
    at       \* [Readers -> position]

vars == <<log, serial, lock, call, at>>

Store == INSTANCE StreamLog

Version == Nat \cup {-1}
Unchecked == -2          \* a commit without expectedVersion

Call == [phase : {"idle", "insert", "end"},
         kind : {"commit", "truncate", "prune", "restore"},
         stream : Streams \cup {Nobody},
         batch : Batches \cup {<<>>},
         expected : Version \cup {Unchecked},
         base : Version,                        \* the probed head
         del : SUBSET Store!Event,              \* to be deleted at the end
         ins : SUBSET Store!Event]              \* to be inserted at the end

Committing(phase, s, batch, expected, base, ins) ==
    [phase |-> phase, kind |-> "commit", stream |-> s, batch |-> batch,
     expected |-> expected, base |-> base, del |-> {}, ins |-> ins]

Idle == Committing("idle", Nobody, <<>>, Unchecked, -1, {})

Init ==
    /\ Store!Init
    /\ serial = 1
    /\ lock = Nobody
    /\ call = [c \in Clients |-> Idle]
    /\ at = [r \in Readers |-> 0]

-----------------------------------------------------------------------------

In(c, phase) == call[c].phase = phase
Return(c) == call' = [call EXCEPT ![c] = Idle]

\* restore's TRUNCATE keeps every other statement off the table.
TableLocked == lock # Nobody /\ call[lock].kind = "restore"

\* Mutant of Free: nobody waits for the advisory lock.
NoLock == ~TableLocked
Free == lock = Nobody

\* Mutant of Passes: the caller's version is not looked at.
AnyPasses(expected, head) == TRUE
Passes(expected, head) == expected \in {Unchecked, head}

\* The head is probed, without a lock.
Probe(c, s, batch, expected) ==
    /\ In(c, "idle") /\ ~TableLocked
    /\ \E head \in {-1} \cup {e.version : e \in log} :
          /\ Store!IsHead(s, head)
          /\ Passes(expected, head)
          /\ call' = [call EXCEPT ![c] =
                           Committing("insert", s, batch, expected, head, {})]
    /\ UNCHANGED <<log, serial, lock, at>>

\* The statement numbers its rows from the head it was given.
Rows(c) == Store!Rows(call[c].stream, call[c].batch, call[c].base, serial)

\* Mutant of Conflict: there is no unique index.
NoConflict(c) == FALSE
\* The unique index on stream and version.
Conflict(c) ==
    \E e \in log, r \in Rows(c) : e.stream = r.stream /\ e.version = r.version

\* The statement has the lock and its ids.
Insert(c) ==
    /\ In(c, "insert") /\ Free
    /\ serial + Len(call[c].batch) - 1 <= MaxId
    /\ call[c].base + Len(call[c].batch) <= MaxVersion
    /\ ~Conflict(c)
    /\ lock' = c
    /\ serial' = serial + Len(call[c].batch)
    /\ call' = [call EXCEPT ![c] =
                 Committing("end", @.stream, @.batch, @.expected, @.base, Rows(c))]
    /\ UNCHANGED <<log, at>>

\* ConcurrencyError; the ids drawn are gone.
Conflicts(c) ==
    /\ In(c, "insert") /\ Free
    /\ Conflict(c)
    /\ \E n \in 1 .. Len(call[c].batch) : serial' = serial + n
    /\ serial' <= MaxId + 1
    /\ Return(c)
    /\ UNCHANGED <<log, lock, at>>

\* A transaction has its lock, its deletes and its inserts.
Begin(c, kind, s, del, ins) ==
    /\ In(c, "idle") /\ Free
    /\ lock' = c
    /\ call' = [call EXCEPT ![c] =
                     [phase |-> "end", kind |-> kind, stream |-> s, batch |-> <<>>,
                      expected |-> Unchecked, base |-> -1, del |-> del, ins |-> ins]]
    /\ UNCHANGED <<log, at>>

Truncate(c, s) ==
    /\ serial <= MaxId
    /\ \E name \in {"snapshot", "tombstone"} :
          Begin(c, "truncate", s, Store!Of(s),
                {[id |-> serial, stream |-> s, version |-> 0, name |-> name]})
    /\ serial' = serial + 1

Prune(c, s) ==
    /\ \E b \in Store!Of(s) :
          b.name = "snapshot" /\ Begin(c, "prune", s, Store!Below(s, b), {})
    /\ UNCHANGED serial

\* A backup of some of the rows.
Restore(c) ==
    /\ \E rows \in SUBSET log :
          Begin(c, "restore", Nobody, log, Store!Renumbered(rows))
    /\ UNCHANGED serial

-----------------------------------------------------------------------------

\* What a deletion takes away under the feet of a commit that has probed.
Overtakes(c) ==
    \E d \in Clients, e \in call[c].del : In(d, "insert") /\ call[d].stream = e.stream

\* RESTART IDENTITY, and one id for each row of the backup.
NextSerial(c) ==
    IF call[c].kind = "restore" THEN Cardinality(call[c].ins) + 1 ELSE serial

\* The transaction ends, and its rows appear.  A restore has also emptied the
\* subscriptions.
Commit(c) ==
    /\ In(c, "end")
    /\ Straddling \/ ~Overtakes(c)
    /\ log' = (log \ call[c].del) \cup call[c].ins
    /\ serial' = NextSerial(c)
    /\ lock' = IF lock = c THEN Nobody ELSE lock
    /\ Return(c)
    /\ at' = [r \in Readers |->
                  IF call[c].kind = "restore" /\ r \notin Kept THEN 0 ELSE at[r]]

\* The process dies or loses its connection: the transaction is rolled back.
Abort(c) ==
    /\ ~In(c, "idle")
    /\ lock' = IF lock = c THEN Nobody ELSE lock
    /\ Return(c)
    /\ UNCHANGED <<log, serial, at>>

\* A reader reads on from its position, up to the last row it gets.
Read(r, e) ==
    /\ ~TableLocked
    /\ e \in log /\ e.id > at[r]
    /\ at' = [at EXCEPT ![r] = e.id]
    /\ UNCHANGED <<log, serial, lock, call>>

Next ==
    \/ \E c \in Clients :
          \/ \E s \in Streams :
                \/ \E batch \in Batches, expected \in {Unchecked, -1} \cup {e.version : e \in log} :
                      Probe(c, s, batch, expected)
                \/ Truncate(c, s) \/ Prune(c, s)
          \/ Insert(c) \/ Conflicts(c) \/ Restore(c) \/ Commit(c) \/ Abort(c)
    \/ \E r \in Readers, e \in log : Read(r, e)

Spec == Init /\ [][Next]_vars

-----------------------------------------------------------------------------
(* Properties.                                                             *)

\* The type invariant, with the primary key and the unique index of the table.
TypeOK ==
    /\ log \subseteq Store!Event
    /\ \A e, f \in log :
          e.id = f.id \/ (e.stream = f.stream /\ e.version = f.version) => e = f
    /\ serial \in 1 .. MaxId + 1
    /\ lock \in Clients \cup {Nobody}
    /\ call \in [Clients -> Call]
    /\ at \in [Readers -> 0 .. MaxId]

\* The order of ids is the order in which rows appear: no row appears at or
\* below a position that a reader has already taken, so nobody reads past an
\* event (the gap problem the advisory lock is there for).  The rows a restore
\* brings back are not new; those committed after it are.
NoGap ==
    [][\A e \in log' \ log, r \in Readers : at'[r] < e.id \/ TableLocked]_vars

\* A commit with an expected version appears right behind that version,
\* whatever was committed, truncated or restored since its probe.
CheckedOnHead ==
    [][\A c \in Clients :
          In(c, "end") /\ call[c].kind = "commit" /\ call[c].expected # Unchecked
              /\ call[c].ins \subseteq log' /\ ~(call[c].ins \subseteq log)
          => Store!IsHead(call[c].stream, call[c].expected)]_vars

\* Every call has the effect of one step of the store, whole or not at all.
ImplementsStore == Store!Spec
=============================================================================
