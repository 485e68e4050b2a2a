--------------------------- MODULE PostgresLogProofs ---------------------------
(***************************************************************************)
(* The statements of the PostgreSQL adapter have the effect of the store's *)
(* calls, for any number of calls in flight and of readers.                *)
(***************************************************************************)
EXTENDS PostgresLog, FiniteSetTheorems, TLAPS

-----------------------------------------------------------------------------
(* Sets of rows.                                                           *)

\* Rows that the table can hold: its primary key and its unique index.
Keyed(rows) ==
    /\ rows \subseteq Store!Event
    /\ \A e, f \in rows :
          e.id = f.id \/ (e.stream = f.stream /\ e.version = f.version) => e = f

\* The rows of a batch.
LEMMA BatchRows ==
    ASSUME NEW s \in Streams, NEW batch \in Batches, NEW v \in Version,
           NEW first \in Nat \ {0}, first + Len(batch) - 1 <= MaxId
    PROVE  /\ Keyed(Store!Rows(s, batch, v, first))
           /\ \A r \in Store!Rows(s, batch, v, first) :
                 /\ r.id \in first .. (first + Len(batch) - 1)
                 /\ r.stream = s
                 /\ r.version > v
           /\ \E r \in Store!Rows(s, batch, v, first) : r.version = v + 1
           /\ Len(batch) \in Nat \ {0}
<1> DEFINE row(k) == [id |-> first + k - 1, stream |-> s, version |-> v + k,
                      name |-> batch[k]]
<1>1. /\ Len(batch) \in Nat \ {0}
      /\ DOMAIN batch = 1 .. Len(batch)
      /\ \A k \in DOMAIN batch : batch[k] \in {"event", "snapshot", "tombstone"}
  BY PostgresLogAssumption
<1>2. Store!Rows(s, batch, v, first) = {row(k) : k \in DOMAIN batch}
  BY DEF Store!Rows
<1>3. \A k \in DOMAIN batch :
         /\ row(k).id = first + k - 1 /\ row(k).id \in first .. (first + Len(batch) - 1)
         /\ row(k).id \in 1 .. MaxId
         /\ row(k).stream = s /\ row(k).version = v + k
         /\ row(k).version > v /\ row(k).version \in Nat
         /\ row(k).name \in {"event", "snapshot", "tombstone"}
  BY <1>1, PostgresLogAssumption DEF Version
<1>4. \A k \in DOMAIN batch : row(k) \in Store!Event
  BY <1>3 DEF Store!Event, Store!Ids
<1>5. \A j, k \in DOMAIN batch :
         row(j).id = row(k).id \/ row(j).version = row(k).version => j = k
  BY <1>1, <1>3 DEF Version
<1>6. row(1).version = v + 1 /\ 1 \in DOMAIN batch
  BY <1>1
<1> HIDE DEF row
<1>7. Keyed(Store!Rows(s, batch, v, first))
  BY <1>2, <1>4, <1>5 DEF Keyed
<1> QED
  BY <1>1, <1>2, <1>3, <1>6, <1>7

\* The first row is right behind the version it was numbered from.
LEMMA FirstRow ==
    ASSUME NEW s \in Streams, NEW batch \in Batches, NEW v \in Version, NEW first
    PROVE  \E r \in Store!Rows(s, batch, v, first) : r.stream = s /\ r.version = v + 1
<1> DEFINE row(k) == [id |-> first + k - 1, stream |-> s, version |-> v + k,
                      name |-> batch[k]]
<1>1. 1 \in DOMAIN batch
  BY PostgresLogAssumption
<1>2. row(1).stream = s /\ row(1).version = v + 1
  OBVIOUS
<1>3. Store!Rows(s, batch, v, first) = {row(k) : k \in DOMAIN batch}
  BY DEF Store!Rows
<1> HIDE DEF row
<1> QED
  BY <1>1, <1>2, <1>3

\* Rows under a primary key with bounded ids are finitely many.
LEMMA RowsFinite ==
    ASSUME NEW rows, Keyed(rows)
    PROVE  IsFiniteSet(rows) /\ Cardinality(rows) \in 0 .. MaxId
<1> DEFINE f == [e \in rows |-> e.id]
<1>1. f \in Injection(rows, 1 .. MaxId)
  BY DEF Injection, IsInjective, Keyed, Store!Event, Store!Ids
<1>2. IsFiniteSet(1 .. MaxId) /\ Cardinality(1 .. MaxId) = MaxId
  BY FS_Interval, PostgresLogAssumption
<1>3. IsFiniteSet(rows) /\ Cardinality(rows) <= Cardinality(1 .. MaxId)
  BY <1>1, <1>2, FS_Injection
<1> QED
  BY <1>2, <1>3, FS_CardinalityType, PostgresLogAssumption

\* A renumbered backup keeps the streams and versions of its rows and has the
\* ids from 1 to their number.
LEMMA RenumberedRows ==
    ASSUME NEW rows, Keyed(rows)
    PROVE  /\ Keyed(Store!Renumbered(rows))
           /\ \A r \in Store!Renumbered(rows) :
                 /\ r.id <= Cardinality(Store!Renumbered(rows))
                 /\ \E e \in rows : e.stream = r.stream
<1> DEFINE upto(e) == {g \in rows : g.id <= e.id}
           pos(e) == Cardinality(upto(e))
           row(e) == [id |-> pos(e), stream |-> e.stream, version |-> e.version,
                      name |-> e.name]
<1>1. IsFiniteSet(rows) /\ Cardinality(rows) \in 0 .. MaxId
  BY RowsFinite
<1>2. \A e \in rows : /\ e.id \in 1 .. MaxId /\ e.stream \in Streams
                      /\ e.version \in Nat
                      /\ e.name \in {"event", "snapshot", "tombstone"}
  BY DEF Keyed, Store!Event, Store!Ids
<1>3. \A e \in rows : IsFiniteSet(upto(e)) /\ pos(e) \in 1 .. Cardinality(rows)
  <2> SUFFICES ASSUME NEW e \in rows
               PROVE  IsFiniteSet(upto(e)) /\ pos(e) \in 1 .. Cardinality(rows)
    OBVIOUS
  <2>1. upto(e) \in SUBSET rows /\ e \in upto(e)
    BY <1>2
  <2>2. IsFiniteSet(upto(e)) /\ pos(e) <= Cardinality(rows)
    BY <1>1, <2>1, FS_Subset
  <2>3. pos(e) \in Nat /\ pos(e) # 0
    BY <2>1, <2>2, FS_CardinalityType, FS_EmptySet
  <2> QED
    BY <2>2, <2>3, <1>1
<1>4. \A d, e \in rows : d.id < e.id => pos(d) < pos(e)
  <2> SUFFICES ASSUME NEW d \in rows, NEW e \in rows, d.id < e.id
               PROVE  pos(d) < pos(e)
    OBVIOUS
  <2>1. upto(d) \in SUBSET upto(e) /\ e \in upto(e) /\ e \notin upto(d)
    BY <1>2
  <2>2. /\ Cardinality(upto(d)) <= Cardinality(upto(e))
        /\ Cardinality(upto(d)) = Cardinality(upto(e)) => upto(e) = upto(d)
    BY <1>3, <2>1, FS_Subset
  <2>3. pos(d) # pos(e) /\ pos(d) <= pos(e)
    BY <2>1, <2>2
  <2>4. pos(d) \in Int /\ pos(e) \in Int
    BY <1>3, <1>1
  <2> HIDE DEF pos
  <2> QED
    BY <2>3, <2>4
<1>5. \A S : Store!Cardinality(S) = Cardinality(S)
  BY DEF Store!Cardinality, Cardinality
<1>6. Store!Renumbered(rows) = {row(e) : e \in rows}
  BY <1>5 DEF Store!Renumbered
<1>7. \A e \in rows : /\ row(e).id = pos(e) /\ row(e).stream = e.stream
                      /\ row(e).version = e.version
  OBVIOUS
<1>8. \A e \in rows : row(e) \in Store!Event
  <2>1. \A e \in rows : pos(e) \in 1 .. MaxId
    <3> SUFFICES ASSUME NEW e \in rows PROVE pos(e) \in 1 .. MaxId
      OBVIOUS
    <3>1. pos(e) \in 1 .. Cardinality(rows)
      BY <1>3
    <3> HIDE DEF pos
    <3> QED
      BY <1>1, <3>1, PostgresLogAssumption
  <2> HIDE DEF pos
  <2> QED
    BY <1>2, <2>1 DEF Store!Event, Store!Ids
<1>9. \A d, e \in rows : pos(d) = pos(e) => d = e
  <2> SUFFICES ASSUME NEW d \in rows, NEW e \in rows, pos(d) = pos(e) PROVE d = e
    OBVIOUS
  <2>1. ~(d.id < e.id) /\ ~(e.id < d.id)
    <3>1. pos(d) \in Int
      BY <1>3, <1>1
    <3>2. /\ d.id < e.id => pos(d) < pos(e)
          /\ e.id < d.id => pos(e) < pos(d)
      BY <1>4
    <3> HIDE DEF pos
    <3> QED
      BY <3>1, <3>2
  <2>2. d.id = e.id
    BY <2>1, <1>2
  <2> QED
    BY <2>2 DEF Keyed
<1> HIDE DEF row, pos
<1>10. Keyed(Store!Renumbered(rows))
  BY <1>6, <1>7, <1>8, <1>9 DEF Keyed
<1>11. Cardinality(Store!Renumbered(rows)) = Cardinality(rows)
  <2> DEFINE g == [e \in rows |-> row(e)]
  <2>1. g \in Bijection(rows, Store!Renumbered(rows))
    <3>1. g \in [rows -> Store!Renumbered(rows)]
      BY <1>6
    <3>2. \A d, e \in rows : g[d] = g[e] => d = e
      BY <1>7, <1>9
    <3>3. \A r \in Store!Renumbered(rows) : \E e \in rows : g[e] = r
      BY <1>6
    <3> QED
      BY <3>1, <3>2, <3>3, Zenon DEF Bijection, Injection, IsInjective, Surjection
  <2>2. ExistsBijection(rows, Store!Renumbered(rows))
    BY <2>1 DEF ExistsBijection
  <2> QED
    BY <2>2, <1>1, FS_Bijection
<1>12. \A e \in rows : row(e).id <= Cardinality(Store!Renumbered(rows))
  <2>1. \A e \in rows : pos(e) <= Cardinality(rows)
    <3> SUFFICES ASSUME NEW e \in rows PROVE pos(e) <= Cardinality(rows)
      OBVIOUS
    <3>1. pos(e) \in 1 .. Cardinality(rows)
      BY <1>3 DEF pos
    <3> QED
      BY <3>1, <1>1
  <2> QED
    BY <2>1, <1>7, <1>11
<1> QED
  BY <1>6, <1>7, <1>10, <1>12

-----------------------------------------------------------------------------
(* The invariant.                                                          *)

\* A commit between its probe and its statement.
Probing(x) ==
    /\ x.kind = "commit" /\ x.stream \in Streams /\ x.batch \in Batches
    /\ x.del = {} /\ x.expected \in {Unchecked, x.base}

\* What transaction x does to the log L when it ends.
Effect(L, x) ==
    \/ /\ Probing(x)
       /\ \E first \in Store!Ids : x.ins = Store!Rows(x.stream, x.batch, x.base, first)
    \/ /\ x.kind = "truncate" /\ x.stream \in Streams
       /\ x.del = {e \in L : e.stream = x.stream}
       /\ \E id \in Store!Ids, name \in {"snapshot", "tombstone"} :
             x.ins = {[id |-> id, stream |-> x.stream, version |-> 0, name |-> name]}
    \/ /\ x.kind = "prune" /\ x.stream \in Streams /\ x.ins = {}
       /\ \E b \in L : /\ b.stream = x.stream /\ b.name = "snapshot"
                       /\ x.del = {e \in L : e.stream = x.stream /\ e.id < b.id}
    \/ /\ x.kind = "restore" /\ x.del = L
       /\ \E rows \in SUBSET L : x.ins = Store!Renumbered(rows)

\* Its rows fit the log, behind every visible row; or replace the log.
Pending(L, n, x) ==
    /\ Effect(L, x)
    /\ Keyed((L \ x.del) \cup x.ins)
    /\ x.kind # "restore" => \A i \in x.ins : i.id < n /\ \A e \in L : e.id < i.id
    /\ x.kind = "restore" => /\ Cardinality(x.ins) \in 0 .. MaxId
                             /\ \A i \in x.ins : i.id <= Cardinality(x.ins)

\* A transaction in progress has the lock, so the log stays as it found it.
LogInv ==
    /\ TypeOK
    /\ \A e \in log : e.id < serial
    /\ \A c \in Clients : In(c, "insert") => Probing(call[c])
    /\ \A c \in Clients : In(c, "end") => lock = c /\ Pending(log, serial, call[c])

LEMMA LogInit == Init => LogInv
<1> SUFFICES ASSUME Init PROVE LogInv
  OBVIOUS
<1>1. Idle \in Call /\ Idle.phase = "idle"
  BY DEF Idle, Committing, Call, Version, Unchecked
<1> QED
  BY <1>1, PostgresLogAssumption DEF Init, Store!Init, LogInv, TypeOK, In

\* Other calls do not notice that one changes its state, log and lock aside.
LEMMA CallStep ==
    ASSUME LogInv, NEW c \in Clients, NEW x \in Call, NEW n \in 1 .. MaxId + 1,
           call' = [call EXCEPT ![c] = x], log' = log, at' = at, serial' = n,
           x.phase = "insert" => Probing(x),
           \/ lock' = lock /\ n = serial /\ x.phase # "end"
           \/ Free /\ n >= serial /\ lock' \in {c, Nobody}
           \/ lock = c /\ n = serial /\ lock' = Nobody,
           x.phase = "end" => lock' = c /\ Pending(log, n, x)
    PROVE  LogInv'
<1> USE PostgresLogAssumption
<1>1. /\ call \in [Clients -> Call] /\ call'[c] = x
      /\ \A d \in Clients : d # c => call'[d] = call[d]
  BY DEF LogInv, TypeOK
<1>2. TypeOK'
  <2>1. lock' \in Clients \cup {Nobody}
    BY DEF LogInv, TypeOK
  <2>2. call' \in [Clients -> Call]
    BY <1>1
  <2> QED
    BY <2>1, <2>2 DEF LogInv, TypeOK, Keyed, Store!Event, Store!Ids
<1>3. \A e \in log' : e.id < serial'
  BY DEF LogInv, TypeOK, Store!Event, Store!Ids
<1>4. \A d \in Clients : In(d, "insert")' => Probing(call'[d])
  BY <1>1 DEF LogInv, In
<1>5. ASSUME NEW d \in Clients, In(d, "end")'
      PROVE  lock' = d /\ Pending(log', serial', call'[d])
  <2>1. CASE d = c
    BY <1>1, <1>5, <2>1 DEF In
  <2>2. CASE d # c
    <3>1. call'[d] = call[d] /\ In(d, "end")
      BY <1>1, <1>5, <2>2 DEF In
    <3>2. lock = d /\ Pending(log, serial, call[d])
      BY <3>1 DEF LogInv
    <3>3. lock' = lock /\ n = serial
      BY <3>2, <2>2 DEF Free
    <3> QED
      BY <3>1, <3>2, <3>3
  <2> QED
    BY <2>1, <2>2
<1> QED
  BY <1>2, <1>3, <1>4, <1>5 DEF LogInv

LEMMA ProbeStep ==
    ASSUME LogInv, NEW c \in Clients, NEW s \in Streams, NEW batch \in Batches,
           NEW expected, Probe(c, s, batch, expected)
    PROVE  LogInv'
<1>1. PICK head \in {-1} \cup {e.version : e \in log} :
         /\ Passes(expected, head)
         /\ call' = [call EXCEPT ![c] =
                          Committing("insert", s, batch, expected, head, {})]
  BY DEF Probe
<1>2. head \in Version /\ expected \in {Unchecked, head}
  BY <1>1 DEF LogInv, TypeOK, Store!Event, Version, Passes
<1> DEFINE x == Committing("insert", s, batch, expected, head, {})
<1>3. call' = [call EXCEPT ![c] = x]
  BY <1>1
<1>4. x \in Call /\ Probing(x) /\ x.phase = "insert"
  BY <1>2 DEF Call, Probing, Committing
<1>5. serial \in 1 .. MaxId + 1
  BY DEF LogInv, TypeOK
<1> HIDE DEF x
<1> QED
  BY <1>3, <1>4, <1>5, CallStep DEF Probe

LEMMA InsertStep ==
    ASSUME LogInv, NEW c \in Clients, Insert(c)
    PROVE  LogInv'
<1> DEFINE y == call[c]
           n == serial + Len(y.batch)
           x == Committing("end", y.stream, y.batch, y.expected, y.base, Rows(c))
<1>1. y \in Call /\ Probing(y) /\ serial \in 1 .. MaxId + 1
  BY DEF LogInv, TypeOK, Insert
<1>2. /\ y.stream \in Streams /\ y.batch \in Batches /\ y.base \in Version
      /\ y.del = {}
  BY <1>1 DEF Probing, Call
<1>3. call' = [call EXCEPT ![c] = x]
  BY DEF Insert
<1>4. Rows(c) = Store!Rows(y.stream, y.batch, y.base, serial)
  BY DEF Rows
<1>5. serial + Len(y.batch) - 1 <= MaxId /\ serial \in Nat \ {0}
  BY <1>1, PostgresLogAssumption DEF Insert
<1> HIDE DEF y
<1>6. /\ Keyed(Rows(c)) /\ Len(y.batch) \in Nat \ {0}
      /\ \A r \in Rows(c) : r.id \in serial .. (serial + Len(y.batch) - 1)
  <2>1. /\ Keyed(Store!Rows(y.stream, y.batch, y.base, serial))
        /\ \A r \in Store!Rows(y.stream, y.batch, y.base, serial) :
              r.id \in serial .. (serial + Len(y.batch) - 1)
        /\ Len(y.batch) \in Nat \ {0}
    BY <1>2, <1>5, BatchRows
  <2> QED
    BY <2>1, <1>4
<1>7. n \in 1 .. MaxId + 1 /\ serial \in Store!Ids /\ n >= serial
  BY <1>5, <1>6, PostgresLogAssumption DEF Store!Ids
<1>8. Keyed(log) /\ \A e \in log : e.id < serial /\ e.id \in Int
  BY DEF LogInv, TypeOK, Keyed, Store!Event, Store!Ids
<1>9. \A i \in Rows(c) : /\ i.id < n
                         /\ \A e \in log : e.id < i.id
  <2> SUFFICES ASSUME NEW i \in Rows(c)
               PROVE  i.id < n /\ \A e \in log : e.id < i.id
    OBVIOUS
  <2>1. i.id \in serial .. (serial + Len(y.batch) - 1)
    BY <1>6
  <2>2. i.id \in Int /\ serial <= i.id /\ i.id < n
    BY <2>1, <1>5, <1>6
  <2> QED
    BY <2>2, <1>8, <1>5
<1>10. \A i \in Rows(c), e \in log : ~(e.stream = i.stream /\ e.version = i.version)
  BY DEF Insert, Conflict
<1>11. Keyed(log \cup Rows(c))
  BY <1>6, <1>8, <1>9, <1>10 DEF Keyed, Store!Event, Store!Ids
<1>12. /\ x.del = {} /\ x.ins = Rows(c) /\ x.kind = "commit" /\ x.stream = y.stream
       /\ x.batch = y.batch /\ x.base = y.base /\ x.expected = y.expected
       /\ x.phase = "end"
  BY DEF Committing
<1>13. x \in Call
  BY <1>1, <1>6 DEF Call, Keyed, Committing, y
<1> HIDE DEF x
<1>14. Probing(x)
  BY <1>1, <1>12 DEF Probing
<1>15. Effect(log, x)
  BY <1>4, <1>7, <1>12, <1>14 DEF Effect
<1>16. (log \ x.del) \cup x.ins = log \cup Rows(c)
  BY <1>12
<1>17. Pending(log, n, x)
  BY <1>9, <1>11, <1>12, <1>15, <1>16 DEF Pending
<1> HIDE DEF n
<1>18. serial' = n /\ lock' = c /\ Free /\ log' = log /\ at' = at
  BY DEF Insert, n, y
<1> QED
  BY <1>3, <1>7, <1>12, <1>13, <1>17, <1>18, CallStep

\* A call that ends without effect, and its lock with it.
LEMMA ReturnStep ==
    ASSUME LogInv, NEW c \in Clients, Return(c), log' = log, at' = at,
           \/ lock' = (IF lock = c THEN Nobody ELSE lock) /\ serial' = serial
           \/ Free /\ lock' = lock /\ serial' \in serial .. MaxId + 1
    PROVE  LogInv'
<1>1. Idle \in Call /\ Idle.phase = "idle"
  BY DEF Idle, Committing, Call, Version, Unchecked
<1>2. serial \in 1 .. MaxId + 1 /\ call' = [call EXCEPT ![c] = Idle]
  BY DEF LogInv, TypeOK, Return
<1>3. CASE lock' = (IF lock = c THEN Nobody ELSE lock) /\ serial' = serial
  <2>1. CASE lock = c
    BY <1>1, <1>2, <1>3, <2>1, CallStep
  <2>2. CASE lock # c
    BY <1>1, <1>2, <1>3, <2>2, CallStep
  <2> QED
    BY <2>1, <2>2
<1>4. CASE Free /\ lock' = lock /\ serial' \in serial .. MaxId + 1
  <2>1. serial' \in 1 .. MaxId + 1 /\ serial' >= serial /\ lock' = Nobody
    BY <1>2, <1>4, PostgresLogAssumption DEF Free
  <2> QED
    BY <1>1, <1>2, <1>4, <2>1, CallStep
<1> QED
  BY <1>3, <1>4

\* A transaction other than a commit takes the lock and does its work.
LEMMA BeginStep ==
    ASSUME LogInv, NEW c \in Clients, NEW kind \in {"truncate", "prune", "restore"},
           NEW s \in Streams \cup {Nobody},
           NEW del \in SUBSET log, NEW ins \in SUBSET Store!Event,
           Begin(c, kind, s, del, ins), serial' \in serial .. MaxId + 1,
           Pending(log, serial',
                   [phase |-> "end", kind |-> kind, stream |-> s, batch |-> <<>>,
                    expected |-> Unchecked, base |-> -1, del |-> del, ins |-> ins])
    PROVE  LogInv'
<1> DEFINE x == [phase |-> "end", kind |-> kind, stream |-> s, batch |-> <<>>,
                 expected |-> Unchecked, base |-> -1, del |-> del, ins |-> ins]
<1>1. call' = [call EXCEPT ![c] = x]
  BY DEF Begin
<1>2. x \in Call /\ x.phase = "end"
  BY DEF Call, Version, Unchecked, LogInv, TypeOK
<1>3. serial' \in 1 .. MaxId + 1 /\ serial' >= serial
  BY PostgresLogAssumption DEF LogInv, TypeOK
<1>4. Pending(log, serial', x)
  OBVIOUS
<1> HIDE DEF x
<1> QED
  BY <1>1, <1>2, <1>3, <1>4, CallStep DEF Begin

LEMMA TruncateStep ==
    ASSUME LogInv, NEW c \in Clients, NEW s \in Streams, Truncate(c, s)
    PROVE  LogInv'
<1>1. serial \in Store!Ids /\ serial' = serial + 1 /\ Keyed(log)
  BY PostgresLogAssumption DEF Truncate, LogInv, TypeOK, Keyed, Store!Ids
<1>2. PICK name \in {"snapshot", "tombstone"} :
         Begin(c, "truncate", s, Store!Of(s),
               {[id |-> serial, stream |-> s, version |-> 0, name |-> name]})
  BY DEF Truncate
<1> DEFINE seed == [id |-> serial, stream |-> s, version |-> 0, name |-> name]
           x == [phase |-> "end", kind |-> "truncate", stream |-> s, batch |-> <<>>,
                 expected |-> Unchecked, base |-> -1, del |-> Store!Of(s),
                 ins |-> {seed}]
<1>3. seed \in Store!Event /\ seed.id = serial /\ seed.stream = s
  BY <1>1 DEF Store!Event
<1>4. x.ins = {seed} /\ x.del = {e \in log : e.stream = s} /\ x.kind = "truncate"
      /\ x.stream = s
  BY DEF Store!Of
<1>5. Effect(log, x)
  BY <1>1, <1>4 DEF Effect
<1>6. \A e \in log : e.id < seed.id /\ e.id # seed.id
  BY <1>1, <1>3 DEF LogInv, Keyed, Store!Event, Store!Ids
<1> HIDE DEF seed, x
<1>7. Keyed((log \ x.del) \cup x.ins)
  BY <1>1, <1>3, <1>4, <1>6 DEF Keyed
<1>8. serial < serial' /\ serial' \in serial .. MaxId + 1
  BY <1>1, PostgresLogAssumption DEF Store!Ids
<1>9. Pending(log, serial', x)
  BY <1>3, <1>4, <1>5, <1>6, <1>7, <1>8 DEF Pending
<1>10. /\ Store!Of(s) \in SUBSET log /\ {seed} \in SUBSET Store!Event
       /\ s \in Streams \cup {Nobody}
  BY <1>3 DEF Store!Of
<1>11. Begin(c, "truncate", s, Store!Of(s), {seed})
  BY <1>2 DEF seed
<1> QED
  BY <1>8, <1>9, <1>10, <1>11, BeginStep DEF x

LEMMA PruneStep ==
    ASSUME LogInv, NEW c \in Clients, NEW s \in Streams, Prune(c, s)
    PROVE  LogInv'
<1>1. PICK b \in Store!Of(s) :
         b.name = "snapshot" /\ Begin(c, "prune", s, Store!Below(s, b), {})
  BY DEF Prune
<1> DEFINE x == [phase |-> "end", kind |-> "prune", stream |-> s, batch |-> <<>>,
                 expected |-> Unchecked, base |-> -1, del |-> Store!Below(s, b),
                 ins |-> {}]
<1>2. x.ins = {} /\ x.kind = "prune" /\ x.stream = s
      /\ x.del = {e \in log : e.stream = s /\ e.id < b.id}
  BY DEF Store!Below, Store!Of
<1>3. Effect(log, x)
  BY <1>1, <1>2 DEF Effect, Store!Of
<1>4. Store!Below(s, b) \in SUBSET log /\ Keyed(log)
  BY DEF Store!Below, Store!Of, LogInv, TypeOK, Keyed
<1> HIDE DEF x
<1>5. Keyed((log \ x.del) \cup x.ins)
  BY <1>2, <1>4 DEF Keyed
<1>6. serial' = serial /\ serial' \in serial .. MaxId + 1
  BY PostgresLogAssumption DEF Prune, LogInv, TypeOK
<1>7. Pending(log, serial', x)
  BY <1>2, <1>3, <1>5 DEF Pending
<1>8. {} \in SUBSET Store!Event /\ s \in Streams \cup {Nobody}
  OBVIOUS
<1>9. Begin(c, "prune", s, Store!Below(s, b), {})
  BY <1>1
<1> QED
  BY <1>4, <1>6, <1>7, <1>8, <1>9, BeginStep DEF x

LEMMA RestoreStep ==
    ASSUME LogInv, NEW c \in Clients, Restore(c)
    PROVE  LogInv'
<1>1. PICK rows \in SUBSET log :
         Begin(c, "restore", Nobody, log, Store!Renumbered(rows))
  BY DEF Restore
<1> DEFINE x == [phase |-> "end", kind |-> "restore", stream |-> Nobody,
                 batch |-> <<>>, expected |-> Unchecked, base |-> -1, del |-> log,
                 ins |-> Store!Renumbered(rows)]
<1>2. x.ins = Store!Renumbered(rows) /\ x.kind = "restore" /\ x.del = log
  OBVIOUS
<1>3. Keyed(rows)
  BY DEF LogInv, TypeOK, Keyed
<1>4. /\ Keyed(Store!Renumbered(rows))
      /\ \A r \in Store!Renumbered(rows) : r.id <= Cardinality(Store!Renumbered(rows))
  BY <1>3, RenumberedRows
<1>5. Cardinality(Store!Renumbered(rows)) \in 0 .. MaxId
  BY <1>4, RowsFinite
<1>6. serial' = serial /\ serial' \in serial .. MaxId + 1
  BY PostgresLogAssumption DEF Restore, LogInv, TypeOK
<1> HIDE DEF x
<1>7. Effect(log, x)
  BY <1>2 DEF Effect
<1>8. (log \ x.del) \cup x.ins = Store!Renumbered(rows)
  BY <1>2
<1>9. Pending(log, serial', x)
  BY <1>2, <1>4, <1>5, <1>7, <1>8 DEF Pending
<1>10. Store!Renumbered(rows) \in SUBSET Store!Event
  BY <1>4 DEF Keyed
<1> QED
  BY <1>1, <1>6, <1>9, <1>10, BeginStep DEF x

\* What a transaction wrote appears: its keys fit, its ids are past the others.
LEMMA CommitStep ==
    ASSUME LogInv, NEW c \in Clients, Commit(c)
    PROVE  LogInv'
<1> DEFINE x == call[c]
<1>1. /\ Pending(log, serial, x) /\ lock = c
      /\ log' = (log \ x.del) \cup x.ins /\ lock' = Nobody
      /\ call' = [call EXCEPT ![c] = Idle]
  BY DEF LogInv, Commit, Return
<1>2. /\ call \in [Clients -> Call] /\ serial \in 1 .. MaxId + 1
      /\ at \in [Readers -> 0 .. MaxId]
  BY DEF LogInv, TypeOK
<1>3. Keyed(log')
  BY <1>1 DEF Pending
<1>4. serial' \in 1 .. MaxId + 1 /\ \A e \in log' : e.id < serial'
  <2>1. CASE x.kind = "restore"
    <3>1. serial' = Cardinality(x.ins) + 1 /\ Cardinality(x.ins) \in 0 .. MaxId
          /\ \A i \in x.ins : i.id <= Cardinality(x.ins)
      BY <1>1, <2>1 DEF Commit, NextSerial, Pending
    <3>2. log' = x.ins
      BY <1>1, <2>1 DEF Pending, Effect, Probing
    <3> HIDE DEF x
    <3>3. \A e \in log' : e.id \in Int
      BY <1>3 DEF Keyed, Store!Event, Store!Ids
    <3> QED
      BY <3>1, <3>2, <3>3, PostgresLogAssumption
  <2>2. CASE x.kind # "restore"
    <3>1. serial' = serial /\ \A i \in x.ins : i.id < serial
      BY <1>1, <2>2 DEF Commit, NextSerial, Pending
    <3> QED
      BY <1>1, <1>2, <3>1 DEF LogInv
  <2> QED
    BY <2>1, <2>2
<1>5. Idle \in Call /\ Idle.phase = "idle"
  BY DEF Idle, Committing, Call, Version, Unchecked
<1>6. /\ call' \in [Clients -> Call] /\ call'[c] = Idle
      /\ \A d \in Clients : d # c => call'[d] = call[d]
  BY <1>1, <1>2, <1>5
<1>7. at' \in [Readers -> 0 .. MaxId]
  BY <1>2, PostgresLogAssumption DEF Commit
<1>8. TypeOK'
  BY <1>1, <1>3, <1>4, <1>6, <1>7 DEF TypeOK, Keyed, Store!Event, Store!Ids
<1>9. \A d \in Clients : In(d, "insert")' => Probing(call'[d])
  BY <1>5, <1>6 DEF LogInv, In
<1>10. \A d \in Clients : ~In(d, "end")'
  BY <1>1, <1>5, <1>6 DEF LogInv, In
<1> QED
  BY <1>4, <1>8, <1>9, <1>10 DEF LogInv

LEMMA ReadStep ==
    ASSUME LogInv, NEW r \in Readers, NEW e \in log, Read(r, e)
    PROVE  LogInv'
<1>1. at' \in [Readers -> 0 .. MaxId]
  BY DEF Read, LogInv, TypeOK, Store!Event, Store!Ids
<1>2. TypeOK'
  BY <1>1 DEF Read, LogInv, TypeOK, Keyed, Store!Event, Store!Ids
<1> QED
  BY <1>2 DEF Read, LogInv, In

LEMMA LogStep == LogInv /\ [Next]_vars => LogInv'
<1> SUFFICES ASSUME LogInv, [Next]_vars PROVE LogInv'
  OBVIOUS
<1>1. ASSUME NEW c \in Clients, NEW s \in Streams, NEW batch \in Batches,
             NEW expected \in {Unchecked, -1} \cup {e.version : e \in log},
             Probe(c, s, batch, expected)
      PROVE  LogInv'
  BY <1>1, ProbeStep
<1>2. ASSUME NEW c \in Clients, NEW s \in Streams, Truncate(c, s) PROVE LogInv'
  BY <1>2, TruncateStep
<1>3. ASSUME NEW c \in Clients, NEW s \in Streams, Prune(c, s) PROVE LogInv'
  BY <1>3, PruneStep
<1>4. ASSUME NEW c \in Clients, Insert(c) PROVE LogInv'
  BY <1>4, InsertStep
<1>5. ASSUME NEW c \in Clients, Conflicts(c) PROVE LogInv'
  <2>1. call[c] \in Call /\ Probing(call[c]) /\ serial \in 1 .. MaxId + 1
    BY <1>5 DEF LogInv, TypeOK, Conflicts
  <2>2. Len(call[c].batch) \in Nat
    BY <2>1, PostgresLogAssumption DEF Probing
  <2>3. serial' \in serial .. MaxId + 1
    BY <1>5, <2>1, <2>2, PostgresLogAssumption DEF Conflicts
  <2> QED
    BY <1>5, <2>3, ReturnStep DEF Conflicts
<1>6. ASSUME NEW c \in Clients, Restore(c) PROVE LogInv'
  BY <1>6, RestoreStep
<1>7. ASSUME NEW c \in Clients, Commit(c) PROVE LogInv'
  BY <1>7, CommitStep
<1>8. ASSUME NEW c \in Clients, Abort(c) PROVE LogInv'
  BY <1>8, ReturnStep DEF Abort
<1>9. ASSUME NEW r \in Readers, NEW e \in log, Read(r, e) PROVE LogInv'
  BY <1>9, ReadStep
<1>10. CASE UNCHANGED vars
  <2>1. UNCHANGED <<log, serial, lock, call, at>>
    BY <1>10 DEF vars
  <2> QED
    BY <2>1 DEF LogInv, TypeOK, Keyed, Store!Event, Store!Ids, In
<1> QED
  BY <1>1, <1>2, <1>3, <1>4, <1>5, <1>6, <1>7, <1>8, <1>9, <1>10 DEF Next

\* The events table keeps its keys, and its ids stay below the sequence,
\* whatever is committed, truncated, pruned, restored or rolled back.
THEOREM TypeCorrect == Spec => []TypeOK
<1>1. LogInv => TypeOK
  BY DEF LogInv
<1> QED
  BY <1>1, LogInit, LogStep, PTL DEF Spec

\* Every commit, truncation and restore leaves the sequence of ids ahead of
\* the rows (postgres-store.ts, commit, truncate, restore).
THEOREM LogInvariant == Spec => []LogInv
  BY LogInit, LogStep, PTL DEF Spec

-----------------------------------------------------------------------------
(* Positions of readers.                                                   *)

\* Positions are behind the sequence, and behind what is about to appear.
Behind ==
    \A r \in Readers :
        /\ at[r] < serial
        /\ \A c \in Clients :
              In(c, "end") /\ call[c].kind # "restore"
                  => \A i \in call[c].ins : at[r] < i.id

\* A call draws its ids past every position.
LEMMA BehindCall ==
    ASSUME LogInv, Behind, NEW c \in Clients, NEW x,
           call' = [call EXCEPT ![c] = x], at' = at, serial' \in serial .. MaxId + 1,
           x.phase = "end" /\ x.kind # "restore"
               => \A i \in x.ins : i.id \in serial .. MaxId
    PROVE  Behind'
<1>1. /\ call \in [Clients -> Call] /\ serial \in 1 .. MaxId + 1
      /\ at \in [Readers -> 0 .. MaxId]
  BY DEF LogInv, TypeOK
<1>2. call'[c] = x /\ \A d \in Clients : d # c => call'[d] = call[d]
  BY <1>1
<1> SUFFICES ASSUME NEW r \in Readers
             PROVE  /\ at'[r] < serial'
                    /\ \A d \in Clients :
                          In(d, "end")' /\ call'[d].kind # "restore"
                              => \A i \in call'[d].ins : at'[r] < i.id
  BY DEF Behind
<1>3. at'[r] = at[r] /\ at[r] \in Nat /\ at[r] < serial
  BY <1>1 DEF Behind
<1>4. at'[r] < serial'
  BY <1>1, <1>3, PostgresLogAssumption
<1>5. ASSUME NEW d \in Clients, In(d, "end")', call'[d].kind # "restore",
             NEW i \in call'[d].ins
      PROVE  at'[r] < i.id
  <2>1. CASE d = c
    <3>1. i.id \in serial .. MaxId
      BY <1>2, <1>5, <2>1 DEF In
    <3> QED
      BY <3>1, <1>1, <1>3, PostgresLogAssumption
  <2>2. CASE d # c
    BY <1>2, <1>3, <1>5, <2>2 DEF In, Behind
  <2> QED
    BY <2>1, <2>2
<1> QED
  BY <1>4, <1>5

LEMMA BehindStep ==
    ASSUME LogInv, LogInv', Behind, [Next]_vars, Kept = {}
    PROVE  /\ Behind'
           /\ \A e \in log' \ log, r \in Readers : at'[r] < e.id \/ TableLocked
<1>1. /\ serial \in 1 .. MaxId + 1 /\ at \in [Readers -> 0 .. MaxId]
      /\ serial' \in 1 .. MaxId + 1 /\ serial \in serial .. MaxId + 1
      /\ call \in [Clients -> Call]
  BY PostgresLogAssumption DEF LogInv, TypeOK
<1>2. \A e \in log : e.id \in 1 .. MaxId /\ e.id < serial
  BY DEF LogInv, TypeOK, Store!Event, Store!Ids
<1>3. ASSUME NEW c \in Clients, Return(c), at' = at, serial' \in serial .. MaxId + 1
      PROVE  Behind'
  <2>1. Idle.phase = "idle" /\ call' = [call EXCEPT ![c] = Idle]
    BY <1>3 DEF Idle, Committing, Return
  <2> QED
    BY <1>3, <2>1, BehindCall
<1>4. ASSUME NEW c \in Clients, NEW s \in Streams, NEW batch, NEW expected,
             Probe(c, s, batch, expected)
      PROVE  Behind' /\ log' = log
  <2>1. PICK head : call' = [call EXCEPT ![c] =
                                 Committing("insert", s, batch, expected, head, {})]
    BY <1>4 DEF Probe
  <2>2. Committing("insert", s, batch, expected, head, {}).phase = "insert"
    BY DEF Committing
  <2> QED
    BY <1>1, <1>4, <2>1, <2>2, BehindCall DEF Probe
<1>5. ASSUME NEW c \in Clients, Insert(c) PROVE Behind' /\ log' = log
  <2> DEFINE x == Committing("end", call[c].stream, call[c].batch, call[c].expected,
                             call[c].base, Rows(c))
  <2>1. call' = [call EXCEPT ![c] = x] /\ x.ins = Rows(c)
    BY <1>5 DEF Insert, Committing
  <2>2. /\ call[c].stream \in Streams /\ call[c].batch \in Batches
        /\ call[c].base \in Version
    BY <1>5 DEF LogInv, TypeOK, Insert, Probing, Call
  <2>3. serial \in Nat \ {0} /\ serial + Len(call[c].batch) - 1 <= MaxId
    BY <1>1, <1>5, PostgresLogAssumption DEF Insert
  <2>4. /\ \A i \in Rows(c) : i.id \in serial .. (serial + Len(call[c].batch) - 1)
        /\ Len(call[c].batch) \in Nat
    BY <2>2, <2>3, BatchRows DEF Rows
  <2>5. \A i \in Rows(c) : i.id \in serial .. MaxId
    BY <2>3, <2>4, PostgresLogAssumption
  <2>6. serial' \in serial .. MaxId + 1
    BY <1>5, <2>3, <2>4, PostgresLogAssumption DEF Insert
  <2> HIDE DEF x
  <2> QED
    BY <1>5, <2>1, <2>5, <2>6, BehindCall DEF Insert
<1>6. ASSUME NEW c \in Clients, Conflicts(c) PROVE Behind' /\ log' = log
  <2>1. Len(call[c].batch) \in Nat
    BY <1>6, PostgresLogAssumption DEF LogInv, Conflicts, Probing
  <2>2. serial' \in serial .. MaxId + 1
    BY <1>1, <1>6, <2>1, PostgresLogAssumption DEF Conflicts
  <2> QED
    BY <1>3, <1>6, <2>2 DEF Conflicts
<1>7. ASSUME NEW c \in Clients, NEW kind, NEW s, NEW del, NEW ins,
             Begin(c, kind, s, del, ins), serial' \in serial .. MaxId + 1,
             kind # "restore" => \A i \in ins : i.id \in serial .. MaxId
      PROVE  Behind' /\ log' = log
  <2> DEFINE x == [phase |-> "end", kind |-> kind, stream |-> s, batch |-> <<>>,
                   expected |-> Unchecked, base |-> -1, del |-> del, ins |-> ins]
  <2>1. call' = [call EXCEPT ![c] = x] /\ x.ins = ins /\ x.kind = kind
    BY <1>7 DEF Begin
  <2> HIDE DEF x
  <2> QED
    BY <1>7, <2>1, BehindCall DEF Begin
<1>8. ASSUME NEW c \in Clients, NEW s \in Streams, Truncate(c, s)
      PROVE  Behind' /\ log' = log
  <2>1. PICK name : Begin(c, "truncate", s, Store!Of(s),
               {[id |-> serial, stream |-> s, version |-> 0, name |-> name]})
    BY <1>8 DEF Truncate
  <2>2. serial' \in serial .. MaxId + 1 /\ serial \in serial .. MaxId
    BY <1>1, <1>8, PostgresLogAssumption DEF Truncate
  <2> QED
    BY <1>7, <2>1, <2>2
<1>9. ASSUME NEW c \in Clients, NEW s \in Streams, Prune(c, s)
      PROVE  Behind' /\ log' = log
  BY <1>1, <1>7, <1>9 DEF Prune
<1>10. ASSUME NEW c \in Clients, Restore(c) PROVE Behind' /\ log' = log
  BY <1>1, <1>7, <1>10 DEF Restore
<1>11. ASSUME NEW c \in Clients, Abort(c) PROVE Behind' /\ log' = log
  BY <1>1, <1>3, <1>11 DEF Abort
<1>12. ASSUME NEW c \in Clients, Commit(c)
       PROVE  /\ Behind'
              /\ \A e \in log' \ log, r \in Readers : at'[r] < e.id \/ TableLocked
  <2>1. Pending(log, serial, call[c]) /\ lock = c /\ c # Nobody
    BY <1>12, PostgresLogAssumption DEF LogInv, Commit
  <2>2. \A d \in Clients : ~In(d, "end")'
    <3>1. Idle.phase = "idle" /\ call' = [call EXCEPT ![c] = Idle]
      BY <1>12 DEF Idle, Committing, Commit, Return
    <3> QED
      BY <1>1, <2>1, <3>1 DEF LogInv, In
  <2>3. CASE call[c].kind = "restore"
    <3>1. TableLocked
      BY <2>1, <2>3 DEF TableLocked
    <3>2. \A r \in Readers : at'[r] = 0
      BY <1>12, <2>3 DEF Commit
    <3> QED
      BY <1>1, <2>2, <3>1, <3>2, PostgresLogAssumption DEF Behind
  <2>4. CASE call[c].kind # "restore"
    <3>1. at' = at /\ serial' = serial /\ log' \subseteq log \cup call[c].ins
      BY <1>1, <1>12, <2>4 DEF Commit, NextSerial
    <3> QED
      BY <1>12, <2>2, <2>4, <3>1 DEF Behind, Commit
  <2> QED
    BY <2>3, <2>4
<1>13. ASSUME NEW r \in Readers, NEW e \in log, Read(r, e)
       PROVE  Behind' /\ log' = log
  <2>1. /\ \A d \in Clients : In(d, "end")' <=> In(d, "end")
        /\ at'[r] = e.id /\ \A q \in Readers : q # r => at'[q] = at[q]
        /\ UNCHANGED <<log, serial, lock, call>>
    BY <1>1, <1>13 DEF Read, In
  <2>2. ASSUME NEW d \in Clients, In(d, "end"), call[d].kind # "restore",
               NEW i \in call[d].ins
        PROVE  e.id < i.id
    BY <2>2 DEF LogInv, Pending
  <2> QED
    BY <1>2, <2>1, <2>2 DEF Behind
<1>14. CASE UNCHANGED vars
  BY <1>14 DEF vars, Behind, In
<1> QED
  BY <1>4, <1>5, <1>6, <1>8, <1>9, <1>10, <1>11, <1>12, <1>13, <1>14 DEF Next

\* The advisory lock makes the order of ids the order of visibility, for any
\* number of writers and readers, when a restore resets every position: no
\* reader passes an event that appears later (postgres-store.ts, commit).
THEOREM NoReaderPassesAnEvent == Kept = {} /\ Spec => NoGap
<1> SUFFICES ASSUME Kept = {} PROVE Spec => NoGap
  OBVIOUS
<1>1. Init => Behind
  BY PostgresLogAssumption DEF Init, Behind, In, Idle, Committing
<1>2. LogInv /\ LogInv' /\ Behind /\ [Next]_vars => Behind'
  BY BehindStep
<1>3. LogInv /\ LogInv' /\ Behind /\ [Next]_vars =>
          [\A e \in log' \ log, r \in Readers : at'[r] < e.id \/ TableLocked]_vars
  BY BehindStep
<1> QED
  BY <1>1, <1>2, <1>3, LogInvariant, PTL DEF Spec, NoGap

-----------------------------------------------------------------------------
(* Versions.                                                               *)

\* v is the head version of s in the log L.
HeadIs(L, s, v) ==
    \/ (\A e \in L : e.stream # s) /\ v = -1
    \/ \E e \in L : /\ e.stream = s /\ e.version = v
                   /\ \A f \in L : f.stream = s => f.version <= v

LEMMA HeadOfLog ==
    ASSUME NEW s, NEW v PROVE Store!IsHead(s, v) <=> HeadIs(log, s, v)
BY DEF Store!IsHead, Store!Of, HeadIs

\* The probe of x still holds, or the unique index will refuse its first row.
Current(L, x) ==
    \/ HeadIs(L, x.stream, x.base)
    \/ \E e \in L : e.stream = x.stream /\ e.version = x.base + 1

OnHead ==
    \A c \in Clients :
        /\ In(c, "insert") => Current(log, call[c])
        /\ In(c, "end") /\ call[c].kind = "commit"
               => HeadIs(log, call[c].stream, call[c].base)

LEMMA OnHeadCall ==
    ASSUME LogInv, OnHead, NEW c \in Clients, NEW x, log' = log,
           call' = [call EXCEPT ![c] = x],
           x.phase = "insert" => Current(log, x),
           x.phase = "end" /\ x.kind = "commit" => HeadIs(log, x.stream, x.base)
    PROVE  OnHead'
<1>1. call'[c] = x /\ \A d \in Clients : d # c => call'[d] = call[d]
  BY DEF LogInv, TypeOK
<1> QED
  BY <1>1 DEF OnHead, In

\* What a commit adds, and a deletion takes away, keeps a probe current.
LEMMA CurrentStep ==
    ASSUME NEW L, NEW x, NEW y, Keyed(L), Keyed((L \ x.del) \cup x.ins),
           Effect(L, x), x.kind = "commit" => HeadIs(L, x.stream, x.base) /\ x.base \in Version,
           Current(L, y), y.stream \in Streams, y.base \in Version,
           \A e \in x.del : e.stream # y.stream,
           x.kind = "commit" => \E first \in Store!Ids :
               /\ x.ins = Store!Rows(x.stream, x.batch, x.base, first)
               /\ first + Len(x.batch) - 1 <= MaxId
    PROVE  Current((L \ x.del) \cup x.ins, y)
<1> DEFINE M == (L \ x.del) \cup x.ins
<1>1. \A e \in L : e.stream = y.stream => e \in M
  OBVIOUS
<1>2. \A e \in L \cup M : e.version \in Nat
  BY DEF Keyed, Store!Event
<1>3. CASE \A i \in x.ins : i.stream # y.stream
  <2>1. \A e : e.stream = y.stream => (e \in L <=> e \in M)
    BY <1>3
  <2> HIDE DEF M
  <2> QED
    BY <2>1 DEF Current, HeadIs, M
<1>4. CASE x.kind = "commit" /\ x.stream = y.stream
  <2>1. PICK first \in Store!Ids :
           /\ x.ins = Store!Rows(x.stream, x.batch, x.base, first)
           /\ first + Len(x.batch) - 1 <= MaxId
    BY <1>4
  <2>2. x.stream \in Streams /\ x.batch \in Batches
    BY <1>4 DEF Effect, Probing
  <2>3. \E r \in x.ins : r.stream = y.stream /\ r.version = x.base + 1
    <3>1. x.base \in Version /\ first \in Nat \ {0}
      BY <1>4 DEF Store!Ids
    <3>2. \E r \in Store!Rows(x.stream, x.batch, x.base, first) :
             r.stream = x.stream /\ r.version = x.base + 1
      BY <2>2, <3>1, FirstRow
    <3> QED
      BY <1>4, <2>1, <3>2
  <2>4. CASE \E e \in L : e.stream = y.stream /\ e.version = y.base + 1
    BY <1>1, <2>4 DEF Current
  <2>5. CASE HeadIs(L, y.stream, y.base)
    <3>1. y.base = x.base
      BY <1>2, <1>4, <2>5 DEF HeadIs, Version
    <3> QED
      BY <2>3, <3>1 DEF Current
  <2> QED
    BY <2>4, <2>5 DEF Current
<1>5. CASE x.kind = "truncate" /\ x.stream = y.stream
  <2>1. \A e \in L : e.stream # y.stream
    BY <1>5 DEF Effect, Probing
  <2>2. y.base = -1
    BY <2>1 DEF Current, HeadIs
  <2>3. \E i \in x.ins : i.stream = y.stream /\ i.version = 0
    <3>1. PICK id \in Store!Ids, name \in {"snapshot", "tombstone"} :
             x.ins = {[id |-> id, stream |-> x.stream, version |-> 0, name |-> name]}
      BY <1>5 DEF Effect, Probing
    <3> QED
      BY <1>5, <3>1
  <2> QED
    BY <2>2, <2>3 DEF Current
<1>6. CASE x.kind = "prune"
  BY <1>3, <1>6 DEF Effect, Probing
<1>7. CASE x.kind = "restore"
  <2>1. PICK rows \in SUBSET L : x.ins = Store!Renumbered(rows)
    BY <1>7 DEF Effect, Probing
  <2>2. Keyed(rows)
    BY DEF Keyed
  <2>3. \A i \in x.ins : \E e \in rows : e.stream = i.stream
    BY <2>1, <2>2, RenumberedRows
  <2>4. \A e \in L : e.stream # y.stream
    BY <1>7 DEF Effect, Probing
  <2> QED
    BY <1>3, <2>3, <2>4
<1>8. CASE x.kind = "commit" /\ x.stream # y.stream
  <2>1. PICK first \in Store!Ids :
           /\ x.ins = Store!Rows(x.stream, x.batch, x.base, first)
           /\ first + Len(x.batch) - 1 <= MaxId
    BY <1>8
  <2>2. x.stream \in Streams /\ x.batch \in Batches
    BY <1>8 DEF Effect, Probing
  <2>3. \A r \in x.ins : r.stream = x.stream
    <3>1. x.base \in Version /\ first \in Nat \ {0}
      BY <1>8 DEF Store!Ids
    <3> QED
      BY <2>1, <2>2, <3>1, BatchRows
  <2> QED
    BY <1>3, <1>8, <2>3
<1>9. CASE x.kind = "truncate" /\ x.stream # y.stream
  BY <1>3, <1>9 DEF Effect, Probing
<1> QED
  BY <1>4, <1>5, <1>6, <1>7, <1>8, <1>9 DEF Effect, Probing

\* No deletion appears between a commit's probe and its statement.
LEMMA OnHeadStep ==
    ASSUME LogInv, LogInv', OnHead, [Next]_vars, ~Straddling
    PROVE  OnHead'
<1>1. ASSUME NEW c \in Clients, Return(c), log' = log PROVE OnHead'
  <2>1. Idle.phase = "idle" /\ call' = [call EXCEPT ![c] = Idle]
    BY <1>1 DEF Idle, Committing, Return
  <2> QED
    BY <1>1, <2>1, OnHeadCall
<1>2. ASSUME NEW c \in Clients, NEW s \in Streams, NEW batch, NEW expected,
             Probe(c, s, batch, expected)
      PROVE  OnHead'
  <2>1. PICK head \in {-1} \cup {e.version : e \in log} :
           /\ Store!IsHead(s, head)
           /\ call' = [call EXCEPT ![c] =
                           Committing("insert", s, batch, expected, head, {})]
    BY <1>2 DEF Probe
  <2> DEFINE x == Committing("insert", s, batch, expected, head, {})
  <2>2. x.phase = "insert" /\ x.stream = s /\ x.base = head
    BY DEF Committing
  <2> HIDE DEF x
  <2>3. Current(log, x)
    BY <2>1, <2>2, HeadOfLog DEF Current
  <2>4. log' = log /\ call' = [call EXCEPT ![c] = x]
    BY <1>2, <2>1 DEF Probe, x
  <2> QED
    BY <2>2, <2>3, <2>4, OnHeadCall
<1>3. ASSUME NEW c \in Clients, Insert(c) PROVE OnHead'
  <2> DEFINE x == Committing("end", call[c].stream, call[c].batch, call[c].expected,
                             call[c].base, Rows(c))
  <2>1. log' = log /\ call' = [call EXCEPT ![c] = x]
    BY <1>3 DEF Insert
  <2>2. /\ call[c].stream \in Streams /\ call[c].batch \in Batches
        /\ call[c].base \in Version /\ Current(log, call[c])
    BY <1>3 DEF LogInv, TypeOK, Insert, Probing, Call, OnHead
  <2>3. \E r \in Rows(c) : r.stream = call[c].stream /\ r.version = call[c].base + 1
    BY <2>2, FirstRow DEF Rows
  <2>4. HeadIs(log, call[c].stream, call[c].base)
    BY <1>3, <2>2, <2>3 DEF Insert, Conflict, Current
  <2>5. x.phase = "end" /\ x.stream = call[c].stream /\ x.base = call[c].base
    BY DEF Committing
  <2> HIDE DEF x
  <2> QED
    BY <2>1, <2>4, <2>5, OnHeadCall
<1>4. ASSUME NEW c \in Clients, NEW kind \in {"truncate", "prune", "restore"},
             NEW s, NEW del, NEW ins, Begin(c, kind, s, del, ins)
      PROVE  OnHead'
  <2> DEFINE x == [phase |-> "end", kind |-> kind, stream |-> s, batch |-> <<>>,
                   expected |-> Unchecked, base |-> -1, del |-> del, ins |-> ins]
  <2>1. log' = log /\ call' = [call EXCEPT ![c] = x]
    BY <1>4 DEF Begin
  <2>2. x.phase = "end" /\ x.kind # "commit"
    OBVIOUS
  <2> HIDE DEF x
  <2> QED
    BY <2>1, <2>2, OnHeadCall
<1>5. ASSUME NEW c \in Clients, NEW s \in Streams, Truncate(c, s) PROVE OnHead'
  BY <1>4, <1>5 DEF Truncate
<1>6. ASSUME NEW c \in Clients, NEW s \in Streams, Prune(c, s) PROVE OnHead'
  BY <1>4, <1>6 DEF Prune
<1>7. ASSUME NEW c \in Clients, Restore(c) PROVE OnHead'
  BY <1>4, <1>7 DEF Restore
<1>8. ASSUME NEW c \in Clients, Commit(c) PROVE OnHead'
  <2> DEFINE x == call[c]
  <2>1. /\ Pending(log, serial, x) /\ lock = c /\ Keyed(log)
        /\ log' = (log \ x.del) \cup x.ins /\ call' = [call EXCEPT ![c] = Idle]
    BY <1>8 DEF LogInv, TypeOK, Keyed, Commit, Return
  <2>2. /\ Idle.phase = "idle" /\ call'[c] = Idle /\ x \in Call
        /\ \A d \in Clients : d # c => call'[d] = call[d]
    BY <2>1 DEF Idle, Committing, LogInv, TypeOK
  <2>3. \A d \in Clients : ~In(d, "end")'
    BY <2>1, <2>2 DEF LogInv, In
  <2>4. ASSUME NEW d \in Clients, In(d, "insert")'
        PROVE  Current(log', call'[d])
    <3>1. d # c /\ call'[d] = call[d] /\ In(d, "insert")
      BY <2>2, <2>4 DEF In
    <3>2. Current(log, call[d]) /\ call[d] \in Call /\ Probing(call[d])
      BY <3>1 DEF OnHead, LogInv, TypeOK
    <3>3. call[d].stream \in Streams /\ call[d].base \in Version
      BY <3>2 DEF Call, Probing
    <3>4. \A e \in x.del : e.stream # call[d].stream
      BY <1>8, <3>1 DEF Commit, Overtakes
    <3>5. x.kind = "commit" => HeadIs(log, x.stream, x.base) /\ x.base \in Version
      BY <1>8, <2>2 DEF OnHead, Commit, Call
    <3>6. x.kind = "commit" => \E first \in Store!Ids :
               /\ x.ins = Store!Rows(x.stream, x.batch, x.base, first)
               /\ first + Len(x.batch) - 1 <= MaxId
      <4> SUFFICES ASSUME x.kind = "commit"
                   PROVE  \E first \in Store!Ids :
                             /\ x.ins = Store!Rows(x.stream, x.batch, x.base, first)
                             /\ first + Len(x.batch) - 1 <= MaxId
        OBVIOUS
      <4>1. PICK first \in Store!Ids :
               x.ins = Store!Rows(x.stream, x.batch, x.base, first)
        BY <2>1 DEF Pending, Effect
      <4>2. x.batch \in Batches /\ x.ins \subseteq Store!Event
        BY <2>1, <2>2 DEF Pending, Effect, Probing, Call
      <4>3. Len(x.batch) \in DOMAIN x.batch /\ Len(x.batch) \in Nat
        BY <4>2, PostgresLogAssumption
      <4>4. \E r \in x.ins : r.id = first + Len(x.batch) - 1
        <5> DEFINE row(k) == [id |-> first + k - 1, stream |-> x.stream,
                              version |-> x.base + k, name |-> x.batch[k]]
        <5>1. row(Len(x.batch)).id = first + Len(x.batch) - 1
          OBVIOUS
        <5>2. x.ins = {row(k) : k \in DOMAIN x.batch}
          BY <4>1 DEF Store!Rows
        <5> HIDE DEF row
        <5> QED
          BY <4>3, <5>1, <5>2
      <4> QED
        BY <4>1, <4>2, <4>4, PostgresLogAssumption DEF Store!Event, Store!Ids
    <3>7. Effect(log, x) /\ Keyed((log \ x.del) \cup x.ins)
      BY <2>1 DEF Pending
    <3> HIDE DEF x
    <3>8. Current((log \ x.del) \cup x.ins, call[d])
      BY <2>1, <3>2, <3>3, <3>4, <3>5, <3>6, <3>7, CurrentStep
    <3> QED
      BY <2>1, <3>1, <3>8
  <2> QED
    BY <2>3, <2>4 DEF OnHead
<1>9. ASSUME NEW r \in Readers, NEW e \in log, Read(r, e) PROVE OnHead'
  BY <1>9 DEF Read, OnHead, In
<1>10. CASE UNCHANGED vars
  BY <1>10 DEF vars, OnHead, In
<1> QED
  BY <1>1, <1>2, <1>3, <1>5, <1>6, <1>7, <1>8, <1>9, <1>10
     DEF Next, Conflicts, Abort

LEMMA OnHeadInit == Init => OnHead
BY PostgresLogAssumption DEF Init, OnHead, In, Idle, Committing

\* A checked commit lands on the version its caller gave, when no truncation,
\* pruning or restore of the stream appears between the probe and the
\* statement (postgres-store.ts, commit).
THEOREM ChecksHold == ~Straddling /\ Spec => CheckedOnHead
<1> SUFFICES ASSUME ~Straddling PROVE Spec => CheckedOnHead
  OBVIOUS
<1>1. LogInv /\ LogInv' /\ OnHead /\ [Next]_vars => OnHead'
  BY OnHeadStep
<1>2. LogInv /\ OnHead /\ [Next]_vars =>
          [\A c \in Clients :
              In(c, "end") /\ call[c].kind = "commit" /\ call[c].expected # Unchecked
                  /\ call[c].ins \subseteq log' /\ ~(call[c].ins \subseteq log)
              => Store!IsHead(call[c].stream, call[c].expected)]_vars
  <2> SUFFICES ASSUME LogInv, OnHead, NEW c \in Clients, In(c, "end"),
                      call[c].kind = "commit", call[c].expected # Unchecked
               PROVE  Store!IsHead(call[c].stream, call[c].expected)
    OBVIOUS
  <2>1. call[c].expected = call[c].base
    BY DEF LogInv, Pending, Effect, Probing
  <2>2. HeadIs(log, call[c].stream, call[c].base)
    BY DEF OnHead
  <2> QED
    BY <2>1, <2>2, HeadOfLog
<1> QED
  BY <1>1, <1>2, OnHeadInit, LogInvariant, PTL DEF Spec, CheckedOnHead

\* The end of a transaction is one step of the store, or changes nothing.
LEMMA CommitIsAStep ==
    ASSUME LogInv, LogInv', OnHead, NEW c \in Clients, Commit(c)
    PROVE  Store!Next \/ log' = log
<1> DEFINE x == call[c]
<1>1. /\ Pending(log, serial, x) /\ Effect(log, x)
      /\ log' = (log \ x.del) \cup x.ins
      /\ In(c, "end")
  BY DEF LogInv, Commit, Pending
<1>2. x.kind # "restore" => \A e \in log, i \in x.ins : e.id < i.id
  BY <1>1 DEF Pending
<1>3. \A i \in x.ins : i.id \in Store!Ids
  BY <1>1 DEF Pending, Keyed, Store!Event
<1>4. CASE x.kind = "commit"
  <2>1. /\ x.stream \in Streams /\ x.batch \in Batches /\ x.del = {}
    BY <1>1, <1>4 DEF Effect, Probing
  <2>2. PICK first \in Store!Ids : x.ins = Store!Rows(x.stream, x.batch, x.base, first)
    BY <1>1, <1>4 DEF Effect
  <2>3. HeadIs(log, x.stream, x.base)
    BY <1>1, <1>4 DEF OnHead
  <2>4. Store!IsHead(x.stream, x.base) /\ x.base \in {-1} \cup {e.version : e \in log}
    BY <2>3, HeadOfLog DEF HeadIs
  <2>5. Store!Fresh(Store!Rows(x.stream, x.batch, x.base, first))
    BY <1>2, <1>3, <1>4, <2>2 DEF Store!Fresh
  <2>6. log' = log \cup Store!Rows(x.stream, x.batch, x.base, first)
    BY <1>1, <2>1, <2>2
  <2>7. Store!Commit(x.stream, x.batch)
    BY <2>4, <2>5, <2>6 DEF Store!Commit
  <2> QED
    BY <2>1, <2>7 DEF Store!Next
<1>5. CASE x.kind = "truncate"
  <2>1. PICK id \in Store!Ids, name \in {"snapshot", "tombstone"} :
           x.ins = {[id |-> id, stream |-> x.stream, version |-> 0, name |-> name]}
    BY <1>1, <1>5 DEF Effect, Probing
  <2>2. x.stream \in Streams /\ x.del = Store!Of(x.stream)
    BY <1>1, <1>5 DEF Effect, Probing, Store!Of
  <2>3. Store!Fresh(x.ins)
    BY <1>2, <1>3, <1>5 DEF Store!Fresh
  <2>4. Store!Truncate(x.stream)
    BY <1>1, <2>1, <2>2, <2>3 DEF Store!Truncate
  <2> QED
    BY <2>2, <2>4 DEF Store!Next
<1>6. CASE x.kind = "prune"
  <2>1. x.stream \in Streams /\ x.ins = {}
    BY <1>1, <1>6 DEF Effect, Probing
  <2>2. PICK b \in Store!Of(x.stream) :
           b.name = "snapshot" /\ x.del = Store!Below(x.stream, b)
    BY <1>1, <1>6 DEF Effect, Probing, Store!Of, Store!Below
  <2>3. Store!Prune(x.stream)
    BY <1>1, <2>1, <2>2 DEF Store!Prune
  <2> QED
    BY <2>1, <2>3 DEF Store!Next
<1>7. CASE x.kind = "restore"
  <2>1. log' \in {Store!Renumbered(rows) : rows \in SUBSET log}
    BY <1>1, <1>7 DEF Effect, Probing
  <2> QED
    BY <2>1 DEF Store!Next, Store!Restore
<1> QED
  BY <1>1, <1>4, <1>5, <1>6, <1>7 DEF Effect, Probing

\* The statements of commit, truncate and restore implement the store's log,
\* whose every call is one step: a rollback leaves nothing behind, a commit is
\* placed on the head (postgres-store.ts against sqlite-store.ts).
THEOREM Implements == ~Straddling /\ Spec => ImplementsStore
<1> SUFFICES ASSUME ~Straddling PROVE Spec => ImplementsStore
  OBVIOUS
<1>1. Init => Store!Init
  BY DEF Init
<1>2. LogInv /\ LogInv' /\ OnHead /\ [Next]_vars => OnHead'
  BY OnHeadStep
<1>3. LogInv /\ LogInv' /\ OnHead /\ [Next]_vars => [Store!Next]_log
  <2> SUFFICES ASSUME LogInv, LogInv', OnHead, [Next]_vars
               PROVE  Store!Next \/ log' = log
    OBVIOUS
  <2>1. ASSUME NEW c \in Clients, Commit(c) PROVE Store!Next \/ log' = log
    BY <2>1, CommitIsAStep
  <2>2. CASE UNCHANGED vars
    BY <2>2 DEF vars
  <2> QED
    BY <2>1, <2>2 DEF Next, Probe, Truncate, Prune, Insert, Conflicts, Restore, Begin,
                      Abort, Read
<1> QED
  BY <1>1, <1>2, <1>3, OnHeadInit, LogInvariant, PTL DEF Spec, ImplementsStore, Store!Spec
=============================================================================
