------------------------------ MODULE Projection ------------------------------
(***************************************************************************)
(* The state projection: the batch handler that folds the events of a      *)
(* state into one row per stream (projection-fold.ts).  Every Act instance *)
(* has fold states of its own, a bounded cache that survives from one      *)
(* drain cycle to the next; the subscription row with its watermark and    *)
(* lease, and the table the rows are flushed to, are shared.               *)
(*                                                                         *)
(* One action per await of the handler, and one per event it folds.  The   *)
(* state of a stream is the set of ids folded into it.  load answers the   *)
(* stream's head, whatever its own cache holds (module EventSourcing has   *)
(* its inside); of the subscription row only what the handler's worth      *)
(* depends on is kept (module Drain has the rest).                         *)
(***************************************************************************)
EXTENDS Integers, FiniteSets

CONSTANTS Workers,      \* Act instances that share the projection's row
          Operated,     \* those that operators call
          Streams,      \* streams of the projected state
          MaxCached,    \* maxCachedStates
          FlushEvery,   \* events folded between flush rounds
          BatchLimit,   \* events one drain cycle fetches
          StaleRestart, \* a stream is restarted under any fold state of it
          LateClear,    \* cycles go on until the store answers a reset
          Nobody,       \* holder of a free lease
          MaxId,        \* bound on events, snapshots and seeds
          MaxFaults,    \* bound on overruns, failures and crashes
          MaxRebuilds   \* bound on rebuilds

ASSUME ProjectionAssumption ==
    /\ {MaxCached, FlushEvery, BatchLimit} \subseteq Nat \ {0}
    /\ Operated \subseteq Workers /\ Streams # {}
    /\ {StaleRestart, LateClear} \subseteq BOOLEAN
    /\ Nobody \notin Workers
    /\ {MaxId, MaxFaults, MaxRebuilds} \subseteq Nat

VARIABLES
    log,      \* [1 .. length -> event], everything ever committed, by id
    length,
    base,     \* [Streams -> id of the seed of its last truncation, or 0]
    at,       \* watermark of the projection's subscription row
    holder,   \* worker that leases the row
    table,    \* [Streams -> projected row]
    cache,    \* [Workers -> [Streams -> fold state]]
    run,      \* [Workers -> the handler's local variables]
    wiped,    \* the table was truncated for a rebuild, reset is still to come
    clearing, \* workers whose reset has yet to be answered
    faults, rebuilds

budget == <<faults, rebuilds>>
store == <<log, length, base>>
subscription == <<at, holder>>
vars == <<store, subscription, table, cache, run, wiped, clearing, budget>>

Ids == 1 .. MaxId
Position == 0 .. MaxId

\* "domain" is an event of the state; the framework's own marks take versions
\* of the stream and are not delivered to a projection.
Event == [stream : Streams, version : Nat, name : {"domain", "snapshot", "seed"}]

Row == [state : SUBSET Ids, id : Position]
Version == Nat \cup {-1}
Fold == [held : BOOLEAN, dirty : BOOLEAN, state : SUBSET Ids, version : Version,
         id : Position]

Run == [phase : {"idle", "fold", "evict", "load", "flush", "ack"},
        batch : SUBSET Ids,               \* what is left of it
        upto : Position,                  \* its last event
        since : Nat,                      \* folded_since_flush
        victim : Streams]                 \* of an eviction

NoRow == [state |-> {}, id |-> 0]
NoFold == [held |-> FALSE, dirty |-> FALSE, state |-> {}, version |-> -1, id |-> 0]
EmptyCache == [s \in Streams |-> NoFold]
Idle == [phase |-> "idle", batch |-> {}, upto |-> 0, since |-> 0,
         victim |-> CHOOSE s \in Streams : TRUE]

Init ==
    /\ log = <<>> /\ length = 0
    /\ base = [s \in Streams |-> 0]
    /\ at = 0 /\ holder = Nobody
    /\ table = [s \in Streams |-> NoRow]
    /\ cache = [w \in Workers |-> EmptyCache]
    /\ run = [w \in Workers |-> Idle]
    /\ wiped = FALSE /\ clearing = {}
    /\ faults = 0 /\ rebuilds = 0

-----------------------------------------------------------------------------
(* The log.                                                                *)

IsHead(s, i) == /\ i \in 1 .. length /\ log[i].stream = s
                /\ \A j \in 1 .. length : log[j].stream = s => j <= i
Head(s) == IF \E i \in 1 .. length : log[i].stream = s
           THEN CHOOSE i \in 1 .. length : IsHead(s, i) ELSE 0
\* Mutant of HeadVersion: versions are read off ids.
FromId(s) == Head(s) - 2
HeadVersion(s) == IF Head(s) = 0 THEN -1 ELSE log[Head(s)].version

\* The domain events of s up to n: its true state at n.
StateAt(s, n) == {i \in 1 .. length : log[i].stream = s /\ log[i].name = "domain" /\ i <= n}

\* The events the store still has for the projection.
Delivered(after) ==
    {i \in 1 .. length : after < i /\ log[i].name = "domain" /\ base[log[i].stream] < i}

Write(s, name, version) ==
    /\ length < MaxId
    /\ length' = length + 1
    /\ log' = [i \in 1 .. length + 1 |->
                 IF i <= length THEN log[i]
                 ELSE [stream |-> s, version |-> version, name |-> name]]

\* An action commits an event.
Commit(s) ==
    /\ Write(s, "domain", HeadVersion(s) + 1)
    /\ UNCHANGED <<base, subscription, table, cache, run, wiped, clearing, budget>>

\* The snapshot of a committed event lands, with a version of its own.
Snap(s) ==
    /\ Head(s) # 0 /\ log[Head(s)].name = "domain"
    /\ Write(s, "snapshot", HeadVersion(s) + 1)
    /\ UNCHANGED <<base, subscription, table, cache, run, wiped, clearing, budget>>

\* A full close that restarts the stream: once the projection is past them its
\* rows give way to one seed, at version 0 (module CloseCycle).  Unless
\* StaleRestart, no fold state of the stream is behind it, or at a version whose
\* next the new history will have again.
Restart(s) ==
    /\ Head(s) # 0 /\ Head(s) <= at
    /\ StaleRestart \/ \A w \in Workers : cache[w][s].held =>
          cache[w][s].id = Head(s) /\ cache[w][s].version = 0
    /\ Write(s, "seed", 0)
    /\ base' = [base EXCEPT ![s] = length + 1]
    /\ UNCHANGED <<subscription, table, cache, run, wiped, clearing, budget>>

-----------------------------------------------------------------------------
(* Fold states and rows.                                                   *)

\* Mutant of Contiguous: whatever is newer is next (#1465).
AnyNewer(fold, i) == TRUE
\* The event is the next version after what the fold state holds.
Contiguous(fold, i) == log[i].version = fold.version + 1

\* The fold state can take event i: it has it already, or it comes next.
Takes(fold, i) == fold.held /\ (i <= fold.id \/ Contiguous(fold, i))

\* The fold state after event i.
Folded(fold, i) ==
    IF i <= fold.id THEN [fold EXCEPT !.dirty = TRUE]
    ELSE [held |-> TRUE, dirty |-> TRUE, state |-> fold.state \cup {i},
          version |-> log[i].version, id |-> i]

\* first_sight: the stream's head state, with the position it was read at, and
\* dirty from the start.
Loaded(s) == [held |-> TRUE, dirty |-> TRUE, state |-> StateAt(s, length),
              version |-> HeadVersion(s), id |-> Head(s)]

\* The application's flush of some fold states: a monotonic upsert.
Upsert(folds, S) ==
    [s \in Streams |-> IF s \in S /\ table[s].id <= folds[s].id
                       THEN [state |-> folds[s].state, id |-> folds[s].id] ELSE table[s]]

Dirty(w) == {s \in Streams : cache[w][s].held /\ cache[w][s].dirty}
Full(folds) == Cardinality({s \in Streams : folds[s].held}) >= MaxCached

-----------------------------------------------------------------------------
(* The batch handler, inside the drain cycle of its worker.                *)

IsNext(w, i) == i \in run[w].batch /\ \A j \in run[w].batch : i <= j
Current(w) == CHOOSE i \in run[w].batch : IsNext(w, i)
StreamOf(w) == log[Current(w)].stream

In(w, phase) == run[w].phase = phase
Goto(w, phase) == run' = [run EXCEPT ![w].phase = phase]
Keep(w, folds) == cache' = [cache EXCEPT ![w] = folds]

\* claim and fetch.
Claim(w) ==
    /\ In(w, "idle") /\ holder = Nobody
    /\ LET due == Delivered(at)
           batch == {i \in due : Cardinality({j \in due : j < i}) < BatchLimit}
       IN  /\ due # {}
           /\ run' = [run EXCEPT ![w] = [Idle EXCEPT
                !.phase = "fold", !.batch = batch,
                !.upto = CHOOSE i \in batch : \A j \in batch : j <= i]]
    /\ holder' = w
    /\ UNCHANGED <<store, at, table, cache, wiped, clearing, budget>>

\* Mutant of After: what is folded since the last round waits for the next batch.
NoLastFlush(rest, since) ==
    IF since >= FlushEvery THEN "flush" ELSE IF rest = {} THEN "ack" ELSE "fold"
\* A flush round is due every FlushEvery events and after the last one.
After(rest, since) == IF rest = {} \/ since >= FlushEvery THEN "flush" ELSE "fold"

\* The event at hand has been folded.
Advance(w, s, fold) ==
    LET rest == run[w].batch \ {Current(w)}
    IN  /\ Keep(w, [cache[w] EXCEPT ![s] = fold])
        /\ run' = [run EXCEPT ![w].batch = rest, ![w].since = @ + 1,
                              ![w].phase = After(rest, run[w].since + 1)]

\* The next event goes onto the cached fold state of its stream.
FoldWarm(w) ==
    /\ In(w, "fold")
    /\ LET s == StreamOf(w)
       IN  Takes(cache[w][s], Current(w)) /\ Advance(w, s, Folded(cache[w][s], Current(w)))
    /\ UNCHANGED <<store, subscription, table, wiped, clearing, budget>>

\* No fold state, or one that does not reach up to the event: it is dropped and
\* the head is loaded, after another stream has made room for it.
FoldCold(w) ==
    /\ In(w, "fold")
    /\ ~Takes(cache[w][StreamOf(w)], Current(w))
    /\ LET folds == [cache[w] EXCEPT ![StreamOf(w)] = NoFold]
       IN  /\ Keep(w, folds)
           /\ \/ Full(folds) /\ \E v \in Streams :
                   /\ folds[v].held
                   /\ run' = [run EXCEPT ![w].phase = "evict", ![w].victim = v]
              \/ ~Full(folds) /\ Goto(w, "load")
    /\ UNCHANGED <<store, subscription, table, wiped, clearing, budget>>

\* Mutant of Owed: an evicted fold state is just dropped.
NothingOwed(w, v) == {}
\* What has to be flushed before v is evicted.
Owed(w, v) == {v} \cap Dirty(w)

Evict(w) ==
    /\ In(w, "evict")
    /\ table' = Upsert(cache[w], Owed(w, run[w].victim))
    /\ Keep(w, [cache[w] EXCEPT ![run[w].victim] = NoFold])
    /\ run' = [run EXCEPT ![w].phase = "load", ![w].victim = Idle.victim]
    /\ UNCHANGED <<store, subscription, wiped, clearing, budget>>

\* The head is there; the event at hand is part of it.
Load(w) ==
    /\ In(w, "load")
    /\ Advance(w, StreamOf(w), Loaded(StreamOf(w)))
    /\ UNCHANGED <<store, subscription, table, wiped, clearing, budget>>

\* flush_dirty; the handler returns after the last one.
Flush(w) ==
    /\ In(w, "flush")
    /\ table' = Upsert(cache[w], Dirty(w))
    /\ Keep(w, [s \in Streams |-> [cache[w][s] EXCEPT !.dirty = FALSE]])
    /\ run' = [run EXCEPT ![w].since = 0,
                  ![w].phase = IF run[w].batch = {} THEN "ack" ELSE "fold"]
    /\ UNCHANGED <<store, subscription, wiped, clearing, budget>>

\* The store honours the ack of a worker that still has the lease.
Ack(w) ==
    /\ In(w, "ack")
    /\ IF holder = w THEN at' = run[w].upto /\ holder' = Nobody
       ELSE UNCHANGED subscription
    /\ run' = [run EXCEPT ![w] = Idle]
    /\ UNCHANGED <<store, table, cache, wiped, clearing, budget>>

-----------------------------------------------------------------------------
(* What goes wrong.                                                        *)

Fault == faults < MaxFaults /\ faults' = faults + 1 /\ UNCHANGED rebuilds

\* flush fails, having written some of the rows, and the handler with it: the
\* batch is not acked and the fold states stay.
FlushFails(w) ==
    /\ In(w, "flush") \/ In(w, "evict")
    /\ Fault
    /\ \E S \in SUBSET (IF In(w, "flush") THEN Dirty(w) ELSE Owed(w, run[w].victim)) :
          table' = Upsert(cache[w], S)
    /\ run' = [run EXCEPT ![w] = Idle]
    /\ UNCHANGED <<store, subscription, cache, wiped, clearing>>

\* load fails, and the handler with it.
LoadFails(w) ==
    /\ In(w, "load")
    /\ Fault
    /\ run' = [run EXCEPT ![w] = Idle]
    /\ UNCHANGED <<store, subscription, table, cache, wiped, clearing>>

Crash(w) ==
    /\ Fault
    /\ run' = [run EXCEPT ![w] = Idle]
    /\ Keep(w, EmptyCache)
    /\ clearing' = clearing \ {w}
    /\ UNCHANGED <<store, subscription, table, wiped>>

\* The lease runs out under a handler that is still at work, or after it.
Overrun ==
    /\ holder # Nobody /\ ~In(holder, "idle")
    /\ Fault
    /\ holder' = Nobody
    /\ UNCHANGED <<store, at, table, cache, run, wiped, clearing>>

Lapse ==
    /\ holder # Nobody /\ In(holder, "idle")
    /\ holder' = Nobody
    /\ UNCHANGED <<store, at, table, cache, run, wiped, clearing, budget>>

-----------------------------------------------------------------------------
(* A rebuild: the table is truncated, the watermark reset.                 *)

Rebuild == rebuilds < MaxRebuilds /\ rebuilds' = rebuilds + 1 /\ UNCHANGED faults

Wipe ==
    /\ ~wiped /\ Rebuild
    /\ table' = [s \in Streams |-> NoRow]
    /\ wiped' = TRUE
    /\ UNCHANGED <<store, subscription, cache, run, clearing>>

\* The fold states may be dropped: not within a turn of the handler, and while
\* flush is awaited to the same effect as when it is done, since its rows are
\* already out of the cache.
Between(w) ==
    \/ run[w].phase \in {"idle", "load", "ack"}
    \/ In(w, "fold") /\ run[w].since = 0

\* app.reset in one instance: the store rewinds the row and frees it, and when
\* that instance has its answer it drops its fold states.
Reset(w) ==
    /\ wiped \/ clearing = {}
    /\ IF wiped THEN UNCHANGED budget ELSE Rebuild
    /\ w \in Operated /\ Between(w) /\ w \notin clearing
    /\ at' = 0 /\ holder' = Nobody /\ wiped' = FALSE
    /\ clearing' = clearing \cup {w}
    /\ UNCHANGED <<store, table, cache, run>>

Clear(w) ==
    /\ w \in clearing /\ Between(w)
    /\ clearing' = clearing \ {w}
    /\ Keep(w, EmptyCache)
    /\ UNCHANGED <<store, subscription, table, run, wiped, budget>>

-----------------------------------------------------------------------------

Cycle(w) ==
    /\ LateClear \/ w \notin clearing
    /\ \/ Claim(w) \/ FoldWarm(w) \/ FoldCold(w) \/ Evict(w) \/ Load(w) \/ Flush(w)
       \/ Ack(w)

Next ==
    \/ \E s \in Streams : Commit(s) \/ Snap(s) \/ Restart(s)
    \/ \E w \in Workers : \/ Cycle(w) \/ FlushFails(w) \/ LoadFails(w) \/ Crash(w)
                          \/ Reset(w) \/ Clear(w)
    \/ Overrun \/ Lapse \/ Wipe

Spec == Init /\ [][Next]_vars

\* A started cycle goes on and every worker is driven again, leases run out,
\* and an operator who has truncated the table resets the watermark.
FairSpec ==
    /\ Spec
    /\ \A w \in Workers : WF_vars(Cycle(w) \/ Clear(w))
    /\ WF_vars(Lapse)
    /\ WF_vars(\E w \in Workers : wiped /\ Reset(w))

-----------------------------------------------------------------------------
(* Properties.                                                             *)

TypeOK ==
    /\ length \in Position
    /\ log \in [1 .. length -> Event]
    /\ base \in [Streams -> Position]
    /\ at \in Position /\ holder \in Workers \cup {Nobody}
    /\ table \in [Streams -> Row]
    /\ cache \in [Workers -> [Streams -> Fold]]
    /\ run \in [Workers -> Run]
    /\ wiped \in BOOLEAN /\ clearing \subseteq Workers
    /\ budget \in Nat \X Nat

\* #1465, #1204: a projected row is the fold of every event of its stream up
\* to the row's position, whichever workers folded which part of it.
RowsAreTrue == \A s \in Streams : table[s].state = StateAt(s, table[s].id)

\* The watermark is never past an event whose row is not in the table: fold
\* work is durable before it is acknowledged, through evictions, failed
\* flushes, lost leases, crashes and rebuilds.
AckedIsDurable ==
    ~wiped => \A i \in Delivered(0) : i <= at => i <= table[log[i].stream].id

\* Every stream's row is in the end up to its last event.
EventuallyProjected == <>[](\A i \in Delivered(0) : i <= table[log[i].stream].id)
=============================================================================
