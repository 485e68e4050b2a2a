---------------------------- MODULE EventSourcing ----------------------------
(***************************************************************************)
(* One stream of the event store and the calls on it: load and action with *)
(* the folded-state cache, the optimistic version check, its retries and   *)
(* the snapshots (event-sourcing.ts).  One action per await; a cache may   *)
(* be remote, so its writes arrive late or are lost.                       *)
(*                                                                         *)
(* A state is abstracted to the set of ids of the domain events folded     *)
(* into it, so an event folded never, or applied over a wrong base, shows. *)
(***************************************************************************)
EXTENDS Integers, Sequences

CONSTANTS Calls,        \* calls that may be in flight together
          Caches,       \* folded-state caches, one per process or one shared
          CacheOf,      \* [Calls -> Caches]
          Kinds,        \* [Calls -> SUBSET CallKinds], what each may be
          Names,        \* names of the domain events
          Batch,        \* events one action may emit
          MaxRetries,   \* the action's maxRetries option
          MaxId         \* bound on event ids

\* What a call is: an action, one that a reaction runs (reactingTo), one with
\* the caller's expectedVersion, or a plain load.
CallKinds == {"act", "react", "pinned", "load"}

SNAP_EVENT == "__snapshot__"
TOMBSTONE_EVENT == "__tombstone__"

ASSUME SourcingAssumption ==
    /\ CacheOf \in [Calls -> Caches]
    /\ Kinds \in [Calls -> SUBSET CallKinds]
    /\ {SNAP_EVENT, TOMBSTONE_EVENT} \cap Names = {}
    /\ Batch \in Nat \ {0} /\ MaxRetries \in Nat /\ MaxId \in Nat

VARIABLES
    log,      \* the stream's rows in _events
    nextId,   \* _next_id
    written,  \* history: the domain events ever committed to the stream
    cache,    \* [Caches -> Folded], Nothing when the stream has no entry
    call      \* [Calls -> the local variables of the call]

sourcing == <<log, nextId, written, cache, call>>

Ids == 0 .. MaxId
Position == Ids \cup {-1}

\* A row; `state` is the data of a snapshot event.
Event == [id : Ids, version : Ids, name : Names \cup {SNAP_EVENT, TOMBSTONE_EVENT},
          state : SUBSET Ids]

\* A state and how far it is folded: a cache entry, what load returns.
Folded == [state : SUBSET Ids, version : Position, id : Position]
Nothing == [state |-> {}, version |-> -1, id |-> -1]

Phases == {"idle", "reload", "query", "fill", "commit", "snap", "put"}

Call == [at : Phases, kind : CallKinds, got : Folded, pin : Position,
         tries : 0 .. MaxRetries]

Idle == [at |-> "idle", kind |-> "load", got |-> Nothing, pin |-> -1, tries |-> 0]

Init ==
    /\ log = {}
    /\ nextId = 0
    /\ written = {}
    /\ cache = [k \in Caches |-> Nothing]
    /\ call = [c \in Calls |-> Idle]

-----------------------------------------------------------------------------
(* Reading the stream.                                                     *)

Domain(E) == {e \in E : e.name \in Names}
IdsOf(E) == {e.id : e \in E}
Latest(E) == CHOOSE e \in E : \A f \in E : f.id <= e.id

\* _stream_versions.get(stream) ?? -1
HeadVersion == IF log = {} THEN -1 ELSE Latest(log).version
Closed(E) == E # {} /\ Latest(E).name = TOMBSTONE_EVENT

\* Mutant of Fold: a snapshot above the checkpoint is not folded.
FoldDomain(state, E) == state \cup IdsOf(Domain(E))
\* The reducers over E in id order: a snapshot replaces what is folded so far.
Fold(state, E) ==
    LET snaps == {e \in E : e.name = SNAP_EVENT}
    IN  IF snaps = {} THEN state \cup IdsOf(Domain(E))
        ELSE LET base == Latest(snaps)
             IN  base.state \cup IdsOf({e \in Domain(E) : e.id > base.id})

\* The rows a load replays.  A cold load asks for the rows from the latest
\* snapshot on, a warm one for the rows above the checkpoint with snapshots;
\* Fold makes no difference between a cold load with that floor and without.
Above(base) == {e \in log : e.id > base.id}

\* What load returns from the cache entry `base`.
Load(base) ==
    LET E == Above(base)
    IN  IF E = {} THEN base
        ELSE [state |-> Fold(base.state, E), version |-> Latest(E).version,
              id |-> Latest(E).id]

\* Mutant of Fillable: a tombstone at the head is cached like any event.
FillAnyHead(E) == E # {}
\* Whether load writes a checkpoint after replaying E.
Fillable(E) == E # {} /\ ~Closed(E)

\* A cache write arrives or is lost; a failed write is only logged.
Remember(k, entry) == cache' \in {cache, [cache EXCEPT ![k] = entry]}
Forget(k) == Remember(k, Nothing)

-----------------------------------------------------------------------------
(* The calls.                                                              *)

Update(c, at, got) == call' = [call EXCEPT ![c].at = at, ![c].got = got]
End(c) == call' = [call EXCEPT ![c] = Idle]

\* A call arrives, and load reads the cache.  A pinned version is one its
\* caller has seen.
Begin(c, kind) ==
    /\ call[c].at = "idle"
    /\ \E pin \in IF kind = "pinned" THEN 0 .. HeadVersion ELSE {-1} :
          call' = [call EXCEPT ![c] = [at |-> "query", kind |-> kind,
                                       got |-> cache[CacheOf[c]], pin |-> pin, tries |-> 0]]
    /\ UNCHANGED <<log, nextId, written, cache>>

\* The same in the next round of the retry loop, after the backoff.
Reload(c) ==
    /\ call[c].at = "reload"
    /\ Update(c, "query", cache[CacheOf[c]])
    /\ UNCHANGED <<log, nextId, written, cache>>

\* load has returned: a plain load is over, an action goes on to commit.
Loaded(c, got) ==
    IF call[c].kind = "load" THEN End(c) ELSE Update(c, "commit", got)

\* The store answers: replay.  A tombstone at the head ends the call: action
\* throws StreamClosedError.
Query(c) ==
    /\ call[c].at = "query"
    /\ LET E == Above(call[c].got)
           got == Load(call[c].got)
       IN  CASE Fillable(E) -> Update(c, "fill", got)
             [] ~Fillable(E) /\ Closed(E) -> End(c)
             [] OTHER -> Loaded(c, got)
    /\ UNCHANGED <<log, nextId, written, cache>>

\* load writes its checkpoint.
Fill(c) ==
    /\ call[c].at = "fill"
    /\ Remember(CacheOf[c], call[c].got)
    /\ Loaded(c, call[c].got)
    /\ UNCHANGED <<log, nextId, written>>

\* Mutant of Expected: a warm load leaves the commit without a check.
UncheckedWarm(cl) == IF cl.kind = "pinned" THEN cl.pin ELSE -1
\* The version commit must find; -1 is undefined, no check: a reaction, and
\* an action that found no stream.
Expected(cl) ==
    CASE cl.kind = "react" -> -1
      [] cl.kind = "pinned" -> cl.pin
      [] OTHER -> cl.got.version
Accepts(expected) == expected \in {-1, HeadVersion}

\* What one commit appends, and the row numbers it takes.
Rows(names) ==
    {[id |-> nextId + i - 1, version |-> HeadVersion + i, name |-> names[i], state |-> {}] :
        i \in DOMAIN names}
Append1(name, state) ==
    [id |-> nextId, version |-> HeadVersion + 1, name |-> name, state |-> state]

\* Mutant of Contiguous: every commit counts as following the loaded version.
AlwaysContiguous(got) == TRUE
\* Whether the first row committed now extends the version the call loaded.
Contiguous(got) == HeadVersion = got.version

\* The store accepts the events.  A commit that landed past events this call
\* never folded is not remembered, the entry is dropped instead; the snap
\* predicate is the application's.
Commit(c, names) ==
    LET rows == Rows(names)
        got == [state |-> call[c].got.state \cup IdsOf(rows),
                version |-> HeadVersion + Len(names), id |-> nextId + Len(names) - 1]
    IN  /\ call[c].at = "commit"
        /\ Accepts(Expected(call[c]))
        /\ got.id <= MaxId
        /\ log' = log \cup rows
        /\ nextId' = nextId + Len(names)
        /\ written' = written \cup IdsOf(rows)
        /\ IF Contiguous(call[c].got)
           THEN /\ \E at \in {"snap", "put"} : Update(c, at, got)
                /\ UNCHANGED cache
           ELSE Forget(CacheOf[c]) /\ End(c)

\* A pinned action is never retried, another one maxRetries times.
GivesUp(cl) == cl.kind = "pinned" \/ cl.tries = MaxRetries

\* The store refuses: ConcurrencyError.  The entry is dropped, and an action
\* with retries left reloads.
Conflict(c) ==
    /\ call[c].at = "commit"
    /\ ~Accepts(Expected(call[c]))
    /\ Forget(CacheOf[c])
    /\ IF GivesUp(call[c]) THEN End(c)
       ELSE call' = [call EXCEPT ![c].at = "reload", ![c].got = Nothing, ![c].tries = @ + 1]
    /\ UNCHANGED <<log, nextId, written>>

\* Mutant of SnapAccepts: the snapshot goes to the head, wherever that is.
SnapAnywhere(got) == TRUE
SnapAccepts(got) == got.version = HeadVersion

\* snap: the snapshot takes the version after the action's last event, or is
\* given up; the action does not fail on it.
Snap(c) ==
    LET got == call[c].got
        row == Append1(SNAP_EVENT, got.state)
    IN  /\ call[c].at = "snap"
        /\ \/ /\ SnapAccepts(got) /\ nextId <= MaxId
              /\ log' = log \cup {row}
              /\ nextId' = nextId + 1
              /\ Update(c, "put", [state |-> got.state, version |-> row.version,
                                id |-> row.id])
           \/ /\ Update(c, "put", got)
              /\ UNCHANGED <<log, nextId>>
        /\ UNCHANGED <<written, cache>>

\* The action's checkpoint reaches the cache, or never does.
Put(c) ==
    /\ call[c].at = "put"
    /\ Remember(CacheOf[c], call[c].got)
    /\ End(c)
    /\ UNCHANGED <<log, nextId, written>>

\* The call ends early: an invariant fails, no event is emitted, the process
\* dies.
Stop(c) ==
    /\ call[c].at # "idle"
    /\ End(c)
    /\ UNCHANGED <<log, nextId, written, cache>>

\* The cache drops the entry, by its size limit or by a late invalidate.
Evict(k) ==
    /\ cache[k] # Nothing
    /\ cache' = [cache EXCEPT ![k] = Nothing]
    /\ UNCHANGED <<log, nextId, written, call>>

Step(c) ==
    \/ \E kind \in Kinds[c] : Begin(c, kind)
    \/ Reload(c) \/ Query(c) \/ Fill(c)
    \/ \E n \in 1 .. Batch : \E names \in [1 .. n -> Names] : Commit(c, names)
    \/ Conflict(c) \/ Snap(c) \/ Put(c) \/ Stop(c)

Next == (\E c \in Calls : Step(c)) \/ (\E k \in Caches : Evict(k))

Spec == Init /\ [][Next]_sourcing

-----------------------------------------------------------------------------
(* Properties.                                                             *)

\* Every variable has its type.
TypeOK ==
    /\ log \subseteq Event
    /\ nextId \in 0 .. MaxId + 1
    /\ written \subseteq Ids
    /\ cache \in [Caches -> Folded]
    /\ call \in [Calls -> Call]

UpTo(id) == {i \in written : i <= id}

\* A cache entry, whoever wrote it and however late, holds the fold of the
\* events at or below its id (cache-and-snapshots.md, integrity contract).
CacheFaithful == \A k \in Caches : cache[k].state = UpTo(cache[k].id)

\* A snapshot event holds the fold of the events before it: none is written
\* from a fold that missed an interleaved event (event-sourcing.ts, snap).
SnapshotFaithful ==
    \A e \in log : e.name = SNAP_EVENT => e.state = UpTo(e.id)

\* A retired stream is a tombstone alone.
Retired == log # {} /\ \A e \in log : e.name = TOMBSTONE_EVENT

\* From no entry, from any cache and from any checkpoint a call has in hand, a
\* load replays to the whole history, whatever was snapshotted or pruned
\* since that checkpoint was taken (load's warm path, #1345).
LoadsAreCurrent ==
    \/ Retired
    \/ \A base \in {Nothing} \cup {cache[k] : k \in Caches}
                   \cup {call[c].got : c \in {d \in Calls : call[d].at = "query"}} :
          Load(base).state = written

\* An action that found the stream commits only on the state it decided on:
\* never a silent append past unfolded events (behavior-contracts.md).
DecidedOnHead ==
    [][\A c \in Calls :
          /\ call[c].at = "commit" /\ written' # written
          /\ call'[c] # call[c]
          /\ call[c].kind \in {"act", "pinned"} /\ call[c].got # Nothing
          => call[c].got.state = written]_sourcing
=============================================================================
