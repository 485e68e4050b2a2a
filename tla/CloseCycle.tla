------------------------------ MODULE CloseCycle ------------------------------
(***************************************************************************)
(* Closing the books of the stream of EventSourcing while calls go on: the *)
(* full close (scan, safety probe, tombstone guard, restart seed, archive, *)
(* truncate) and the windowed close (prune behind a snapshot), retried     *)
(* after any interruption (close-cycle.ts), against correlate and one      *)
(* consumer of the stream.                                                 *)
(*                                                                         *)
(* One action per await.  Correlate is one step that advances its          *)
(* checkpoint and marks the consumer's row (module Wakeup has its inside), *)
(* the consumer handles one event at a time (module Drain has its inside). *)
(***************************************************************************)
EXTENDS EventSourcing

CONSTANTS Closers,      \* closes that may be in flight together, in one process
          Policies,     \* the practices considered, see Policy
          CloserCache,  \* the cache of that process
          Reactive      \* names of the events the consumer reacts to

CloseModes == {"restart", "retire", "window"}

\* How the application works: what each closer is asked for, its calls and what
\* they commit, and whether the full close is kept from two races it is known to
\* lose.
Policy == [modes : [Closers -> SUBSET CloseModes],
           kinds : SUBSET CallKinds, names : SUBSET Names,
           alone : BOOLEAN,        \* nothing is committed between the reads of a scan
           straddling : BOOLEAN]   \* a full close may overtake a commit in flight

ASSUME CloseAssumption ==
    /\ Policies \subseteq Policy
    /\ CloserCache \in Caches
    /\ Reactive \subseteq Names

VARIABLES
    policy,       \* the application's, for good
    row,          \* the consumer's subscription: at, and mark, -1 when unmarked
    checkpoint,   \* correlate's
    archived,     \* history: the domain events an archive callback has seen
    closer        \* [Closers -> the local variables of the close]

closing == <<policy, row, checkpoint, archived, closer>>
vars == <<sourcing, closing>>

ClosePhases == {"idle", "markers", "domain", "version", "catchup", "probe",
                "guard", "seed", "archive", "truncate", "warm",
                "checkpoint", "cap", "pending", "keep", "prune"}

Closer == [at : ClosePhases, mode : CloseModes,
           resumed : BOOLEAN,     \* resumed_guard
           head : Position,       \* max_id; the seed's id after truncate
           version : Position,    \* what the guard expects
           state : SUBSET Ids,    \* the restart seed
           before : 0 .. MaxId + 1, cap : Position]

Away == [at |-> "idle", mode |-> "retire", resumed |-> FALSE, head |-> -1,
         version |-> -1, state |-> {}, before |-> 0, cap |-> -1]

CloseInit ==
    /\ Init
    /\ policy \in Policies
    /\ row = [at |-> -1, mark |-> -1]
    /\ checkpoint = -1
    /\ archived = {}
    /\ closer = [k \in Closers |-> Away]

-----------------------------------------------------------------------------
(* Correlate and the consumer.                                             *)

Larger(a, b) == IF a > b THEN a ELSE b

\* Mutant of Wanted: the position after each event.
NextAfter(a, b) ==
    {e.id + 1 : e \in {f \in log : f.name \in Reactive /\ a < f.id /\ f.id <= b}}
\* Ids of the consumer's events in (a, b].
Wanted(a, b) == {e.id : e \in {f \in log : f.name \in Reactive /\ a < f.id /\ f.id <= b}}

Correlate ==
    /\ \E e \in log :
          /\ e.name # SNAP_EVENT /\ e.id > checkpoint
          /\ checkpoint' = e.id
          /\ row' = [row EXCEPT !.mark =
                CHOOSE m \in Wanted(checkpoint, e.id) \cup {@} :
                    \A n \in Wanted(checkpoint, e.id) \cup {@} : n <= m]
    /\ UNCHANGED <<policy, sourcing, archived, closer>>

HasWork == row.at < row.mark

\* The next marked event is handled and acked; when none is left in the log
\* the row is moved to its mark.
Handle ==
    /\ HasWork
    /\ LET due == Wanted(row.at, row.mark)
       IN  row' = [row EXCEPT !.at =
                     IF due = {} THEN row.mark
                     ELSE CHOOSE i \in due : \A j \in due : i <= j]
    /\ UNCHANGED <<policy, sourcing, checkpoint, archived, closer>>

-----------------------------------------------------------------------------
(* The full close.                                                         *)

At(k, at) == closer[k].at = at
Go(k, cl) == closer' = [closer EXCEPT ![k] = cl]
Goto(k, at) == closer' = [closer EXCEPT ![k].at = at]
Leave(k) == Go(k, Away)

\* A close is requested.  The cutoff of a windowed one is the present, from
\* where its first read may be any time away.
Start(k) ==
    /\ At(k, "idle")
    /\ \E mode \in policy.modes[k] :
          Go(k, IF mode = "window"
                THEN [Away EXCEPT !.at = "checkpoint", !.mode = mode, !.before = nextId]
                ELSE [Away EXCEPT !.at = "markers", !.mode = mode])
    /\ UNCHANGED <<policy, sourcing, row, checkpoint, archived>>

\* scan_stream_heads asks three times: is the head without snapshots a
\* tombstone, which is the last domain event, which is the true version.
ScanMarkers(k) ==
    /\ At(k, "markers")
    /\ Go(k, [closer[k] EXCEPT !.at = "domain",
                !.resumed = Closed({e \in log : e.name # SNAP_EVENT})])
    /\ UNCHANGED <<policy, sourcing, row, checkpoint, archived>>

ScanDomain(k) ==
    /\ At(k, "domain")
    /\ IF Domain(log) = {} THEN Leave(k)
       ELSE Go(k, [closer[k] EXCEPT !.at = "version", !.head = Latest(Domain(log)).id])
    /\ UNCHANGED <<policy, sourcing, row, checkpoint, archived>>

ScanVersion(k) ==
    /\ At(k, "version")
    /\ Go(k, [closer[k] EXCEPT !.at = "catchup", !.version = HeadVersion])
    /\ UNCHANGED <<policy, sourcing, row, checkpoint, archived>>

\* The catch-up correlates, a bounded number of windows; a stream whose head
\* is still above the checkpoint is skipped.
CatchUp(k) ==
    /\ At(k, "catchup")
    /\ IF checkpoint < closer[k].head THEN Leave(k) ELSE Goto(k, "probe")
    /\ UNCHANGED <<policy, sourcing, row, checkpoint, archived>>

\* Mutant of Waits: no consumer is waited for.
NoProbe(head) == FALSE
\* The consumer has work below the head.
Waits(head) == HasWork /\ row.at < head

Probe(k) ==
    /\ At(k, "probe")
    /\ IF Waits(closer[k].head) THEN Leave(k) ELSE Goto(k, "guard")
    /\ UNCHANGED <<policy, sourcing, row, checkpoint, archived>>

\* Actions that have loaded the stream and whose commits, or snapshots, are
\* still to come.
Decided == {c \in Calls : call[c].at \in {"fill", "commit", "snap"} /\ call[c].kind # "load"}

\* Mutant of AfterGuard: a retired stream is not archived.
SkipArchive(mode) == IF mode = "restart" THEN "seed" ELSE "truncate"
AfterGuard(mode) == IF mode = "restart" THEN "seed" ELSE "archive"

\* The tombstone, with a version check; the guard of an interrupted close is
\* taken over as it is.
Guard(k) ==
    /\ At(k, "guard")
    /\ \/ /\ closer[k].resumed
          /\ Goto(k, AfterGuard(closer[k].mode))
          /\ UNCHANGED <<log, nextId>>
       \/ /\ ~closer[k].resumed /\ closer[k].version = HeadVersion
          /\ nextId <= MaxId
          /\ policy.straddling \/ \A c \in Decided : Expected(call[c]) # -1
          /\ log' = log \cup {Append1(TOMBSTONE_EVENT, {})}
          /\ nextId' = nextId + 1
          /\ Goto(k, AfterGuard(closer[k].mode))
       \/ /\ ~closer[k].resumed /\ closer[k].version # HeadVersion
          /\ Leave(k)
          /\ UNCHANGED <<log, nextId>>
    /\ UNCHANGED <<policy, written, cache, call, row, checkpoint, archived>>

\* load of the guarded stream.
Seed(k) ==
    /\ At(k, "seed")
    /\ LET base == cache[CloserCache]
       IN  /\ Go(k, [closer[k] EXCEPT !.at = "archive", !.state = Load(base).state])
           /\ IF Fillable(Above(base)) THEN Remember(CloserCache, Load(base))
              ELSE UNCHANGED cache
    /\ UNCHANGED <<policy, log, nextId, written, call, row, checkpoint, archived>>

Archive(k) ==
    /\ At(k, "archive")
    /\ archived' = archived \cup IdsOf(Domain(log))
    /\ Goto(k, "truncate")
    /\ UNCHANGED <<policy, sourcing, row, checkpoint>>

\* All rows go, and one seed takes version 0.
Truncate(k) ==
    /\ At(k, "truncate")
    /\ nextId <= MaxId
    /\ policy.straddling \/ Decided = {}
    /\ log' = {[id |-> nextId, version |-> 0,
                name |-> IF closer[k].mode = "restart" THEN SNAP_EVENT ELSE TOMBSTONE_EVENT,
                state |-> closer[k].state]}
    /\ nextId' = nextId + 1
    /\ Go(k, [closer[k] EXCEPT !.at = "warm", !.head = nextId])
    /\ UNCHANGED <<policy, written, cache, call, row, checkpoint, archived>>

Warm(k) ==
    /\ At(k, "warm")
    /\ cache' = [cache EXCEPT ![CloserCache] =
                    IF closer[k].mode = "restart"
                    THEN [state |-> closer[k].state, version |-> 0, id |-> closer[k].head]
                    ELSE Nothing]
    /\ Leave(k)
    /\ UNCHANGED <<policy, log, nextId, written, call, row, checkpoint, archived>>

-----------------------------------------------------------------------------
(* The windowed close.                                                     *)

ReadCheckpoint(k) ==
    /\ At(k, "checkpoint")
    /\ Go(k, [closer[k] EXCEPT !.at = "cap", !.cap = checkpoint])
    /\ UNCHANGED <<policy, sourcing, row, checkpoint, archived>>

\* How far the consumer permits a prune: with work or unmarked to where it
\* is, otherwise to the checkpoint read before.
Cap(upto) == IF row.mark = -1 \/ HasWork THEN row.at ELSE Larger(row.at, upto)

ProbeCap(k) ==
    /\ At(k, "cap")
    /\ Go(k, [closer[k] EXCEPT !.at = "pending", !.cap = Cap(closer[k].cap)])
    /\ UNCHANGED <<policy, sourcing, row, checkpoint, archived>>

\* What a prune removes: the rows below the latest snapshot that is older
\* than the cutoff and not above the cap.  Creation times are in id order.
Prefix(cl) ==
    LET fit == {e \in log : e.name = SNAP_EVENT /\ e.id < cl.before /\ e.id <= cl.cap}
    IN  IF fit = {} THEN {} ELSE {e \in log : e.id < Latest(fit).id}

\* Mutant of LockFree: the archive and the prune are not one critical section.
NoLock == TRUE
\* The per-stream close lock.
LockFree == \A k \in Closers : closer[k].at \notin {"keep", "prune"}

\* Under the lock from here on: is there anything to prune?
Pending(k) ==
    /\ At(k, "pending")
    /\ LockFree
    /\ IF Prefix(closer[k]) = {} THEN Leave(k) ELSE Goto(k, "keep")
    /\ UNCHANGED <<policy, sourcing, row, checkpoint, archived>>

\* The archive callback is given the cutoff.
Keep(k) ==
    /\ At(k, "keep")
    /\ archived' = archived \cup IdsOf({e \in Domain(log) : e.id < closer[k].before})
    /\ Goto(k, "prune")
    /\ UNCHANGED <<policy, sourcing, row, checkpoint>>

Prune(k) ==
    /\ At(k, "prune")
    /\ log' = log \ Prefix(closer[k])
    /\ Leave(k)
    /\ UNCHANGED <<policy, nextId, written, cache, call, row, checkpoint, archived>>

-----------------------------------------------------------------------------

\* A store call fails, an archive callback throws, the process dies.
Interrupt(k) ==
    /\ ~At(k, "idle")
    /\ Leave(k)
    /\ UNCHANGED <<policy, sourcing, row, checkpoint, archived>>

Scanning == \E k \in Closers : closer[k].at \in {"domain", "version"}

CallStep ==
    /\ \E c \in Calls : Step(c)
    /\ \A c \in Calls : call'[c].at # "idle" => call'[c].kind \in policy.kinds
    /\ \A e \in log' \ log : e.name \in Names => e.name \in policy.names
    /\ policy.alone /\ Scanning => UNCHANGED log
    /\ UNCHANGED closing

CloseStep(k) ==
    \/ Start(k) \/ ScanMarkers(k) \/ ScanDomain(k) \/ ScanVersion(k)
    \/ CatchUp(k) \/ Probe(k) \/ Guard(k) \/ Seed(k) \/ Archive(k)
    \/ Truncate(k) \/ Warm(k)
    \/ ReadCheckpoint(k) \/ ProbeCap(k) \/ Pending(k) \/ Keep(k) \/ Prune(k)
    \/ Interrupt(k)

CloseNext ==
    \/ CallStep
    \/ (\E k \in Caches : Evict(k)) /\ UNCHANGED closing
    \/ Correlate \/ Handle
    \/ \E k \in Closers : CloseStep(k)

CloseSpec == CloseInit /\ [][CloseNext]_vars

-----------------------------------------------------------------------------
(* Properties.                                                             *)

\* Every variable has its type.
CloseTypeOK ==
    /\ TypeOK
    /\ policy \in Policies
    /\ row \in [at : Position, mark : Position]
    /\ checkpoint \in Position
    /\ archived \subseteq Ids
    /\ closer \in [Closers -> Closer]

\* From the tombstone to the truncation the guard stays the head: no writer
\* lands an event behind it (close-cycle.md, Phase 3).
GuardHolds ==
    \A k \in Closers : closer[k].at \in {"seed", "archive", "truncate"} => Closed(log)

\* Nothing is removed that the consumer has yet to handle, by a full close or
\* by a prune, however commits, marks and acks interleave with its probes.
NoReactionLost ==
    [][\A e \in log \ log' : e.name \in Reactive => e.id <= row.at]_vars

\* No domain event is removed that no archive callback has seen.
ArchivedBeforeDeleted ==
    [][\A e \in log \ log' : e.name \in Names => e.id \in archived]_vars

\* A windowed archive runs only while its prefix is still to be pruned: two
\* closers archive one range once (#1222).
ArchivedOnce ==
    [][\A k \in Closers : At(k, "keep") /\ closer'[k].at = "prune"
          => Prefix(closer[k]) # {}]_vars
=============================================================================
