-------------------------------- MODULE Drain --------------------------------
(***************************************************************************)
(* The drain: competing workers claim subscription rows under a lease,     *)
(* fetch the events past each row's watermark, run the reactions that      *)
(* resolve to the row, and finish the cycle with block and then ack.       *)
(* Leases run out, workers crash and operators reset, unblock and defer    *)
(* rows while cycles are in flight.                                        *)
(*                                                                         *)
(* One action per asynchronous step of run_drain_cycle: between two of     *)
(* them any other worker, operator or clock step may happen.               *)
(***************************************************************************)
EXTENDS StreamRow, ClaimFrontier

CONSTANTS Targets,      \* subscription rows (reaction target streams)
          Workers,      \* drain controllers, over all processes
          Kinds,        \* classes of events: origin stream and event name
          Reactions,    \* registered reactions
          Reacts,       \* [Targets -> [Kinds -> SUBSET Reactions]], the resolvers
          Fetches,      \* [Targets -> SUBSET Kinds], the row's source filter
          Sees,         \* [Workers -> SUBSET Targets], the lane filter of claim
          Batched,      \* targets served by a batch handler
          Priority,     \* [Targets -> Int]
          Options,      \* [Targets -> [blockOnError, maxRetries, backoff]]
          Throws,       \* what handlers may throw
          StreamLimit, EventLimit,
          FirstId,      \* id of the first event: 0 in memory, 1 in SQL
          Budget        \* [Charges -> Nat], how often each bounded event happens

Charges == {"commit", "overrun", "crash", "failure", "defer", "operator",
            "truncate"}

ASSUME DrainAssumption ==
    /\ Workers = Holders
    /\ Reacts \in [Targets -> [Kinds -> SUBSET Reactions]]
    /\ Fetches \in [Targets -> SUBSET Kinds]
    /\ Sees \in [Workers -> SUBSET Targets]
    /\ Batched \subseteq Targets
    /\ Priority \in [Targets -> Int]
    /\ Options \in [Targets -> [blockOnError : BOOLEAN, maxRetries : Nat,
                                backoff : BOOLEAN]]
    /\ Throws \subseteq {"error", "fatal", "mute", "defer", "close"}
    /\ StreamLimit \in Nat /\ EventLimit \in Nat \ {0}
    /\ FirstId \in {0, 1}
    /\ Budget \in [Charges -> Nat]

VARIABLES
    log,        \* committed events still in the store: [id, kind]
    nextId,
    scanned,    \* correlate has marked every event up to this id
    rows,       \* [Targets -> Row]
    phase,      \* [Workers -> Phases], where the worker's cycle stands
    claimed,    \* [Workers -> SUBSET Targets], the leases of the cycle
    entry,      \* [Workers -> [Targets -> Entry]], their HandleResults so far
    accounted,  \* history: reactions that ran, or were given up by a close, since reset
    tally,      \* history: [runs, fatal], attempts and fatal errors under a held
                \* lease since the row last progressed or was forgiven
    left        \* what is left of Budget

vars == <<log, nextId, scanned, rows, phase, claimed, entry, accounted, tally,
          left>>

Phases == {"idle", "fetch", "handle", "ack"}
Outcomes == {"none", "leased", "fetched", "run", "ok", "retry", "backoff",
             "block", "mute", "mute_block", "exhausted", "defer", "close"}
Events == [id : Nat, kind : Kinds]
Entry == [floor : Position, retry : Position, batch : SUBSET Events,
          upto : Position, at : Position, done : SUBSET Reactions,
          handled : BOOLEAN, out : Outcomes]

Clean == [runs |-> 0, fatal |-> 0]

NoEntry == [floor |-> -1, retry |-> -1, batch |-> {}, upto |-> -1, at |-> -1,
            done |-> {}, handled |-> FALSE, out |-> "none"]

\* The stages of a HandleResult: leased, fetched, given a position, one more
\* reaction run, one more event completed, closed up to an id, settled.
GrantEntry(row) == [floor |-> row.at, retry |-> row.retry + 1, batch |-> {},
                    upto |-> row.at, at |-> row.at, done |-> {},
                    handled |-> FALSE, out |-> "leased"]
FetchEntry(h, batch) == [h EXCEPT !.batch = batch, !.out = "fetched"]
AimEntry(h, at, out) == [h EXCEPT !.at = at, !.out = out]
RunEntry(h, ran) == [h EXCEPT !.done = ran]
PassEntry(h, id, out) == [h EXCEPT !.done = {}, !.handled = TRUE, !.at = id,
                                   !.upto = id, !.out = out]
CloseEntry(h, id) == [h EXCEPT !.at = id, !.handled = TRUE, !.out = "close"]
EndEntry(h, out) == [h EXCEPT !.out = out]

Post(w, t, h) == entry' = [entry EXCEPT ![w][t] = h]

Charge(c) == left[c] > 0 /\ left' = [left EXCEPT ![c] = @ - 1]

Ids(S) == {e.id : e \in S}
MaxId(S) == CHOOSE n \in Ids(S) : \A m \in Ids(S) : m <= n

\* An event the row's fetch returns and one of its reactions handles.
Deliverable(t, e) == e.kind \in Fetches[t] /\ Reacts[t][e.kind] # {}

\* What a fetch with a limit returns: the first EventLimit events past floor.
Window(t, floor) ==
    LET past == {e \in log : e.kind \in Fetches[t] /\ e.id > floor}
    IN  {e \in past :
            Cardinality({f \in past : f.id <= e.id}) <= EventLimit}

Payloads(t, batch) == {e \in batch : Reacts[t][e.kind] # {}}

\* events.at(-1)?.id || other: an id of 0 counts as no event at all.
LastIdOr(batch, other) ==
    IF batch = {} \/ MaxId(batch) = 0 THEN other ELSE MaxId(batch)

\* fetch_window_at: the highest position any lease of the cycle has reached.
FetchWindowAt(w) ==
    LET reached == {0} \union
            {LastIdOr(entry[w][t].batch, entry[w][t].floor) : t \in claimed[w]}
    IN  CHOOSE n \in reached : \A m \in reached : m <= n

Ceiling(w, t) == LastIdOr(entry[w][t].batch, FetchWindowAt(w))

\* Mutant of Exhausted: no check of the budget before dispatch.
NoBudgetGate(w, t) == FALSE
\* budget_exhausted: claimed once too often, and a payload to take options from.
Exhausted(w, t) ==
    /\ Payloads(t, entry[w][t].batch) # {}
    /\ Options[t].blockOnError
    /\ entry[w][t].retry > Options[t].maxRetries

\* The verdict of finalize on a thrown error: a NonRetryableError is "fatal", an
\* error whose message is empty or missing is "mute".
Verdict(t, retry, how) ==
    LET block == /\ Options[t].blockOnError
                 /\ how = "fatal" \/ retry >= Options[t].maxRetries
    IN  IF block THEN (IF how = "mute" THEN "mute_block" ELSE "block")
        ELSE IF Options[t].backoff THEN "backoff"
        ELSE IF how = "mute" THEN "mute" ELSE "retry"

\* The events of the batch the handler has not completed, oldest first.
Remaining(w, t) ==
    {e \in Payloads(t, entry[w][t].batch) : e.id > entry[w][t].upto}
Current(w, t) ==
    CHOOSE e \in Remaining(w, t) : \A f \in Remaining(w, t) : e.id <= f.id

Init ==
    /\ log = {} /\ nextId = FirstId /\ scanned = -1
    /\ rows = [t \in Targets |-> NewRow]
    /\ phase = [w \in Workers |-> "idle"]
    /\ claimed = [w \in Workers |-> {}]
    /\ entry = [w \in Workers |-> [t \in Targets |-> NoEntry]]
    /\ accounted = [t \in Targets |-> {}]
    /\ tally = [t \in Targets |-> Clean]
    /\ left = Budget

-----------------------------------------------------------------------------
(* The rest of the system: writers, correlate, clocks, operators, crashes. *)

Commit(k) ==
    /\ Charge("commit")
    /\ log' = log \union {[id |-> nextId, kind |-> k]}
    /\ nextId' = nextId + 1
    /\ UNCHANGED <<scanned, rows, phase, claimed, entry, accounted, tally>>

\* One correlate pass reads up to id n and marks the targets it resolved.
Correlate(n) ==
    /\ n > scanned /\ n < nextId
    /\ scanned' = n
    /\ rows' = [t \in Targets |->
                  LET found == {e \in log : Deliverable(t, e) /\ e.id > scanned
                                                              /\ e.id <= n}
                  IN  IF found = {} THEN rows[t]
                      ELSE MarkRow(rows[t], MaxId(found))]
    /\ UNCHANGED <<log, nextId, phase, claimed, entry, accounted, tally, left>>

\* Is the holder of the row's lease still working under it?
AtWork(t) == \E w \in Workers : t \in claimed[w] /\ Holds(rows[t], w)

\* leased_until passes: while the holder is still busy, or after it is gone.
Overrun(t) ==
    /\ rows[t].live /\ AtWork(t) /\ Charge("overrun")
    /\ rows' = [rows EXCEPT ![t].live = FALSE]
    /\ UNCHANGED <<log, nextId, scanned, phase, claimed, entry, accounted, tally>>

Lapse(t) ==
    /\ rows[t].live /\ ~AtWork(t)
    /\ rows' = [rows EXCEPT ![t].live = FALSE]
    /\ UNCHANGED <<log, nextId, scanned, phase, claimed, entry, accounted, tally,
                   left>>

\* deferred_at passes.
Due(t) ==
    /\ rows[t].deferred
    /\ rows' = [rows EXCEPT ![t].deferred = FALSE]
    /\ UNCHANGED <<log, nextId, scanned, phase, claimed, entry, accounted, tally,
                   left>>

Reset(S) ==
    /\ S # {} /\ Charge("operator")
    /\ rows' = [t \in Targets |-> IF t \in S THEN ResetRow(rows[t]) ELSE rows[t]]
    /\ accounted' = [t \in Targets |-> IF t \in S THEN {} ELSE accounted[t]]
    /\ tally' = [t \in Targets |-> IF t \in S THEN Clean ELSE tally[t]]
    /\ UNCHANGED <<log, nextId, scanned, phase, claimed, entry>>

Unblock(S) ==
    LET hit == {t \in S : rows[t].blocked}
    IN  /\ hit # {} /\ Charge("operator")
        /\ rows' = [t \in Targets |->
                      IF t \in hit THEN UnblockRow(rows[t]) ELSE rows[t]]
        /\ tally' = [t \in Targets |-> IF t \in hit THEN Clean ELSE tally[t]]
        /\ UNCHANGED <<log, nextId, scanned, phase, claimed, entry, accounted>>

Defer(S) ==
    /\ S # {} /\ Charge("operator")
    /\ rows' = [t \in Targets |-> IF t \in S THEN DeferRow(rows[t]) ELSE rows[t]]
    /\ tally' = [t \in Targets |-> IF t \in S THEN Clean ELSE tally[t]]
    /\ UNCHANGED <<log, nextId, scanned, phase, claimed, entry, accounted>>

\* The process dies: its leases stay in the store until they run out.
Crash(w) ==
    /\ phase[w] # "idle" /\ Charge("crash")
    /\ phase' = [phase EXCEPT ![w] = "idle"]
    /\ claimed' = [claimed EXCEPT ![w] = {}]
    /\ entry' = [entry EXCEPT ![w] = [t \in Targets |-> NoEntry]]
    /\ UNCHANGED <<log, nextId, scanned, rows, accounted, tally>>

\* A close removes events that no subscription is still waiting for.
Truncate(k, n) ==
    LET gone == {e \in log : e.kind = k /\ e.id <= n}
    IN  /\ gone # {} /\ Charge("truncate")
        /\ \A t \in Targets, e \in gone : Deliverable(t, e) => e.id <= rows[t].at
        /\ log' = log \ gone
        /\ UNCHANGED <<nextId, scanned, rows, phase, claimed, entry, accounted,
                       tally>>

-----------------------------------------------------------------------------
(* A worker's drain cycle.                                                 *)

\* claim: take a frontier of the available rows that have work.
Claim(w) ==
    LET able == {t \in Sees[w] : IsAvailable(rows[t]) /\ HasWork(rows[t])}
        at == [t \in Targets |-> rows[t].at]
    IN  /\ phase[w] = "idle"
        /\ \E split \in Splits(StreamLimit) :
           \E S \in Frontiers(able, at, Priority, split[1], split[2]) :
             /\ S # {}
             /\ rows' = [t \in Targets |->
                           IF t \in S THEN LeaseRow(rows[t], w) ELSE rows[t]]
             /\ claimed' = [claimed EXCEPT ![w] = S]
             /\ entry' = [entry EXCEPT ![w] = [t \in Targets |->
                  IF t \in S THEN GrantEntry(rows[t]) ELSE NoEntry]]
        /\ phase' = [phase EXCEPT ![w] = "fetch"]
        /\ UNCHANGED <<log, nextId, scanned, accounted, tally, left>>

\* fetch queries each leased row on its own; the answers come in any order.
Fetch(w, t) ==
    /\ phase[w] = "fetch" /\ t \in claimed[w] /\ entry[w][t].out = "leased"
    /\ Post(w, t, FetchEntry(entry[w][t], Window(t, entry[w][t].floor)))
    /\ UNCHANGED <<log, nextId, scanned, rows, phase, claimed, accounted, tally,
                   left>>

\* All fetches are in: fast-forward positions, spent budgets, empty payloads.
Dispatch(w) ==
    /\ phase[w] = "fetch"
    /\ \A t \in claimed[w] : entry[w][t].out = "fetched"
    /\ phase' = [phase EXCEPT ![w] = "handle"]
    /\ entry' = [entry EXCEPT ![w] = [t \in Targets |->
         IF t \notin claimed[w] THEN NoEntry
         ELSE IF Exhausted(w, t) THEN EndEntry(entry[w][t], "exhausted")
         ELSE AimEntry(entry[w][t], Ceiling(w, t),
                IF Payloads(t, entry[w][t].batch) = {} THEN "ok" ELSE "run")]]
    /\ tally' = [t \in Targets |->
         IF entry'[w][t].out = "run" /\ Holds(rows[t], w)
         THEN [tally[t] EXCEPT !.runs = @ + 1] ELSE tally[t]]
    /\ UNCHANGED <<log, nextId, scanned, rows, claimed, accounted, left>>

Running(w, t) == phase[w] = "handle" /\ t \in claimed[w] /\ entry[w][t].out = "run"

\* Mutant of Completes: the first reaction of an event moves the position.
FirstOfGroup(t, e, ran) == TRUE
\* last_index_of: the event's last reaction has run.
Completes(t, e, ran) == ran = Reacts[t][e.kind]

\* A reaction returns.  The position moves only once every reaction of the
\* event has run.
React(w, t, r) ==
    /\ Running(w, t) /\ t \notin Batched
    /\ LET e == Current(w, t)
           ran == entry[w][t].done \union {r}
       IN  /\ r \in Reacts[t][e.kind] \ entry[w][t].done
           /\ accounted' = [accounted EXCEPT ![t] = @ \union {<<e.id, r>>}]
           /\ Post(w, t, IF Completes(t, e, ran)
                THEN PassEntry(entry[w][t], e.id,
                       IF Remaining(w, t) = {e} THEN "ok" ELSE "run")
                ELSE RunEntry(entry[w][t], ran))
    /\ UNCHANGED <<log, nextId, scanned, rows, phase, claimed, tally, left>>

\* A batch handler returns: the whole batch in one call.
ReactBatch(w, t) ==
    /\ Running(w, t) /\ t \in Batched
    /\ LET batch == Payloads(t, entry[w][t].batch)
       IN  /\ accounted' = [accounted EXCEPT ![t] =
                @ \union UNION {{e.id} \X Reacts[t][e.kind] : e \in batch}]
           /\ Post(w, t, PassEntry(entry[w][t], MaxId(batch), "ok"))
    /\ UNCHANGED <<log, nextId, scanned, rows, phase, claimed, tally, left>>

\* A handler throws an error.
Throw(w, t, how) ==
    /\ Running(w, t) /\ how \in Throws \intersect {"error", "fatal", "mute"}
    /\ Charge("failure")
    /\ Post(w, t, EndEntry(entry[w][t],
                   Verdict(t, entry[w][t].retry, how)))
    /\ tally' = IF Holds(rows[t], w) /\ how = "fatal"
                THEN [tally EXCEPT ![t].fatal = @ + 1] ELSE tally
    /\ UNCHANGED <<log, nextId, scanned, rows, phase, claimed, accounted>>

\* A handler throws DeferSignal.
AskDefer(w, t) ==
    /\ Running(w, t) /\ t \notin Batched /\ "defer" \in Throws /\ Charge("defer")
    /\ Post(w, t, EndEntry(entry[w][t], "defer"))
    /\ UNCHANGED <<log, nextId, scanned, rows, phase, claimed, accounted, tally>>

\* A handler throws CloseSignal: everything up to the event, or up to the head
\* the handler looked at, is given up.
AskClose(w, t, n) ==
    /\ Running(w, t) /\ t \notin Batched /\ "close" \in Throws
    /\ n \in Ids(log) \union {Current(w, t).id} /\ n >= Current(w, t).id
    /\ Post(w, t, CloseEntry(entry[w][t], n))
    /\ accounted' = [accounted EXCEPT ![t] = @ \union
          UNION {{e.id} \X Reacts[t][e.kind] : e \in {f \in log : f.id <= n}}]
    /\ UNCHANGED <<log, nextId, scanned, rows, phase, claimed, tally, left>>

\* store.block, then (in a later step) store.ack.
Block(w) ==
    /\ phase[w] = "handle" /\ \A t \in claimed[w] : entry[w][t].out # "run"
    /\ phase' = [phase EXCEPT ![w] = "ack"]
    /\ rows' = [t \in Targets |->
         IF t \in claimed[w] /\ entry[w][t].out \in {"block", "mute_block", "exhausted"}
                             /\ CanBlock(rows[t], w)
         THEN BlockRow(rows[t]) ELSE rows[t]]
    /\ UNCHANGED <<log, nextId, scanned, claimed, entry, accounted, tally, left>>

\* Mutant of Advance: only full success moves the row.
AllOrNothing(h) == h.floor
\* Where the row goes: past what was handled, else nowhere.
Advance(h) == IF h.handled THEN h.at ELSE h.floor

\* Mutant of Finish: a failed attempt is acked like a successful one.
AckFailures(row, h) == AckRow(row, h.at)
\* What ack does to a row the worker still holds, given the row's result.  A
\* result without an error text counts as a success (handled > 0 || !error).
Finish(row, h) ==
    CASE h.out = "defer"   -> DueRow(row, Advance(h), -1)
      [] h.out = "backoff" -> DueRow(row, Advance(h), h.retry)
      [] h.out \in {"ok", "close", "mute", "mute_block"} -> AckRow(row, h.at)
      [] h.out \in {"retry", "block", "exhausted"} ->
            IF h.handled THEN AckRow(row, h.at) ELSE row
      [] OTHER -> row

Acks(w, t) == t \in claimed[w] /\ Holds(rows[t], w)

Ack(w) ==
    /\ phase[w] = "ack"
    /\ rows' = [t \in Targets |->
                  IF Acks(w, t) THEN Finish(rows[t], entry[w][t]) ELSE rows[t]]
    /\ tally' = [t \in Targets |->
         IF /\ Acks(w, t)
            /\ \/ entry[w][t].out \in {"ok", "defer", "close", "mute"}
               \/ entry[w][t].out \in {"retry", "backoff"} /\ entry[w][t].handled
         THEN Clean ELSE tally[t]]
    /\ phase' = [phase EXCEPT ![w] = "idle"]
    /\ claimed' = [claimed EXCEPT ![w] = {}]
    /\ entry' = [entry EXCEPT ![w] = [t \in Targets |-> NoEntry]]
    /\ UNCHANGED <<log, nextId, scanned, accounted, left>>

-----------------------------------------------------------------------------
Cycle(w) ==
    \/ Claim(w) \/ Dispatch(w) \/ Block(w) \/ Ack(w)
    \/ \E t \in Targets : \/ Fetch(w, t) \/ ReactBatch(w, t) \/ AskDefer(w, t)
                          \/ \E r \in Reactions : React(w, t, r)
                          \/ \E how \in Throws : Throw(w, t, how)
                          \/ \E n \in Ids(log) \union Ids(entry[w][t].batch) :
                                AskClose(w, t, n)

Environment ==
    \/ \E k \in Kinds : Commit(k)
    \/ \E n \in scanned + 1 .. nextId - 1 : Correlate(n)
    \/ \E t \in Targets : Overrun(t) \/ Lapse(t) \/ Due(t)
    \/ \E S \in SUBSET Targets : Reset(S) \/ Unblock(S) \/ Defer(S)
    \/ \E w \in Workers : Crash(w)
    \/ \E e \in log : Truncate(e.kind, e.id)

Next == Environment \/ \E w \in Workers : Cycle(w)

Spec == Init /\ [][Next]_vars

\* Fairness: a started cycle goes on and an idle worker is driven again; time
\* passes, so leases and defers run out; correlate keeps scanning.
Fairness ==
    /\ \A w \in Workers : WF_vars(Cycle(w))
    /\ \A t \in Targets : WF_vars(Lapse(t)) /\ WF_vars(Due(t))
    /\ WF_vars(\E n \in scanned + 1 .. nextId - 1 : Correlate(n))

FairSpec == Spec /\ Fairness

-----------------------------------------------------------------------------
(* Properties.                                                             *)

TypeOK ==
    /\ log \subseteq Events /\ nextId \in Nat /\ scanned \in Position
    /\ rows \in [Targets -> Row]
    /\ phase \in [Workers -> Phases]
    /\ claimed \in [Workers -> SUBSET Targets]
    /\ entry \in [Workers -> [Targets -> Entry]]
    /\ accounted \in [Targets -> SUBSET (Nat \X Reactions)]
    /\ tally \in [Targets -> [runs : Nat, fatal : Nat]]
    /\ left \in [Charges -> Nat]

\* At-least-once: a row's watermark is never past an event of which one of its
\* reactions has not run since the row was last rewound (acks, fast-forwards,
\* partial progress and stolen leases included).
NoSkip ==
    \A t \in Targets, e \in log :
        Deliverable(t, e) /\ e.id <= rows[t].at =>
            {e.id} \X Reacts[t][e.kind] \subseteq accounted[t]

\* The drain implements Delivery: watermarks only move forward over settled
\* events, and only an operator rewinds or releases a target.
Promise == INSTANCE Delivery WITH
    at <- [t \in Targets |-> rows[t].at],
    blocked <- [t \in Targets |-> rows[t].blocked]
KeepsPromise == Promise!Spec

\* Whoever still holds a row's lease works from the row's present watermark:
\* no evicted worker's late ack has moved the row under its new holder.
HolderIsCurrent ==
    \A w \in Workers, t \in Targets :
        t \in claimed[w] /\ Holds(rows[t], w) => entry[w][t].floor = rows[t].at

\* A watermark goes back only when an operator rewinds the row, whatever late
\* or duplicate finishes arrive.
OnlyResetRewinds ==
    [][\A t \in Targets :
          rows'[t].at < rows[t].at => rows'[t] = ResetRow(rows[t])]_vars

\* #1418: with blockOnError, and as long as no operator steps in, no handler is
\* run on a row more than maxRetries + 1 times without progress, even if every
\* attempt loses its lease or its process.
AttemptsBounded ==
    left["operator"] = Budget["operator"] =>
    \A t \in Targets :
        Options[t].blockOnError => tally[t].runs <= Options[t].maxRetries + 1

\* No lease was lost, no process died and no operator stepped in so far.
Undisturbed == \A c \in {"overrun", "crash", "operator"} : left[c] = Budget[c]

\* #1278: until a lease is lost, a process dies or an operator steps in, an
\* event all of whose reactions have run is not handled again, however the
\* rest of its batch fails or defers (targets with one reaction per event).
PrefixRunsOnce ==
    Undisturbed => \A w \in Workers, t \in Targets :
        Running(w, t) => \A e \in Remaining(w, t) :
            ~({e.id} \X Reacts[t][e.kind] \subseteq accounted[t])

\* #1296: until then, a row on which an attempt has thrown a NonRetryableError
\* is granted to no worker again, even when that attempt also had progress to
\* acknowledge after the block.
PoisonNotRetried ==
    Undisturbed => \A w \in Workers, t \in Targets :
        Running(w, t) /\ Holds(rows[t], w) => tally[t].fatal = 0

\* Every row is in the end either blocked or past all the events it must handle.
Drained(t) == \A e \in log : Deliverable(t, e) => e.id <= rows[t].at
EventuallyDrained == \A t \in Targets : <>[](rows[t].blocked \/ Drained(t))
=============================================================================
