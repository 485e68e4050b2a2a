------------------------------ MODULE Controller ------------------------------
(***************************************************************************)
(* What drives the reactions of one process through time and failure: the  *)
(* settle loop, a drain controller per lane, the defer timer of each, the  *)
(* circuit breaker they share and the orchestrator that boots them, seeds  *)
(* them from the store and shuts them down.                                *)
(*                                                                         *)
(* Time is counted down: a timer, a lease, a due date and a cooldown hold  *)
(* the ticks left, Off where there is none, and fire at 0 or later.  The   *)
(* process does not compete for its store; module Wakeup has the peers,    *)
(* the paging and the poller, and module Drain what a handler may do.      *)
(***************************************************************************)
EXTENDS Integers, Sequences, FiniteSetsExt

CONSTANTS Lanes, Streams,
          Setups,       \* the builds considered, see Setup
          Cooldown,     \* of the breaker
          Lease,        \* leaseMillis
          Ceiling,      \* longest delay a timer takes (setTimeout's 32 bits)
          Delays,       \* how far ahead handlers defer or back off
          Harsh         \* conditions under which the promises are known to fail

Outcomes == {"ok", "defer", "backoff", "fail"}
Calls == {"init", "scan", "claim", "ack"}
Budgeted == {"commit", "fault", "crash", "delay"}

\* A build and its circumstances: its lanes, those with a cycleMs, the breaker's
\* failureThreshold; whether the store answers later than it acts, whether
\* shutdown() is given a graceMs, the calls that may fail, what the handlers
\* return, and the bounds on commits, failures, crashes and outcomes other than
\* "ok".
Setup == [laneOf : [Streams -> Lanes], ticking : SUBSET Lanes, threshold : Nat \ {0},
          networked : BOOLEAN, grace : BOOLEAN, faulty : SUBSET Calls,
          outcomes : SUBSET Outcomes, budget : [Budgeted -> Nat]]

ASSUME ControllerAssumption ==
    /\ {Cooldown, Lease, Ceiling} \cup Delays \subseteq Nat \ {0}
    /\ Setups \subseteq Setup
    /\ Harsh \subseteq {"lost_arm", "lost_lease", "late_fault", "late_commit", "short_grace"}

VARIABLES
    setup,     \* the options the process was built with
    log,       \* target stream of each committed event
    scanned,   \* correlate checkpoint, durable with the marks
    row,       \* [Streams -> subscription row]
    app,       \* CorrelateCycle's flags and the orchestrator's life
    settle,    \* the settle loop
    ctl,       \* [Lanes -> drain controller]
    plan,      \* [Streams -> entry of its lane's defer map]
    breaker,
    left       \* what is left of the setup's budget

vars == <<setup, log, scanned, row, app, settle, ctl, plan, breaker, left>>

Off == -1
Countdown == Nat \cup {Off}
Row == [mark : Nat, at : Nat, due : Nat, held : Nat]

App == [inited : BOOLEAN, armed : BOOLEAN,
        life : {"up", "closing", "stopping", "down"}]

Settle == [timer : BOOLEAN, pending : BOOLEAN,
           at : {"rest", "init", "scan", "read", "mark", "marked", "drain"},
           upto : Nat,                   \* how far the scan under way has read
           progress : BOOLEAN,           \* made_progress so far in this pass
           waits : SUBSET Lanes]         \* drains the pass awaits

\* took maps a leased stream to its last event when it was fetched.
Ctl == [armed : BOOLEAN, at : {"idle", "claim", "reply", "work"},
        took : [Streams -> Nat], timer : Countdown]

\* cool is Off when closed, 0 when half-open.
Breaker == [count : Nat, cool : Countdown, wake : Countdown]

Nothing == [s \in Streams |-> 0]

\* The memory of a process as it boots; the application settles at once.
Boot ==
    [app |-> [inited |-> FALSE, armed |-> TRUE, life |-> "up"],
     settle |-> [timer |-> TRUE, pending |-> FALSE, at |-> "rest",
                 upto |-> 0, progress |-> FALSE, waits |-> {}],
     ctl |-> [l \in Lanes |-> [armed |-> FALSE, at |-> "idle", took |-> Nothing,
                              timer |-> Off]],
     plan |-> [s \in Streams |-> Off],
     breaker |-> [count |-> 0, cool |-> Off, wake |-> Off]]

Init ==
    /\ setup \in Setups
    /\ log = <<>> /\ scanned = 0
    /\ row = [s \in Streams |-> [mark |-> 0, at |-> 0, due |-> 0, held |-> 0]]
    /\ app = Boot.app /\ settle = Boot.settle /\ ctl = Boot.ctl
    /\ plan = Boot.plan /\ breaker = Boot.breaker
    /\ left = setup.budget

-----------------------------------------------------------------------------
(* Parts of the actions.                                                   *)

\* The last event of s among the first n, and in the whole log.
LastBy(s, n) == Max({i \in 1 .. n : log[i] = s} \cup {0})
LastOf(s) == LastBy(s, Len(log))

\* The lanes of the build.
Built == {setup.laneOf[s] : s \in Streams}

Of(l) == {s \in Streams : setup.laneOf[s] = l}

Claimable(s) == row[s].mark > row[s].at /\ row[s].due = 0 /\ row[s].held = 0

Passed == [count |-> 0, cool |-> Off, wake |-> Off]

\* Mutant of Failed: trials that fail are counted on.
CountsTrials(b) ==
    [b EXCEPT !.count = @ + 1,
              !.cool = IF b.count + 1 >= setup.threshold THEN Cooldown ELSE @,
              !.wake = IF b.count + 1 >= setup.threshold THEN Cooldown ELSE @]

\* Mutant of Failed: a trial that fails re-opens without another wake.
LastTrial(b) ==
    IF b.cool # Off THEN [b EXCEPT !.cool = Cooldown]
    ELSE IF b.count + 1 >= setup.threshold
    THEN [count |-> b.count + 1, cool |-> Cooldown, wake |-> Cooldown]
    ELSE [b EXCEPT !.count = @ + 1]

\* A failure while tripped can only be a trial's: it re-opens.
Failed(b) ==
    IF b.cool # Off THEN [count |-> b.count, cool |-> Cooldown, wake |-> Cooldown]
    ELSE IF b.count + 1 >= setup.threshold
    THEN [count |-> b.count + 1, cool |-> Cooldown, wake |-> Cooldown]
    ELSE [b EXCEPT !.count = @ + 1]

Open(b) == b.cool > 0

\* DeferTimer.schedule over the entries p of lane l.
Wait(p, l) ==
    LET due == {p[s] : s \in {x \in Of(l) : p[x] # Off}} IN
    IF due = {} THEN Off ELSE Min(due \cup {Ceiling})

\* Steps of a drain controller: armed, woken by its timer, in a cycle up to its
\* claim, with what it leased, and out of it.
Arm(c) == [c EXCEPT !.armed = TRUE]
Woken(c, timer) == [c EXCEPT !.armed = TRUE, !.timer = timer]
Enter(c) == [c EXCEPT !.at = "claim"]
Leased(c, at, took) == [c EXCEPT !.at = at, !.took = took]
Over(armed, timer) == [armed |-> armed, at |-> "idle", took |-> Nothing, timer |-> timer]

Armed(c, ls) == [l \in Lanes |-> IF l \in ls THEN Arm(c[l]) ELSE c[l]]

\* Lanes whose drain() gets past its early returns.
Ready(c, b) == {l \in Lanes : c[l].armed /\ c[l].at = "idle" /\ ~Open(b)}

\* A drain call of lane l returns to the pass that awaits it, if any.
Return(l, acked) ==
    settle' = [settle EXCEPT !.waits = @ \ {l},
                             !.progress = @ \/ (acked /\ l \in settle.waits)]

\* Mutant of Rest: the wake-up that came meanwhile is dropped.
RestForGood(s) == [s EXCEPT !.at = "rest", !.pending = FALSE]

\* The finally of the settle cycle: the wake-up that came meanwhile re-arms.
Rest(s) == [s EXCEPT !.at = "rest", !.timer = s.timer \/ s.pending, !.pending = FALSE]

\* A store call throws where the setup and the budget let it.
Breaks(what) ==
    /\ what \in setup.faulty /\ left.fault > 0
    /\ app.life \in {"up", "closing"} \/ "late_fault" \in Harsh
    /\ left' = [left EXCEPT !.fault = @ - 1]
    /\ breaker' = Failed(breaker)

Sooner(t) == IF t > 0 THEN t - 1 ELSE t

-----------------------------------------------------------------------------
(* The settle loop.                                                        *)

\* do() commits, arms correlate and the lane, and the application's listener
\* calls settle().  A scan that is awaited and will find nothing disarms over it:
\* "lost_arm".
Commit(s) ==
    /\ left.commit > 0
    /\ app.life \in {"up", "closing"} \/ "late_commit" \in Harsh
    /\ settle.at = "read" /\ settle.upto = scanned => "lost_arm" \in Harsh
    /\ left' = [left EXCEPT !.commit = @ - 1]
    /\ log' = Append(log, s)
    /\ app' = [app EXCEPT !.armed = TRUE]
    /\ ctl' = Armed(ctl, {setup.laneOf[s]})
    /\ settle' = [settle EXCEPT !.timer = TRUE]
    /\ UNCHANGED <<setup, scanned, row, plan, breaker>>

\* The debounce timer fires.
Fire ==
    /\ settle.timer
    /\ settle' = IF settle.at = "rest"
                 THEN [settle EXCEPT !.timer = FALSE, !.progress = FALSE,
                                     !.at = IF app.inited THEN "scan" ELSE "init"]
                 ELSE [settle EXCEPT !.timer = FALSE, !.pending = TRUE]
    /\ UNCHANGED <<setup, log, scanned, row, app, ctl, plan, breaker, left>>

\* Mutant of Seeded: a restart does not read the due dates.
Unseeded == plan

\* The due dates the store kept become entries of the defer maps.
Seeded == [s \in Streams |-> IF row[s].due > 0 THEN row[s].due ELSE plan[s]]

\* CorrelateCycle.init: every lane is armed, then the timers are seeded.
Start ==
    /\ settle.at = "init"
    /\ settle' = [settle EXCEPT !.at = "scan"]
    /\ app' = [app EXCEPT !.inited = TRUE, !.armed = TRUE]
    /\ plan' = Seeded
    /\ ctl' = [l \in Lanes |->
                 [ctl[l] EXCEPT !.armed = @ \/ l \in Built,
                                !.timer = IF \E s \in Of(l) : row[s].due > 0
                                          THEN Wait(Seeded, l) ELSE @]]
    /\ UNCHANGED <<setup, log, scanned, row, breaker, left>>

\* The drain of every lane that is ready, awaited by the pass.
DrainAll(found, c, b) ==
    LET go == Ready(c, b) IN
    /\ ctl' = [l \in Lanes |-> IF l \in go THEN Enter(c[l]) ELSE c[l]]
    /\ breaker' = b
    /\ settle' = [settle EXCEPT !.at = "drain", !.upto = 0, !.progress = found, !.waits = go]

\* A disarmed pass reads nothing and says nothing of the store.
Skip ==
    /\ settle.at = "scan" /\ ~app.armed
    /\ DrainAll(FALSE, ctl, breaker)
    /\ UNCHANGED <<setup, log, scanned, row, app, plan, left>>

\* The query has read the first n events: it found some, whose targets are still
\* to be marked, or it disarms, whatever was armed since it read.
Resolve(n) ==
    IF n > scanned
    THEN /\ settle' = [settle EXCEPT !.at = "mark", !.upto = n]
         /\ UNCHANGED <<app, ctl, breaker>>
    ELSE /\ app' = [app EXCEPT !.armed = FALSE]
         /\ DrainAll(FALSE, ctl, Passed)

\* The query of an armed pass, and its answer where that comes later.
Scan ==
    /\ settle.at = "scan" /\ app.armed
    /\ IF setup.networked
       THEN /\ settle' = [settle EXCEPT !.at = "read", !.upto = Len(log)]
            /\ UNCHANGED <<app, ctl, breaker>>
       ELSE Resolve(Len(log))
    /\ UNCHANGED <<setup, log, scanned, row, plan, left>>

Read ==
    /\ settle.at = "read"
    /\ Resolve(settle.upto)
    /\ UNCHANGED <<setup, log, scanned, row, plan, left>>

\* A scan that marked arms everything before the drain.
Found ==
    /\ app' = [app EXCEPT !.armed = TRUE]
    /\ DrainAll(TRUE, Armed(ctl, Built), Passed)

\* The call that raises the marks and saves the checkpoint, and its answer.
Mark ==
    /\ settle.at = "mark"
    /\ row' = [s \in Streams |->
                 [row[s] EXCEPT !.mark = Max({@, LastBy(s, settle.upto)})]]
    /\ scanned' = settle.upto
    /\ IF setup.networked
       THEN /\ settle' = [settle EXCEPT !.at = "marked"]
            /\ UNCHANGED <<app, ctl, breaker>>
       ELSE Found
    /\ UNCHANGED <<setup, log, plan, left>>

Marked ==
    /\ settle.at = "marked"
    /\ Found
    /\ UNCHANGED <<setup, log, scanned, row, plan, left>>

\* init, the query or the marks throw: nothing landed, and the cycle ends there.
SettleFails ==
    /\ \/ settle.at = "init" /\ Breaks("init")
       \/ settle.at = "scan" /\ app.armed /\ Breaks("scan")
       \/ settle.at \in {"read", "mark"} /\ Breaks("scan")
    /\ settle' = [Rest(settle) EXCEPT !.upto = 0]
    /\ UNCHANGED <<setup, log, scanned, row, app, ctl, plan>>

\* Every lane has returned: another pass, or the end of the cycle.
Judge ==
    /\ settle.at = "drain" /\ settle.waits = {}
    /\ settle' = IF settle.progress
                 THEN [settle EXCEPT !.at = "scan", !.progress = FALSE]
                 ELSE Rest(settle)
    /\ UNCHANGED <<setup, log, scanned, row, app, ctl, plan, breaker, left>>

-----------------------------------------------------------------------------
(* The drain of a lane.                                                    *)

\* The lane's worker drains by itself at its cycleMs.
WorkerTick(l) ==
    /\ l \in setup.ticking /\ l \in Ready(ctl, breaker)
    /\ app.life \in {"up", "closing"}
    /\ ctl' = [ctl EXCEPT ![l] = Enter(@)]
    /\ UNCHANGED <<setup, log, scanned, row, app, settle, plan, breaker, left>>

\* What drain() makes of the claimed streams: none is a lane caught up.
Answered(l, took) ==
    IF took = Nothing
    THEN /\ ctl' = [ctl EXCEPT ![l] = Over(FALSE, @.timer)]
         /\ breaker' = Passed
         /\ Return(l, FALSE)
    ELSE /\ ctl' = [ctl EXCEPT ![l] = Leased(@, "work", took)]
         /\ UNCHANGED <<breaker, settle>>

\* The store leases what is due; the answer may take a while.
Claim(l) ==
    /\ ctl[l].at = "claim"
    /\ LET free == {s \in Of(l) : Claimable(s)}
           took == [s \in Streams |-> IF s \in free THEN LastOf(s) ELSE 0]
       IN /\ row' = [s \in Streams |-> IF s \in free THEN [row[s] EXCEPT !.held = Lease]
                                       ELSE row[s]]
          /\ IF setup.networked
             THEN /\ ctl' = [ctl EXCEPT ![l] = Leased(@, "reply", took)]
                  /\ UNCHANGED <<breaker, settle>>
             ELSE Answered(l, took)
    /\ UNCHANGED <<setup, log, scanned, app, plan, left>>

Reply(l) ==
    /\ ctl[l].at = "reply"
    /\ Answered(l, ctl[l].took)
    /\ UNCHANGED <<setup, log, scanned, row, app, plan, left>>

\* The cycle's outcomes, one per leased stream, land in one ack; an outcome
\* with a due date parks its stream, a bare failure leaves it leased.
Finish(l) ==
    /\ ctl[l].at = "work"
    /\ LET took == {s \in Streams : ctl[l].took[s] # 0} IN
       \E out \in [took -> setup.outcomes], d \in Delays :
         LET acked == {s \in took : out[s] = "ok"}
             parked == {s \in took : out[s] \in {"defer", "backoff"}}
             errors == {s \in took : out[s] \in {"backoff", "fail"}}
             next == [s \in Streams |-> IF s \in acked THEN Off
                                        ELSE IF s \in parked THEN d ELSE plan[s]]
         IN /\ took # acked => left.delay > 0
            /\ left' = [left EXCEPT !.delay = IF took = acked THEN @ ELSE @ - 1]
            /\ row' = [s \in Streams |->
                         IF s \in acked THEN [row[s] EXCEPT !.at = ctl[l].took[s],
                                                            !.due = 0, !.held = 0]
                         ELSE IF s \in parked THEN [row[s] EXCEPT !.due = d, !.held = 0]
                         ELSE row[s]]
            /\ plan' = next
            /\ ctl' = [ctl EXCEPT ![l] =
                         Over(@.armed /\ (acked # {} \/ errors # {}),
                              IF Wait(next, l) # Off THEN Wait(next, l) ELSE @.timer)]
            /\ breaker' = Passed
            /\ Return(l, acked # {})
    /\ UNCHANGED <<setup, log, scanned, app>>

\* The claim or the ack throws: nothing landed, and the lane stays armed.
DrainFails(l) ==
    /\ \/ ctl[l].at = "claim" /\ Breaks("claim")
       \/ ctl[l].at = "work" /\ Breaks("ack")
    /\ ctl' = [ctl EXCEPT ![l] = Over(@.armed, @.timer)]
    /\ Return(l, FALSE)
    /\ UNCHANGED <<setup, log, scanned, row, app, plan>>

-----------------------------------------------------------------------------
(* Time, crashes and the end.                                              *)

\* The lane's defer timer: entries that came due are dropped and the lane is
\* armed; a timer cut short by the ceiling schedules itself again.
TimerFires(l) ==
    /\ ctl[l].timer = 0
    /\ LET due == {s \in Of(l) : plan[s] = 0}
           kept == [s \in Streams |-> IF s \in due THEN Off ELSE plan[s]]
       IN /\ plan' = kept
          /\ ctl' = [ctl EXCEPT ![l] = Woken(@, IF due = {} THEN Wait(kept, l) ELSE Off)]
    /\ UNCHANGED <<setup, log, scanned, row, app, settle, breaker, left>>

\* on_retry of the breaker.
Retry ==
    /\ breaker.wake = 0
    /\ breaker' = [breaker EXCEPT !.wake = Off]
    /\ settle' = [settle EXCEPT !.timer = TRUE]
    /\ UNCHANGED <<setup, log, scanned, row, app, ctl, plan, left>>

Tick ==
    /\ row' = [s \in Streams |-> [row[s] EXCEPT !.due = Sooner(@), !.held = Sooner(@)]]
    /\ plan' = [s \in Streams |-> Sooner(plan[s])]
    /\ ctl' = [l \in Lanes |-> [ctl[l] EXCEPT !.timer = Sooner(@)]]
    /\ breaker' = [breaker EXCEPT !.cool = Sooner(@), !.wake = Sooner(@)]
    /\ UNCHANGED <<setup, log, scanned, app, settle, left>>

\* The process dies and boots again, and the application settles.
Crash ==
    /\ app.life = "up" /\ left.crash > 0
    /\ "lost_lease" \in Harsh \/ \A s \in Streams : row[s].held = 0
    /\ left' = [left EXCEPT !.crash = @ - 1]
    /\ app' = Boot.app /\ settle' = Boot.settle /\ ctl' = Boot.ctl
    /\ plan' = Boot.plan /\ breaker' = Boot.breaker
    /\ UNCHANGED <<setup, log, scanned, row>>

\* shutdown() first hands the correlation lease back, and awaits that.
Shutdown ==
    /\ app.life = "up"
    /\ app' = [app EXCEPT !.life = "closing"]
    /\ UNCHANGED <<setup, log, scanned, row, settle, ctl, plan, breaker, left>>

\* Whether shutdown() waits for what is in flight: its default budget is the
\* lease of the lanes that have a cycle, and none where only the settle loop has.
Awaits == setup.grace \/ \E l \in Lanes : ctl[l].at # "idle"

\* Mutant of StopAll: a pending wake-up survives.
StopTimers ==
    /\ app.life = "closing"
    /\ app' = [app EXCEPT !.life = IF Awaits THEN "stopping" ELSE "down"]
    /\ settle' = [settle EXCEPT !.timer = FALSE]
    /\ breaker' = [breaker EXCEPT !.wake = Off]
    /\ ctl' = [l \in Lanes |-> [ctl[l] EXCEPT !.timer = Off]]
    /\ UNCHANGED <<setup, log, scanned, row, plan, left>>

\* The timers are stopped, and shutdown() resolves at once or awaits the cycles.
StopAll ==
    /\ app.life = "closing"
    /\ app' = [app EXCEPT !.life = IF Awaits THEN "stopping" ELSE "down"]
    /\ settle' = [settle EXCEPT !.timer = FALSE, !.pending = FALSE]
    /\ breaker' = [breaker EXCEPT !.wake = Off]
    /\ ctl' = [l \in Lanes |-> [ctl[l] EXCEPT !.timer = Off]]
    /\ UNCHANGED <<setup, log, scanned, row, plan, left>>

\* The cycles in flight are over, or the budget is.
TearDown ==
    /\ app.life = "stopping"
    /\ \/ settle.at = "rest" /\ \A l \in Lanes : ctl[l].at = "idle"
       \/ "short_grace" \in Harsh
    /\ app' = [app EXCEPT !.life = "down"]
    /\ UNCHANGED <<setup, log, scanned, row, settle, ctl, plan, breaker, left>>

Lane(l) == Claim(l) \/ Reply(l) \/ Finish(l) \/ DrainFails(l)
Correlate == Skip \/ Scan \/ Read \/ Mark \/ Marked
Cycle == Start \/ Correlate \/ SettleFails \/ Judge

Next ==
    \/ Fire \/ Cycle \/ Retry \/ Tick
    \/ Crash \/ Shutdown \/ StopAll \/ TearDown
    \/ \E s \in Streams : Commit(s)
    \/ \E l \in Lanes : WorkerTick(l) \/ Lane(l) \/ TimerFires(l)

Spec == Init /\ [][Next]_vars

\* Every timer fires, every call returns and every handler ends; nobody is
\* obliged to commit, crash or shut down, and a shutdown runs to its end.
FairSpec ==
    /\ Spec
    /\ WF_vars(Fire) /\ WF_vars(Cycle) /\ WF_vars(Retry) /\ WF_vars(Tick)
    /\ WF_vars(StopAll) /\ WF_vars(TearDown)
    /\ \A l \in Lanes : WF_vars(WorkerTick(l)) /\ WF_vars(Lane(l)) /\ WF_vars(TimerFires(l))

-----------------------------------------------------------------------------
(* Properties.                                                             *)

TypeOK ==
    /\ setup \in Setups
    /\ log \in Seq(Streams) /\ scanned \in 0 .. Len(log)
    /\ row \in [Streams -> Row]
    /\ app \in App /\ settle \in Settle
    /\ ctl \in [Lanes -> Ctl] /\ plan \in [Streams -> Countdown]
    /\ breaker \in Breaker /\ breaker.count <= setup.threshold
    /\ left \in [Budgeted -> Nat]

Driven == settle.timer \/ settle.at # "rest" \/ breaker.wake # Off

Unscanned == scanned < Len(log)

\* Somebody will drain the lane: a settle cycle to come or under way, its own
\* drain in flight, or its worker.
Served(l) == Driven \/ ctl[l].at # "idle" \/ l \in setup.ticking

(* The breaker's promise that recovery is automatic (error-handling.md): a  *)
(* process that is up and has events to correlate, or a lane armed over     *)
(* streams it can claim, has somebody on the way to it, whatever calls      *)
(* failed and however the failures fell across the settle loop and lanes.   *)
NeverAbandoned ==
    app.life = "up" =>
        /\ Unscanned \/ ~app.inited => Driven
        /\ \A l \in Lanes : (ctl[l].armed /\ \E s \in Of(l) : Claimable(s)) => Served(l)

(* A stream parked until a due date has its wake-up: the lane of an event   *)
(* that waits is armed or in a cycle, or its timer is set and not late,     *)
(* across timers cut short, entries that share one timer, and restarts.     *)
ParkedWakes ==
    app.life = "up" /\ app.inited =>
        \A s \in Streams : row[s].due > 0 =>
            LET c == ctl[setup.laneOf[s]] IN
            c.armed \/ c.at # "idle" \/ c.timer \in 0 .. row[s].due

(* "No store operation is issued after shutdown() resolves"                 *)
(* (behavior-contracts.md), and the cycles it waited for released their     *)
(* leases: nothing is running, nothing is set to run, nothing is held.      *)
ShutdownIsClean ==
    app.life = "down" =>
        /\ settle.at = "rest" /\ ~settle.timer /\ breaker.wake = Off
        /\ \A l \in Lanes : ctl[l].at = "idle"
        /\ \A s \in Streams : row[s].held = 0

(* Every committed event is handled, or the process is told to stop.        *)
EventuallyHandled ==
    <>[](app.life = "up" => ~Unscanned /\ \A s \in Streams : row[s].at = LastOf(s))

=============================================================================
