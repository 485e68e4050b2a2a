------------------------------- MODULE Wakeup -------------------------------
(***************************************************************************)
(* How a committed event reaches its reaction when nobody asks for it: the *)
(* correlate cycle with its lease and checkpoint, the armed flags, the     *)
(* debounced settle loop with its pending wake-up, the poller, the lane    *)
(* worker and the cross-process notification.                              *)
(*                                                                         *)
(* One action per await.  A store call is one step when the store answers  *)
(* within the caller's own turn (the in-memory store) and two, the effect  *)
(* and the answer, when Networked: the process runs other callbacks while  *)
(* the answer travels.  What a handler does is module Drain's subject: a   *)
(* claimed target is here always handled and acked.  Its fetch is every    *)
(* event behind its watermark, as it is for a target without a source.     *)
(***************************************************************************)
EXTENDS Integers, Sequences, FiniteSets

CONSTANTS Procs,        \* Act instances sharing the store
          Targets,      \* dynamic reaction targets
          Knows,        \* [Procs -> SUBSET Targets], the registry of each
          Inert,        \* an event no registry reacts to
          Nobody,       \* holder of a free lease
          Ghost,        \* holder of a lease whose process died
          Limit,        \* events one correlate pass reads
          BackScan,     \* cold_start_back_scan
          EventLimit,   \* events one fetch of a claimed target returns
          Networked,    \* the store answers later than it acts
          Notify,       \* the store notifies the other processes of a commit
          Polling,      \* start_correlations was called
          LaneWorker,   \* the lane has a cycleMs
          MaxLog, MaxCrashes      \* bounds

ASSUME WakeupAssumption ==
    /\ Knows \in [Procs -> SUBSET Targets]
    /\ Inert \notin Targets
    /\ Nobody \notin Procs /\ Ghost \notin Procs /\ Nobody # Ghost
    /\ Limit \in Nat \ {0} /\ BackScan \in Nat /\ EventLimit \in Nat \ {0}
    /\ MaxLog \in Nat /\ MaxCrashes \in Nat
    /\ {Networked, Notify, Polling, LaneWorker} \subseteq BOOLEAN

VARIABLES
    log,        \* target of each committed event, or Inert; ids are 1, 2, ...
    rows,       \* [Targets -> subscription row]
    shared,     \* the durable correlate checkpoint, 0 when there is none
    lease,      \* [registry -> holder of its correlation lease]
    local,      \* [Procs -> memory of the correlate cycle and the controller]
    settle,     \* [Procs -> state of the settle loop]
    scan,       \* [Procs -> [Callers -> correlate call in flight]]
    pass,       \* [Procs -> drain call in flight]
    notice,     \* [Procs -> a notification is on its way]
    crashes

vars == <<log, rows, shared, lease, local, settle, scan, pass, notice, crashes>>

\* The two automatic paths into correlate; both honour the lease.
Callers == {"settle", "poll"}

\* An event's id; 0 stands for the code's -1.
Position == 0 .. MaxLog

Registries == {Knows[p] : p \in Procs}

Holder == Procs \cup {Nobody, Ghost}

Row == [mark : Position, at : Position, by : Holder]

Local == [ready : BOOLEAN,       \* _initialized
          armed : BOOLEAN,       \* CorrelateCycle._armed
          live : BOOLEAN,        \* DrainController._armed
          checkpoint : Position,
          believes : BOOLEAN]    \* _lease_until is still far enough away

Settle == [timer : BOOLEAN, pending : BOOLEAN,
           at : {"idle", "call", "scanning", "drain", "draining", "judge"},
           before : Position,    \* checkpoint when the pass called correlate
           progress : BOOLEAN]   \* made_progress of the pass so far

Scan == [at : {"none", "ask", "query", "read", "mark", "marked"},
         after : Position, last : Position, granted : BOOLEAN]

Pass == [at : {"idle", "empty", "working"}, for : {"settle", "worker"},
         upto : [Targets -> Position]]

NoScan == [at |-> "none", after |-> 0, last |-> 0, granted |-> FALSE]
NoPass == [at |-> "idle", for |-> "settle", upto |-> [t \in Targets |-> 0]]
EmptyRow == [mark |-> 0, at |-> 0, by |-> Nobody]

\* A fresh process: correlate starts armed, the controller does not, and the
\* application asks for a first settle.
Fresh == [ready |-> FALSE, armed |-> TRUE, live |-> FALSE, checkpoint |-> 0,
          believes |-> FALSE]
Asleep == [timer |-> FALSE, pending |-> FALSE, at |-> "idle", before |-> 0,
           progress |-> FALSE]
Ring(s) == [s EXCEPT !.timer = TRUE]

Init ==
    /\ log = <<>>
    /\ rows = [t \in Targets |-> EmptyRow]
    /\ shared = 0
    /\ lease = [k \in Registries |-> Nobody]
    /\ local = [p \in Procs |-> Fresh]
    /\ settle = [p \in Procs |-> Ring(Asleep)]
    /\ scan = [p \in Procs |-> [c \in Callers |-> NoScan]]
    /\ pass = [p \in Procs |-> NoPass]
    /\ notice = [p \in Procs |-> FALSE]
    /\ crashes = 0

Larger(a, b) == IF a > b THEN a ELSE b
Smaller(a, b) == IF a < b THEN a ELSE b

\* Mutant: the scan marks its targets for events their fetch does not return.
EventsFor(t, a, b) == {i \in (a + 1) .. b : i <= Len(log) /\ t \in Targets}
\* Ids of t's events after `a` and up to `b`, and the last of them (0: none).
EventsOf(t, a, b) == {i \in (a + 1) .. b : i <= Len(log) /\ log[i] = t}
LastOf(t, a, b) ==
    IF EventsOf(t, a, b) = {} THEN 0
    ELSE CHOOSE i \in EventsOf(t, a, b) : \A j \in EventsOf(t, a, b) : j <= i

\* What a scan of p over (a, b] resolves to.
Found(p, a, b) == {t \in Knows[p] : EventsOf(t, a, b) # {}}

-----------------------------------------------------------------------------
(* What the steps do to a process's memory, its calls and the rows.        *)

Arm(l) == [l EXCEPT !.armed = TRUE, !.live = TRUE]
Look(l) == [l EXCEPT !.armed = TRUE]
Idle(l) == [l EXCEPT !.live = FALSE]
Believe(l, granted) == [l EXCEPT !.believes = granted]
Booted(l, at) ==
    [l EXCEPT !.ready = TRUE, !.armed = TRUE, !.live = TRUE, !.checkpoint = at]

\* Nothing found up to `last`: disarm.
CaughtUp(l, last) == [l EXCEPT !.checkpoint = last, !.armed = FALSE]

\* Marked up to `last`: the settle loop arms everything, correlate included; the
\* poller leaves the flags as they are.
Advanced(l, c, last, granted) ==
    [l EXCEPT !.checkpoint = last,
              !.armed = l.armed \/ c = "settle", !.live = l.live \/ c = "settle",
              !.believes = l.believes \/ granted]

\* The timer fires while a cycle runs.
Postponed(s) == [s EXCEPT !.timer = FALSE, !.pending = TRUE]

Stage(s, stage) == [s EXCEPT !.at = stage]
Start(l) == [at |-> IF l.believes THEN "query" ELSE "ask", after |-> l.checkpoint,
             last |-> 0, granted |-> FALSE]
Saw(s, stage, after, last) == [s EXCEPT !.at = stage, !.after = after, !.last = last]
Sent(s, granted) == [s EXCEPT !.at = "marked", !.granted = granted]

Scanning(s, checkpoint) == [s EXCEPT !.at = "scanning", !.before = checkpoint]
Scanned(s, last) ==
    [s EXCEPT !.at = "drain", !.before = 0, !.progress = last > s.before]
Judged(s, acked) == [s EXCEPT !.at = "judge", !.progress = s.progress \/ acked]

NextPass(s) == [s EXCEPT !.at = "call", !.progress = FALSE]
Rest(s) == [s EXCEPT !.at = "idle", !.timer = s.timer \/ s.pending, !.pending = FALSE]

Raise(r, id) == [r EXCEPT !.mark = Larger(r.mark, id)]
Take(r, p) == [r EXCEPT !.by = p]
Acked(r, id) == [r EXCEPT !.at = id, !.by = Nobody]

-----------------------------------------------------------------------------
(* Commits and wake-ups.                                                   *)

\* Act.do: the commit, the arming of what reacts to the event, and the
\* application's on("committed", settle).  The store tells the others.
Commit(p, k) ==
    /\ Len(log) < MaxLog
    /\ log' = Append(log, k)
    /\ local' = IF k \in Knows[p] THEN [local EXCEPT ![p] = Arm(@)] ELSE local
    /\ settle' = [settle EXCEPT ![p] = Ring(@)]
    /\ notice' = [q \in Procs |-> \/ notice[q]
                                  \/ Notify /\ q # p /\ k \in Knows[q]]
    /\ UNCHANGED <<rows, shared, lease, scan, pass, crashes>>

\* Mutant: the notification only settles.
HintOnly(p) ==
    /\ notice[p]
    /\ notice' = [notice EXCEPT ![p] = FALSE]
    /\ settle' = [settle EXCEPT ![p] = Ring(@)]
    /\ UNCHANGED <<log, rows, shared, lease, local, scan, pass, crashes>>

\* The notify handler: arm, settle.
Notified(p) ==
    /\ notice[p]
    /\ notice' = [notice EXCEPT ![p] = FALSE]
    /\ local' = [local EXCEPT ![p] = Arm(@)]
    /\ settle' = [settle EXCEPT ![p] = Ring(@)]
    /\ UNCHANGED <<log, rows, shared, lease, scan, pass, crashes>>

\* The debounce timer: start a cycle, or remember the wake-up when one runs.
Fire(p) ==
    /\ settle[p].timer
    /\ settle' = [settle EXCEPT ![p] =
                    IF @.at = "idle" THEN Stage(Asleep, "call") ELSE Postponed(@)]
    /\ UNCHANGED <<log, rows, shared, lease, local, scan, pass, notice, crashes>>

\* The highest watermark of the subscription rows, as subscribe returns it.
Watermark == CHOOSE a \in Position :
               /\ \A t \in Targets : rows[t].at <= a
               /\ a = 0 \/ \E t \in Targets : rows[t].at = a

\* The durable position a process resumes from; the back-scan window applies
\* only when there is none.
SeedPosition == IF shared > 0 THEN shared ELSE Larger(0, Watermark - BackScan)

\* CorrelateCycle.init, on the first settle or the first tick.
Boot(p) ==
    /\ ~local[p].ready
    /\ settle[p].at = "call" \/ Polling
    /\ local' = [local EXCEPT ![p] = Booted(@, SeedPosition)]
    /\ UNCHANGED <<log, rows, shared, lease, settle, scan, pass, notice, crashes>>

-----------------------------------------------------------------------------
(* Correlate.                                                              *)

\* correlate returns `last` to its caller.
Return(p, c, last) ==
    /\ scan' = [scan EXCEPT ![p][c] = NoScan]
    /\ settle' = IF c = "settle" THEN [settle EXCEPT ![p] = Scanned(@, last)]
                 ELSE settle

\* A pass of the settle loop calls correlate; disarmed, it returns at once.
SettleScan(p) ==
    /\ settle[p].at = "call" /\ local[p].ready
    /\ IF local[p].armed
       THEN /\ settle' = [settle EXCEPT ![p] = Scanning(@, local[p].checkpoint)]
            /\ scan' = [scan EXCEPT ![p]["settle"] = Start(local[p])]
       ELSE /\ settle' = [settle EXCEPT ![p] = Stage(@, "drain")]
            /\ UNCHANGED scan
    /\ UNCHANGED <<log, rows, shared, lease, local, pass, notice, crashes>>

\* Mutant: the tick does not arm.
LazyPoll(p) ==
    /\ Polling /\ local[p].ready /\ scan[p]["poll"].at = "none" /\ local[p].armed
    /\ scan' = [scan EXCEPT ![p]["poll"] = Start(local[p])]
    /\ UNCHANGED <<log, rows, shared, lease, local, settle, pass, notice, crashes>>

\* A tick of the poller arms first.
PollScan(p) ==
    /\ Polling /\ local[p].ready /\ scan[p]["poll"].at = "none"
    /\ local' = [local EXCEPT ![p] = Look(@)]
    /\ scan' = [scan EXCEPT ![p]["poll"] = Start(local[p])]
    /\ UNCHANGED <<log, rows, shared, lease, settle, pass, notice, crashes>>

\* Mutant: anyone may scan.
AlwaysGrantable(p) == p \in Procs
Grantable(p) == lease[Knows[p]] \in {Nobody, p}

\* May I scan?  A refused pass returns its own checkpoint and stays armed.
Ask(p, c) ==
    /\ scan[p][c].at = "ask"
    /\ local' = [local EXCEPT ![p] = Believe(@, Grantable(p))]
    /\ IF Grantable(p)
       THEN /\ lease' = [lease EXCEPT ![Knows[p]] = p]
            /\ scan' = [scan EXCEPT ![p][c] = Stage(@, "query")]
            /\ UNCHANGED settle
       ELSE Return(p, c, local[p].checkpoint) /\ UNCHANGED lease
    /\ UNCHANGED <<log, rows, shared, pass, notice, crashes>>

\* Mutant: the checkpoint advances before the marks are stored.
EagerCheckpoint(p, c, after, last) ==
    /\ local' = [local EXCEPT ![p] = Advanced(@, c, last, FALSE)]
    /\ IF Found(p, after, last) = {} THEN Return(p, c, last)
       ELSE /\ scan' = [scan EXCEPT ![p][c] = Saw(@, "mark", after, last)]
            /\ UNCHANGED settle

\* A scan that found nothing disarms; one that did goes on to mark.
Resolve(p, c, after, last) ==
    IF Found(p, after, last) = {}
    THEN /\ local' = [local EXCEPT ![p] = CaughtUp(@, last)]
         /\ Return(p, c, last)
    ELSE /\ scan' = [scan EXCEPT ![p][c] = Saw(@, "mark", after, last)]
         /\ UNCHANGED <<local, settle>>

\* Mutant: a short window counts as a full one.
PastTheEnd(after) == after + Limit
WindowEnd(after) == Larger(after, Smaller(Len(log), after + Limit))

\* The bounded window of events past the checkpoint.
Query(p, c) ==
    LET after == Larger(local[p].checkpoint, scan[p][c].after)
        last == WindowEnd(after)
    IN /\ scan[p][c].at = "query"
       /\ IF Networked
          THEN /\ scan' = [scan EXCEPT ![p][c] = Saw(@, "read", after, last)]
               /\ UNCHANGED <<local, settle>>
          ELSE Resolve(p, c, after, last)
       /\ UNCHANGED <<log, rows, shared, lease, pass, notice, crashes>>

Read(p, c) ==
    /\ scan[p][c].at = "read"
    /\ Resolve(p, c, scan[p][c].after, scan[p][c].last)
    /\ UNCHANGED <<log, rows, shared, lease, pass, notice, crashes>>

\* The checkpoint advances with the answer to subscribe.
Finish(p, c, granted) ==
    /\ local' = [local EXCEPT ![p] = Advanced(@, c, scan[p][c].last, granted)]
    /\ Return(p, c, scan[p][c].last)

\* subscribe: raise the marks, the shared checkpoint, and renew the lease if
\* it can be had.
Mark(p, c) ==
    LET s == scan[p][c]
    IN /\ s.at = "mark"
       /\ rows' = [t \in Targets |->
                     IF t \in Found(p, s.after, s.last)
                     THEN Raise(rows[t], LastOf(t, s.after, s.last))
                     ELSE rows[t]]
       /\ shared' = Larger(shared, s.last)
       /\ lease' = IF Grantable(p) THEN [lease EXCEPT ![Knows[p]] = p] ELSE lease
       /\ IF Networked
          THEN /\ scan' = [scan EXCEPT ![p][c] = Sent(@, Grantable(p))]
               /\ UNCHANGED <<local, settle>>
          ELSE Finish(p, c, Grantable(p))
       /\ UNCHANGED <<log, pass, notice, crashes>>

\* The answer.  A grant that ran out on the way is worth nothing.
Marked(p, c) ==
    /\ scan[p][c].at = "marked"
    /\ Finish(p, c, scan[p][c].granted /\ lease[Knows[p]] = p)
    /\ UNCHANGED <<log, rows, shared, lease, pass, notice, crashes>>

-----------------------------------------------------------------------------
(* Drain.                                                                  *)

Claimable == {t \in Targets : rows[t].mark > rows[t].at /\ rows[t].by = Nobody}

\* The last event a claimed target fetches, whoever reacts to it.
FetchEnd(t) == Smaller(Len(log), rows[t].at + EventLimit)

\* drain returns to the settle loop; the lane worker just ticks again.
Drained(p, c, acked) ==
    settle' = IF c = "settle" THEN [settle EXCEPT ![p] = Judged(@, acked)] ELSE settle

\* A drain that is disarmed, or finds another in flight, does nothing.
SkipDrain(p) ==
    /\ settle[p].at = "drain"
    /\ ~local[p].live \/ pass[p].at # "idle"
    /\ Drained(p, "settle", FALSE)
    /\ UNCHANGED <<log, rows, shared, lease, local, scan, pass, notice, crashes>>

\* Claim and fetch what is claimable; an empty claim disarms.
Claim(p, c) ==
    /\ IF c = "settle" THEN settle[p].at = "drain" ELSE LaneWorker
    /\ local[p].live /\ pass[p].at = "idle"
    /\ rows' = [t \in Targets |-> IF t \in Claimable THEN Take(rows[t], p) ELSE rows[t]]
    /\ IF Claimable = {} /\ ~Networked
       THEN /\ local' = [local EXCEPT ![p] = Idle(@)]
            /\ Drained(p, c, FALSE)
            /\ UNCHANGED pass
       ELSE /\ pass' = [pass EXCEPT ![p] =
                 [at |-> IF Claimable = {} THEN "empty" ELSE "working",
                  for |-> c,
                  upto |-> [t \in Targets |->
                     IF t \in Claimable THEN FetchEnd(t) ELSE 0]]]
            /\ settle' = IF c = "settle" THEN [settle EXCEPT ![p] = Stage(@, "draining")]
                         ELSE settle
            /\ UNCHANGED local
    /\ UNCHANGED <<log, shared, lease, scan, notice, crashes>>

\* The empty answer arrives.
Disarm(p) ==
    /\ pass[p].at = "empty"
    /\ local' = [local EXCEPT ![p] = Idle(@)]
    /\ Drained(p, pass[p].for, FALSE)
    /\ pass' = [pass EXCEPT ![p] = NoPass]
    /\ UNCHANGED <<log, rows, shared, lease, scan, notice, crashes>>

\* The handlers are done: ack.  The controller stays armed.
Ack(p) ==
    /\ pass[p].at = "working"
    /\ rows' = [t \in Targets |->
                  IF rows[t].by = p
                  THEN Acked(rows[t], pass[p].upto[t]) ELSE rows[t]]
    /\ Drained(p, pass[p].for, TRUE)
    /\ pass' = [pass EXCEPT ![p] = NoPass]
    /\ UNCHANGED <<log, shared, lease, local, scan, notice, crashes>>

\* The settle loop goes round while a pass made progress, and serves a
\* pending wake-up when it stops.
Judge(p) ==
    /\ settle[p].at = "judge"
    /\ settle' = [settle EXCEPT ![p] =
                    IF @.progress THEN NextPass(@) ELSE Rest(@)]
    /\ UNCHANGED <<log, rows, shared, lease, local, scan, pass, notice, crashes>>

-----------------------------------------------------------------------------
(* Time and crashes.                                                       *)

\* A worker's own view of its lease ends first: it asks again at half-time.
Lapse(p) ==
    /\ local[p].believes
    /\ local' = [local EXCEPT ![p] = Believe(@, FALSE)]
    /\ UNCHANGED <<log, rows, shared, lease, settle, scan, pass, notice, crashes>>

LeaseExpires(k) ==
    /\ lease[k] # Nobody
    /\ lease[k] \in Procs => ~local[lease[k]].believes
    /\ lease' = [lease EXCEPT ![k] = Nobody]
    /\ UNCHANGED <<log, rows, shared, local, settle, scan, pass, notice, crashes>>

\* The lease of a row whose claimer died.
RowExpires(t) ==
    /\ rows[t].by = Ghost
    /\ rows' = [rows EXCEPT ![t] = Take(@, Nobody)]
    /\ UNCHANGED <<log, shared, lease, local, settle, scan, pass, notice, crashes>>

\* The process dies and comes back under a new identity.
Crash(p) ==
    /\ crashes < MaxCrashes
    /\ crashes' = crashes + 1
    /\ rows' = [t \in Targets |-> IF rows[t].by = p THEN Take(rows[t], Ghost) ELSE rows[t]]
    /\ lease' = [k \in Registries |-> IF lease[k] = p THEN Ghost ELSE lease[k]]
    /\ local' = [local EXCEPT ![p] = Fresh]
    /\ settle' = [settle EXCEPT ![p] = Ring(Asleep)]
    /\ scan' = [scan EXCEPT ![p] = [c \in Callers |-> NoScan]]
    /\ pass' = [pass EXCEPT ![p] = NoPass]
    /\ notice' = [notice EXCEPT ![p] = FALSE]
    /\ UNCHANGED <<log, shared>>

-----------------------------------------------------------------------------
Correlate(p, c) == Ask(p, c) \/ Query(p, c) \/ Read(p, c) \/ Mark(p, c) \/ Marked(p, c)

DrainStep(p) ==
    \/ SkipDrain(p) \/ Claim(p, "settle") \/ Claim(p, "worker") \/ Disarm(p) \/ Ack(p)

\* What a process does by itself: timers fire and awaited calls return.
Runs(p) ==
    \/ Notified(p) \/ Fire(p) \/ Boot(p) \/ SettleScan(p) \/ PollScan(p)
    \/ \E c \in Callers : Correlate(p, c)
    \/ DrainStep(p) \/ Judge(p)

Expires ==
    \/ \E p \in Procs : Lapse(p)
    \/ \E k \in Registries : LeaseExpires(k)
    \/ \E t \in Targets : RowExpires(t)

Next ==
    \/ \E p \in Procs : Runs(p) \/ Crash(p)
    \/ \E p \in Procs, k \in Targets \cup {Inert} : Commit(p, k)
    \/ Expires

Spec == Init /\ [][Next]_vars

\* Timers fire, calls return and leases run out; nobody has to commit.
Fairness ==
    /\ \A p \in Procs :
         /\ WF_vars(Notified(p)) /\ WF_vars(Fire(p)) /\ WF_vars(Boot(p))
         /\ WF_vars(SettleScan(p)) /\ WF_vars(PollScan(p)) /\ WF_vars(Judge(p))
         /\ \A c \in Callers : WF_vars(Correlate(p, c))
         /\ WF_vars(SkipDrain(p) \/ Claim(p, "settle"))
         /\ WF_vars(Claim(p, "worker"))
         /\ WF_vars(Disarm(p) \/ Ack(p))
         /\ WF_vars(Lapse(p))
    /\ \A k \in Registries : WF_vars(LeaseExpires(k))
    /\ \A t \in Targets : WF_vars(RowExpires(t))

FairSpec == Spec /\ Fairness

-----------------------------------------------------------------------------
TypeOK ==
    /\ log \in Seq(Targets \cup {Inert}) /\ Len(log) <= MaxLog
    /\ rows \in [Targets -> Row]
    /\ shared \in Position
    /\ lease \in [Registries -> Holder]
    /\ local \in [Procs -> Local]
    /\ settle \in [Procs -> Settle]
    /\ scan \in [Procs -> [Callers -> Scan]]
    /\ pass \in [Procs -> Pass]
    /\ notice \in [Procs -> BOOLEAN]
    /\ crashes \in 0 .. MaxCrashes

\* Every event of p's registry up to `a` has raised its target's mark.
Covers(p, a) ==
    \A i \in 1 .. a : i <= Len(log) /\ log[i] \in Knows[p] => rows[log[i]].mark >= i

\* A process never moves its checkpoint past an event whose target is not yet
\* marked, whatever it resumed from (correlate-cycle.ts "Advance checkpoint
\* only after subscribe succeeds" and init).
Covered == \A p \in Procs : Covers(p, local[p].checkpoint)

\* A mark is an assertion about the log: it names an event of the target, over
\* windows that end on another event, late answers and overlapping scans
\* (_in_fetch_window); and a watermark stays within the log (Store.ack).
MarksAreEvents ==
    \A t \in Targets :
        /\ rows[t].mark > 0 => rows[t].mark <= Len(log) /\ log[rows[t].mark] = t
        /\ rows[t].at <= Len(log)

\* Two workers of one registry never both believe that they are the scanner
\* (the correlation lease of subscribe, _lease_until).
OneScanner ==
    \A p, q \in Procs :
        p # q /\ Knows[p] = Knows[q] => ~(local[p].believes /\ local[q].believes)

Known == UNION {Knows[p] : p \in Procs}

\* Every event that some registry reacts to is marked in the end, with no
\* further commit needed (settle, poller, notify).
EventuallyMarked ==
    \A i \in 1 .. MaxLog, t \in Targets :
        (i <= Len(log) /\ log[i] = t /\ t \in Known) ~> rows[t].mark >= i

\* ... and handled in the end (claim after a mark, the armed flags).
EventuallyHandled ==
    \A i \in 1 .. MaxLog, t \in Targets :
        (i <= Len(log) /\ log[i] = t /\ t \in Known) ~> rows[t].at >= i
=============================================================================
