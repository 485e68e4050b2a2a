--------------------------- MODULE DrainInvariants ---------------------------
(***************************************************************************)
(* The strengthenings that make the drain's safety properties inductive.   *)
(* Each conjunct says what one stage of a cycle may rely on while other    *)
(* workers, operators and clocks move.  DrainProofs proves them.           *)
(***************************************************************************)
EXTENDS Drain

\* The log is finite, its ids are unique and below nextId.
LogInv ==
    /\ IsFiniteSet(log) /\ FirstId <= nextId
    /\ \A e \in log : FirstId <= e.id /\ e.id < nextId
    /\ \A e, f \in log : e.id = f.id => e = f

\* A row is never past the newest id, and neither is its mark.
RowInv == \A t \in Targets : rows[t].at < nextId /\ rows[t].mark < nextId

\* What a cycle carries for a target lies between its floor and the newest id.
Carried(t, h) ==
    /\ \A e \in h.batch :
          h.floor < e.id /\ e.id < nextId /\ e.kind \in Fetches[t]
    /\ \A e, f \in h.batch : e.id = f.id => e = f
    /\ h.floor <= h.at /\ h.at < nextId /\ h.floor < nextId

\* Until the handlers start, a cycle has completed nothing.
Staged(w, t) ==
    LET h == entry[w][t] IN
    /\ h.out \in {"leased", "fetched"} => h.upto = h.floor
    /\ phase[w] = "idle" => h = NoEntry
    /\ t \in claimed[w] => 0 < nextId
    /\ phase[w] = "fetch" => h.out \in {"none", "leased", "fetched"}

EntryInv == \A w \in Workers, t \in Targets : Carried(t, entry[w][t]) /\ Staged(w, t)

\* A cycle that runs handlers has events left to handle.
RunInv == \A w \in Workers, t \in Targets : Running(w, t) => Remaining(w, t) # {}

\* What types, guards and the monotonicity of watermarks rest on.
BasicInv == TypeOK /\ LogInv /\ RowInv /\ EntryInv /\ RunInv

-----------------------------------------------------------------------------
(* At-least-once, while no event is ever removed from the log.             *)

\* A mark is the id of an event the target must handle.
MarkInv ==
    \A t \in Targets : rows[t].mark # Unmarked =>
        \E e \in log : Deliverable(t, e) /\ e.id = rows[t].mark

\* A claimed row has something to fetch, its fetch found it, and nothing was
\* completed before the handlers start.  No error went without a message.
Working(t, h) ==
    /\ h.out \notin {"none", "mute", "mute_block"}
    /\ \E e \in log : Deliverable(t, e) /\ h.floor < e.id
    /\ h.out # "leased" => h.batch # {}
    /\ h.batch \subseteq log
    /\ h.out \in {"leased", "fetched"} => ~h.handled /\ h.done = {}

WorkInv == \A w \in Workers : \A t \in claimed[w] : Working(t, entry[w][t])

\* Every reaction of the target on the event is accounted for.
Handled(t, e) == {e.id} \X Reacts[t][e.kind] \subseteq accounted[t]

\* Nothing up to id n is owed to the target.
Settled(t, n) == \A e \in log : Deliverable(t, e) /\ e.id <= n => Handled(t, e)

\* A fetched batch leaves out nothing the target must handle below its last event.
NoHoles(t, h) ==
    \A f \in h.batch, e \in log :
        Deliverable(t, e) /\ h.floor < e.id /\ e.id <= f.id => e \in h.batch

\* The events the handlers completed are accounted for.
Completed(t, h) == \A e \in h.batch : Deliverable(t, e) /\ e.id <= h.upto => Handled(t, e)

\* So are the reactions already run on the event in hand, and everything below
\* the position the worker would acknowledge.
Backed(w, t) ==
    LET h == entry[w][t] IN
    /\ h.out # "leased" => NoHoles(t, h)
    /\ Completed(t, h)
    /\ Running(w, t) => {Current(w, t).id} \X h.done \subseteq accounted[t]
    /\ h.handled \/ h.out \in {"ok", "close"} => Settled(t, h.at)

HolderInv ==
    \A w \in Workers, t \in Targets :
        t \in claimed[w] /\ Holds(rows[t], w) => Backed(w, t)

DeliveryInv ==
    /\ left["truncate"] = 0
    /\ NoSkip /\ HolderIsCurrent /\ MarkInv /\ WorkInv /\ HolderInv

-----------------------------------------------------------------------------
(* Attempts, while no operator has stepped in.                             *)

\* Budgets are only spent.
LeftInv == \A c \in Charges : left[c] <= Budget[c]

\* Outcomes that end in a blocked row.
GivesUp == {"block", "mute_block", "exhausted"}

\* The holder's count is the row's; an attempt yet to be dispatched is counted in
\* the row and not in the tally, and what gave up has blocked the row by its ack.
Counted(w, t) ==
    /\ entry[w][t].retry = rows[t].retry
    /\ phase[w] = "fetch" => tally[t].runs <= rows[t].retry /\ ~rows[t].blocked
    /\ phase[w] = "ack" /\ entry[w][t].out \in GivesUp => rows[t].blocked

\* No more attempts than the options allow; and a row that can be claimed has
\* counted every attempt made since its last progress.
Rationed(t) ==
    /\ Options[t].blockOnError => tally[t].runs <= Options[t].maxRetries + 1
    /\ ~rows[t].blocked => tally[t].runs <= rows[t].retry + 1

AttemptInv ==
    left["operator"] = Budget["operator"] =>
        /\ \A t \in Targets : Rationed(t)
        /\ \A w \in Workers, t \in Targets :
              t \in claimed[w] /\ Holds(rows[t], w) => Counted(w, t)

-----------------------------------------------------------------------------
(* Single delivery, until a lease is lost, a process dies or an operator   *)
(* steps in.                                                               *)

\* A cycle's leases are its own to the end, and its rows open until it blocks them.
Kept(w, t) ==
    /\ Holds(rows[t], w) /\ rows[t].live
    /\ phase[w] # "ack" => ~rows[t].blocked

KeptInv == Undisturbed => \A w \in Workers : \A t \in claimed[w] : Kept(w, t)

\* Partial progress: made by handlers, up to the position it will acknowledge and
\* within the reactions of the event in hand.
Progress(w, t) ==
    LET h == entry[w][t] IN
    /\ h.out \in {"none", "leased", "fetched"} => ~h.handled /\ h.done = {}
    /\ h.handled /\ h.out = "run" => h.at = h.upto
    /\ Running(w, t) => h.done \subseteq Reacts[t][Current(w, t).kind]
    /\ phase[w] = "ack" => h.out # "run"

ProgressInv == \A w \in Workers : \A t \in claimed[w] : Progress(w, t)

\* What was handled is behind the row's watermark, or in the hands of the cycle
\* that handled it.
BehindInv ==
    Undisturbed => \A t \in Targets : \A x \in accounted[t] :
        \/ x[1] <= rows[t].at
        \/ \E w \in Workers :
              t \in claimed[w] /\ entry[w][t].handled /\ x[1] <= entry[w][t].at

\* A fatal error has blocked its row, or is on its way to.
FatalInv ==
    Undisturbed => \A t \in Targets : tally[t].fatal # 0 =>
        \/ rows[t].blocked
        \/ \E w \in Workers :
              t \in claimed[w] /\ phase[w] = "handle" /\ entry[w][t].out = "block"
=============================================================================
