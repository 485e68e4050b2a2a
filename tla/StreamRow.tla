------------------------------ MODULE StreamRow ------------------------------
(***************************************************************************)
(* One subscription row of the store (class InMemoryStream) and the        *)
(* transition each Store method applies to it.  The drain, correlate and   *)
(* reset paths share these rows, so the operators live in a module of      *)
(* their own and the modules of the processes call them.                   *)
(*                                                                         *)
(* Clock readings are abstracted to the two questions the code asks of     *)
(* them: live says that leased_until is still ahead, deferred says that    *)
(* deferred_at is still ahead.  Both become FALSE when time passes.        *)
(***************************************************************************)
EXTENDS Integers

CONSTANTS Holders,   \* the identities a lease can carry (lease.by)
          NoHolder   \* leased_by = undefined

ASSUME NoHolderAssumption == NoHolder \notin Holders

\* correlated_at = undefined: the row was never marked.
Unmarked == -2

\* A watermark (-1 before the first event) or a retry counter (-1 when clean).
Position == Nat \union {-1}

Row == [at: Position, retry: Position, blocked: BOOLEAN,
        by: Holders \union {NoHolder}, live: BOOLEAN, deferred: BOOLEAN,
        mark: Position \union {Unmarked}]

NewRow == [at |-> -1, retry |-> -1, blocked |-> FALSE, by |-> NoHolder,
           live |-> FALSE, deferred |-> FALSE, mark |-> Unmarked]

\* Mutant of IsAvailable: a lease ends only when it is given back.
NeverExpires(row) == ~row.blocked /\ row.by = NoHolder /\ ~row.deferred
\* is_available: not blocked, no lease still running, no defer still ahead.
IsAvailable(row) == ~row.blocked /\ ~row.live /\ ~row.deferred

\* has_work in claim: an unmarked row is not claimable.
HasWork(row) == row.mark # Unmarked /\ row.at < row.mark

\* lease: every grant counts against the retry budget.
LeaseRow(row, by) ==
    [row EXCEPT !.by = by, !.live = TRUE, !.retry = @ + 1]

\* Mutant of Holds: finishing does not look at leased_by.
AnyoneHolds(row, by) == TRUE
Holds(row, by) == row.by = by

\* Mutant of AckRow: the ack that follows a block lifts it.
ForgivingAck(row, at) == [NewRow EXCEPT !.at = at, !.mark = row.mark]
\* ack of a lease without a due marker.
AckRow(row, at) ==
    [row EXCEPT !.by = NoHolder, !.live = FALSE, !.retry = -1,
                !.at = at, !.deferred = FALSE]

\* ack of a lease with a due marker: advance and schedule the next visit.
DueRow(row, at, retry) ==
    [row EXCEPT !.by = NoHolder, !.live = FALSE, !.retry = retry,
                !.at = at, !.deferred = TRUE]

\* block: the lease stays, so that the ack that follows can still release it.
BlockRow(row) == [row EXCEPT !.blocked = TRUE, !.deferred = FALSE]

CanBlock(row, by) == Holds(row, by) /\ ~row.blocked

\* Mutants of ResetRow: the lease survives; the rewind goes one too far.
RewindInPlace(row) == [row EXCEPT !.at = -1, !.retry = -1, !.blocked = FALSE]
RewindTooFar(row) == [NewRow EXCEPT !.mark = row.mark, !.at = -2]
ResetRow(row) == [NewRow EXCEPT !.mark = row.mark]

UnblockRow(row) ==
    [NewRow EXCEPT !.at = row.at, !.mark = row.mark]

\* defer on the port: hold the row back, forgive its failures.
DeferRow(row) == [row EXCEPT !.deferred = TRUE, !.retry = -1]

\* mark never regresses.
MarkRow(row, id) == [row EXCEPT !.mark = IF id > @ THEN id ELSE @]
=============================================================================
