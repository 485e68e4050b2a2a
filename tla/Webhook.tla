------------------------------- MODULE Webhook -------------------------------
(***************************************************************************)
(* An event leaves the system and enters another: the webhook reaction of  *)
(* the sender (act-http/webhook) against a receiver that dedups deliveries *)
(* by their Idempotency-Key in two phases, a tentative claim that is       *)
(* committed when the handler succeeds and released when it fails          *)
(* (act-http/receiver over the in-memory store of act-ops/idempotency).    *)
(*                                                                         *)
(* One action per await.  The key of a delivery is its event; signatures   *)
(* and missing keys are left out, they end a request before its claim.     *)
(***************************************************************************)
EXTENDS Integers, SequencesExt, FiniteSets

CONSTANTS Keys,         \* events to deliver, one Idempotency-Key each
          MaxRetries,   \* of the reaction, with blockOnError
          Setups,       \* the circumstances considered, see Setup
          MaxFaults     \* bound on losses, crashes and operator steps

\* patient: the sender waits for as long as a handler runs, and holds its lease
\* for as long as it waits; maxEntries: of the idempotency store; sent: bound on
\* the requests of each key.
Setup == [patient : BOOLEAN, maxEntries : Nat \ {0}, sent : [Keys -> Nat]]

ASSUME WebhookAssumption ==
    /\ IsFiniteSet(Keys)
    /\ MaxRetries \in Nat
    /\ Setups \subseteq Setup
    /\ MaxFaults \in Nat

VARIABLES
    setup,
    row,       \* [Keys -> state of the sender's subscription row]
    tries,     \* [Keys -> attempts without success]
    request,   \* [Keys -> [Sent(key) -> request]]
    entries,   \* the idempotency store, the least recently touched first
    effects,   \* history: [Keys -> times the handler succeeded]
    crashes, faults

sender == <<row, tries>>
vars == <<setup, sender, request, entries, effects, crashes, faults>>

Sent(k) == 1 .. setup.sent[k]
Ok == 204
Invalid == 422
Failed == 500
NoAnswer == 0

Request == [phase : {"none", "wire", "handle", "finish", "return", "reply", "gone"},
            status : {NoAnswer, Ok, Invalid, Failed},
            settled : BOOLEAN,      \* the finalizers have fired, or are inert
            waiting : BOOLEAN]      \* the sender still awaits fetch

Unsent == [phase |-> "none", status |-> NoAnswer, settled |-> FALSE, waiting |-> FALSE]

\* A request or its response that will not arrive any more.
Gone(waiting) == [Unsent EXCEPT !.phase = "gone", !.waiting = waiting]

Init ==
    /\ setup \in Setups
    /\ row = [k \in Keys |-> "pending"]
    /\ tries = [k \in Keys |-> 0]
    /\ request = [k \in Keys |-> [n \in Sent(k) |-> Unsent]]
    /\ entries = <<>>
    /\ effects = [k \in Keys |-> 0]
    /\ crashes = 0 /\ faults = 0

Fault == faults < MaxFaults /\ faults' = faults + 1

At(k, n, phase) == request[k][n].phase = phase
Put(k, n, r) == request' = [request EXCEPT ![k][n] = r]

-----------------------------------------------------------------------------
(* The idempotency store.                                                  *)

Entry == [key : Keys, committed : BOOLEAN]

Seen(k) == \E i \in DOMAIN entries : entries[i].key = k
Committed(k) == \E i \in DOMAIN entries : entries[i] = [key |-> k, committed |-> TRUE]

Without(s, k) ==
    IF \E i \in DOMAIN s : s[i].key = k
    THEN RemoveAt(s, CHOOSE i \in DOMAIN s : s[i].key = k) ELSE s

\* Mutant of Victims: the oldest entry, committed or not (#1335).
Oldest(s, k) == {i \in DOMAIN s : s[i].key # k}
\* Only tentative claims of other keys may be evicted.
Victims(s, k) == {i \in DOMAIN s : s[i].key # k /\ ~s[i].committed}

\* Mutant of Fits: one too many.
FitsLoosely(s) == Len(s) <= setup.maxEntries + 1
Fits(s) == Len(s) <= setup.maxEntries

\* An entry is touched; past maxEntries the least recent victim goes.
Record(k, committed) ==
    LET s == Append(Without(entries, k), [key |-> k, committed |-> committed])
        out == Victims(s, k)
    IN  entries' = IF Fits(s) \/ out = {} THEN s
                   ELSE RemoveAt(s, CHOOSE i \in out : \A j \in out : i <= j)

\* A committed key stays.
Release(k) == entries' = IF Committed(k) THEN entries ELSE Without(entries, k)

-----------------------------------------------------------------------------
(* The sender: one drain of the webhook's row per attempt.                 *)

Waiting(k) == \E n \in Sent(k) : request[k][n].waiting

\* Requests are sent one after the other, unless the lease was lost while the
\* sender waited.
Send(k, n) ==
    /\ row[k] = "pending" /\ (setup.patient => ~Waiting(k))
    /\ At(k, n, "none") /\ \A m \in Sent(k) : m < n => ~At(k, m, "none")
    /\ Put(k, n, [Unsent EXCEPT !.phase = "wire", !.waiting = TRUE])
    /\ UNCHANGED <<setup, sender, entries, effects, crashes, faults>>

\* Mutant of Disposition: a client error is acknowledged like a success.
OkBelow500(status) ==
    IF status = NoAnswer \/ status >= 500 THEN "retry" ELSE "ok"
\* classify_http_response, and no answer at all.
Disposition(status) ==
    CASE status = Ok -> "ok"
      [] status = NoAnswer \/ status >= 500 -> "retry"
      [] OTHER -> "block"

\* The reaction returns or throws, and the drain finalizes its row.
Settle(k, status) ==
    LET how == Disposition(status)
    IN  IF row[k] # "pending" THEN UNCHANGED <<row, tries>>
        ELSE /\ tries' = [tries EXCEPT ![k] = IF how = "retry" THEN @ + 1 ELSE 0]
             /\ row' = [row EXCEPT ![k] =
                    CASE how = "ok" -> "acked"
                      [] how = "block" \/ tries[k] >= MaxRetries -> "blocked"
                      [] OTHER -> "pending"]

Answer(k, n) ==
    /\ At(k, n, "reply")
    /\ Put(k, n, Gone(FALSE))
    /\ IF request[k][n].waiting THEN Settle(k, request[k][n].status)
       ELSE UNCHANGED <<row, tries>>
    /\ UNCHANGED <<setup, entries, effects, crashes, faults>>

\* timeoutMs is over, or the connection broke: the fetch is aborted, the
\* receiver goes on.
Timeout(k, n) ==
    /\ request[k][n].waiting /\ (setup.patient => At(k, n, "gone"))
    /\ Put(k, n, [request[k][n] EXCEPT !.waiting = FALSE])
    /\ Settle(k, NoAnswer)
    /\ UNCHANGED <<setup, entries, effects, crashes, faults>>

\* The operator unblocks the row.
Unblock(k) ==
    /\ row[k] = "blocked" /\ Fault
    /\ row' = [row EXCEPT ![k] = "pending"]
    /\ tries' = [tries EXCEPT ![k] = 0]
    /\ UNCHANGED <<setup, request, entries, effects, crashes>>

-----------------------------------------------------------------------------
(* The receiver.                                                           *)

\* checkWebhook claims the key; the finalizers of a duplicate are inert, its
\* handler is not run, its body is still validated.
Receive(k, n) ==
    /\ At(k, n, "wire")
    /\ IF Seen(k)
       THEN \E status \in {Ok, Invalid} :
               /\ Put(k, n, [request[k][n] EXCEPT !.phase = "return", !.status = status,
                                                  !.settled = TRUE])
               /\ IF status = Ok THEN UNCHANGED faults ELSE Fault
               /\ UNCHANGED entries
       ELSE /\ Put(k, n, [request[k][n] EXCEPT !.phase = "handle"])
            /\ Record(k, FALSE)
            /\ UNCHANGED faults
    /\ UNCHANGED <<setup, sender, effects, crashes>>

\* The handler succeeds, fails, or its body does not validate.
Handle(k, n, status) ==
    /\ At(k, n, "handle")
    /\ Put(k, n, [request[k][n] EXCEPT !.status = status,
                    !.phase = IF status = Invalid THEN "return" ELSE "finish"])
    /\ effects' = [effects EXCEPT ![k] = IF status = Ok THEN @ + 1 ELSE @]
    /\ status # Ok => Fault
    /\ status = Ok => UNCHANGED faults
    /\ UNCHANGED <<setup, sender, entries, crashes>>

\* Mutant of Outcome: a client error is final as well (#1364).
CommitBelow500(status) == IF status < 500 THEN "commit" ELSE "release"
\* Which finalizer a status calls for.
Outcome(status) == IF status < 400 THEN "commit" ELSE "release"

\* Mutant of Settled: the finalizers fire each time (#1293).
NeverSettled(r) == FALSE
Settled(r) == r.settled

\* One of the finalizers, at most once per delivery.
Finalize(k, n, next) ==
    /\ Put(k, n, [request[k][n] EXCEPT !.phase = next, !.settled = TRUE])
    /\ IF Settled(request[k][n]) THEN UNCHANGED entries
       ELSE IF Outcome(request[k][n].status) = "commit" THEN Record(k, TRUE)
       ELSE Release(k)
    /\ UNCHANGED <<setup, sender, effects, crashes, faults>>

\* The builder's route finalizes, then the middleware around it.
Finish(k, n) == At(k, n, "finish") /\ Finalize(k, n, "return")
Return(k, n) == At(k, n, "return") /\ Finalize(k, n, "reply")

-----------------------------------------------------------------------------
(* What goes wrong.                                                        *)

\* A request or a response is lost.
Lose(k, n) ==
    /\ At(k, n, "wire") \/ At(k, n, "reply")
    /\ Fault
    /\ Put(k, n, Gone(request[k][n].waiting))
    /\ UNCHANGED <<setup, sender, entries, effects, crashes>>

\* The receiving process dies, and its store with it.
Crash ==
    /\ Fault
    /\ entries' = <<>>
    /\ crashes' = crashes + 1
    /\ request' = [k \in Keys |-> [n \in Sent(k) |->
         IF request[k][n].phase \in {"handle", "finish", "return"}
         THEN Gone(request[k][n].waiting) ELSE request[k][n]]]
    /\ UNCHANGED <<setup, sender, effects>>

Next ==
    \/ \E k \in Keys : \E n \in Sent(k) :
          \/ Send(k, n) \/ Answer(k, n) \/ Timeout(k, n)
          \/ Receive(k, n) \/ Finish(k, n) \/ Return(k, n) \/ Lose(k, n)
          \/ \E status \in {Ok, Invalid, Failed} : Handle(k, n, status)
    \/ \E k \in Keys : Unblock(k)
    \/ Crash

Spec == Init /\ [][Next]_vars

-----------------------------------------------------------------------------
(* Properties.                                                             *)

\* The type invariant; what the store holds beyond maxEntries is committed,
\* but for the entry touched last.
TypeOK ==
    /\ setup \in Setups
    /\ row \in [Keys -> {"pending", "acked", "blocked"}]
    /\ tries \in [Keys -> Nat]
    /\ \A k \in Keys : request[k] \in [Sent(k) -> Request]
    /\ entries \in Seq(Entry)
    /\ Len(entries) > setup.maxEntries => \A i \in 1 .. Len(entries) - 1 : entries[i].committed
    /\ effects \in [Keys -> Nat]
    /\ crashes \in Nat /\ faults \in Nat

Handling(k) == {n \in Sent(k) : request[k][n].phase \in {"handle", "finish"}}
Roomy == Cardinality({k \in Keys : setup.sent[k] > 0}) <= setup.maxEntries

\* A key is processed successfully at most once per life of the receiver,
\* whatever is retried, times out or overlaps, as long as the store has room for
\* every claim: no late or second release frees another delivery's claim (#1293).
AtMostOnce == Roomy => \A k \in Keys : effects[k] <= 1 + crashes

\* Once a delivery of a key is committed its duplicates are not let through to
\* the handler, also when the store is full of other claims (#1335) and other
\* deliveries of the key fail afterwards.
CommittedStays ==
    [][\A k \in Keys : Committed(k) /\ crashes' = crashes =>
          Committed(k)' /\ Handling(k)' \subseteq Handling(k)]_vars

\* A delivery the sender counts as done has been processed, if the sender is
\* patient: failures, client errors, losses, crashes and retries included.
AckedIsProcessed ==
    setup.patient => \A k \in Keys : row[k] = "acked" => effects[k] > 0
=============================================================================
