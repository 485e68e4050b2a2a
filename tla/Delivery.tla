------------------------------ MODULE Delivery -------------------------------
(***************************************************************************)
(* What the drain promises, without leases, cycles, retries or clocks:     *)
(* every target walks the log from the beginning, and its watermark passes *)
(* an event only once all of its reactions on that event are accounted for *)
(* (they ran, or a close gave the event up).  A target stops only when it  *)
(* is blocked; it starts over only when it is rewound.  Reactions may run  *)
(* any number of times and ahead of the watermark: delivery is             *)
(* at-least-once.                                                          *)
(***************************************************************************)
EXTENDS Integers

CONSTANTS Targets, Kinds, Reactions, Reacts, Fetches, FirstId

VARIABLES log, nextId, at, blocked, accounted

vars == <<log, nextId, at, blocked, accounted>>

Deliverable(t, e) == e.kind \in Fetches[t] /\ Reacts[t][e.kind] # {}

\* Nothing up to id n is still owed to the target.
Settled(t, n) ==
    \A e \in log : Deliverable(t, e) /\ e.id <= n =>
        {e.id} \X Reacts[t][e.kind] \subseteq accounted[t]

Init ==
    /\ log = {} /\ nextId = FirstId
    /\ at = [t \in Targets |-> -1]
    /\ blocked = [t \in Targets |-> FALSE]
    /\ accounted = [t \in Targets |-> {}]

Publish(k) ==
    /\ log' = log \union {[id |-> nextId, kind |-> k]}
    /\ nextId' = nextId + 1
    /\ UNCHANGED <<at, blocked, accounted>>

\* A close removes events that every target has passed.
Withdraw ==
    /\ log' \subseteq log
    /\ \A e \in log \ log', t \in Targets : Deliverable(t, e) => e.id <= at[t]
    /\ UNCHANGED <<nextId, at, blocked, accounted>>

\* Reactions run, on events that have been published.
Handle(t) ==
    /\ \A u \in Targets : accounted[u] \subseteq accounted'[u]
    /\ \A u \in Targets \ {t} : accounted'[u] = accounted[u]
    /\ accounted'[t] \ accounted[t] \subseteq (FirstId .. nextId - 1) \X Reactions
    /\ UNCHANGED <<log, nextId, at, blocked>>

\* Watermarks move forward, over settled events only.
Advance ==
    /\ \A t \in Targets :
          at'[t] # at[t] => at'[t] > at[t] /\ Settled(t, at'[t])
    /\ UNCHANGED <<log, nextId, blocked, accounted>>

Block ==
    /\ \A t \in Targets : blocked[t] => blocked'[t]
    /\ UNCHANGED <<log, nextId, at, accounted>>

Release(S) ==
    /\ blocked' = [t \in Targets |-> t \notin S /\ blocked[t]]
    /\ UNCHANGED <<log, nextId, at, accounted>>

Rewind(S) ==
    /\ at' = [t \in Targets |-> IF t \in S THEN -1 ELSE at[t]]
    /\ blocked' = [t \in Targets |-> t \notin S /\ blocked[t]]
    /\ accounted' = [t \in Targets |-> IF t \in S THEN {} ELSE accounted[t]]
    /\ UNCHANGED <<log, nextId>>

Next ==
    \/ Withdraw \/ Advance \/ Block
    \/ \E k \in Kinds : Publish(k)
    \/ \E t \in Targets : Handle(t)
    \/ \E S \in SUBSET Targets : Release(S) \/ Rewind(S)

Spec == Init /\ [][Next]_vars
=============================================================================
