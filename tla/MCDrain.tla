------------------------------- MODULE MCDrain -------------------------------
(***************************************************************************)
(* Small instances of Drain.  Target a runs two reactions on every order   *)
(* event and also fetches note events, which none of its reactions wants;  *)
(* target b is a batch projection of the order events alone.               *)
(***************************************************************************)
EXTENDS DrainInvariants, TLC

CONSTANTS a, b, w1, w2, order, note, r1, r2

Symmetric == Permutations({w1, w2})

AllSee == [w \in Workers |-> Targets]

TwoReactions == [t \in Targets |->
    [k \in Kinds |-> IF k = note THEN {} ELSE IF t = a THEN {r1, r2} ELSE {r1}]]
OneReaction == [t \in Targets |-> [k \in Kinds |-> IF k = note THEN {} ELSE {r1}]]
FetchAll == [t \in Targets |-> IF t = a THEN Kinds ELSE Kinds \ {note}]

SamePriority == [t \in Targets |-> 0]

BlockAfterOne == [t \in Targets |->
    [blockOnError |-> TRUE, maxRetries |-> 1, backoff |-> FALSE]]
BackoffAfterOne == [t \in Targets |->
    [blockOnError |-> TRUE, maxRetries |-> 1, backoff |-> TRUE]]

Limits(commit, overrun, crash, failure, defer, operator, truncate) ==
    [c \in Charges |->
        CASE c = "commit" -> commit [] c = "overrun" -> overrun
          [] c = "crash" -> crash [] c = "failure" -> failure
          [] c = "defer" -> defer [] c = "operator" -> operator
          [] c = "truncate" -> truncate]

StealBudget    == Limits(2, 2, 0, 1, 1, 1, 0)
QuietBudget    == Limits(2, 0, 1, 1, 0, 0, 1)
WindowBudget   == Limits(3, 0, 0, 0, 0, 1, 1)
=============================================================================
