---------------------------- MODULE MCController ----------------------------
(* Instances of Controller for TLC.                                        *)
EXTENDS Controller

CONSTANTS a, b, main, side

Limits(commit, fault, crash, delay) ==
    [commit |-> commit, fault |-> fault, crash |-> crash, delay |-> delay]

OneLane == [s \in Streams |-> main]
TwoLanes == [s \in Streams |-> IF s = a THEN main ELSE side]

\* A lane that drains at its own pace, whose claims fail, whose handlers defer.
Paced == [laneOf |-> OneLane, ticking |-> {main}, threshold |-> 1,
          networked |-> FALSE, grace |-> TRUE, faulty |-> {"claim"},
          outcomes |-> {"ok", "defer"}, budget |-> Limits(2, 1, 1, 2)]

\* The same with handlers that fail and back off.
Failing == [Paced EXCEPT !.faulty = {}, !.outcomes = {"ok", "backoff"}]

\* A default lane, drained by the settle loop alone, on a store that goes down.
Settled == [laneOf |-> OneLane, ticking |-> {}, threshold |-> 1,
            networked |-> TRUE, grace |-> TRUE, faulty |-> {"init", "scan", "claim"},
            outcomes |-> {"ok"}, budget |-> Limits(2, 3, 1, 0)]

\* Two lanes at their own pace behind one breaker.
Shared == [Paced EXCEPT !.laneOf = TwoLanes, !.ticking = {main, side},
                        !.threshold = 2,
                        !.outcomes = {"ok"}, !.budget = Limits(2, 2, 0, 0)]

Promised == {Paced, Failing, Settled, Shared}

\* A default lane whose breaker forgives a first failure, as it does by default.
Forgiving == {[Settled EXCEPT !.threshold = 2]}
=============================================================================
