------------------------------- MODULE MCClose -------------------------------
(***************************************************************************)
(* Small instances of CloseCycle: call c1 and the closers x and y share    *)
(* the cache of one process.                                               *)
(***************************************************************************)
EXTENDS CloseCycle, TLC

CONSTANTS c1, near, x, y

OneCache == c1 :> near
ActAndReact == c1 :> {"act", "react"}

\* One full close at a time, kept from the races; two windowed ones at once.
FullClose(k) == [modes |-> k :> {"restart", "retire"} @@ [j \in Closers |-> {}],
                 kinds |-> {"act", "react"}, names |-> Names,
                 alone |-> TRUE, straddling |-> FALSE]
BothPrune == [modes |-> x :> {"window"} @@ y :> {"window"},
              kinds |-> {"act"}, names |-> Reactive, alone |-> FALSE, straddling |-> TRUE]
Practices == {FullClose(k) : k \in Closers} \cup {BothPrune}
Symmetric == Permutations({x, y})
=============================================================================
