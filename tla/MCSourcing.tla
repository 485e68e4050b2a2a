------------------------------ MODULE MCSourcing ------------------------------
(***************************************************************************)
(* A small instance of EventSourcing: call c1 in one process with cache    *)
(* near, c2 in another with cache far.                                     *)
(***************************************************************************)
EXTENDS EventSourcing, TLC

CONSTANTS c1, c2, near, far

OwnCache == c1 :> near @@ c2 :> far
Every == c1 :> CallKinds @@ c2 :> {"act", "react"}
=============================================================================
