------------------------------ MODULE MCWebhook ------------------------------
(* Instances of Webhook for TLC.                                           *)
EXTENDS Webhook, TLC

CONSTANTS k1, k2

\* An event is sent and sent again while earlier requests are still on their way.
Impatient == [patient |-> FALSE, maxEntries |-> 2, sent |-> k1 :> 4 @@ k2 :> 0]
\* Two events press on a store with room for one claim, impatiently or not.
Crowded == [patient |-> FALSE, maxEntries |-> 1, sent |-> k1 :> 2 @@ k2 :> 1]
Patient == [patient |-> TRUE, maxEntries |-> 1, sent |-> k1 :> 3 @@ k2 :> 1]
Settings == {Impatient, Crowded, Patient}
=============================================================================
