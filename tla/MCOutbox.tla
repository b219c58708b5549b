------------------------------ MODULE MCOutbox ------------------------------
(* A small instance of Outbox: two events of kinds every endpoint takes.   *)
(* What an endpoint does not subscribe to is covered by OutboxProofs.      *)
EXTENDS Outbox

MCSubscribes == [p \in Endpoints |-> Events]
=============================================================================
