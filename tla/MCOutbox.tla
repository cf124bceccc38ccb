------------------------------ MODULE MCOutbox ------------------------------
(* Instances of Outbox for TLC.  Messages are numbers because claims follow *)
(* ORDER BY created_at, id.    *)
EXTENDS Outbox, TLC

TwoMessages == {1, 2}
OneMessage == {1}
Last == {2}
NoMessage == {}
=============================================================================
