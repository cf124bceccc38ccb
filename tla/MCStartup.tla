----------------------------- MODULE MCStartup -----------------------------
(* Instances of Startup for TLC.  "schema" stands for 000001 and 000002,    *)
(* "floor" for 000003; a release without the floor, one with it, and one    *)
(* whose schema file was edited after it had been applied elsewhere.        *)
EXTENDS Startup, TLC

CONSTANTS old, new, twin, worker

Releases ==
    old :> <<"schema">> @@ new :> <<"schema", "floor">> @@ twin :> <<"schema", "floor">>
        @@ worker :> <<"edited", "floor">>
=============================================================================
