----------------------------- MODULE MCSessions -----------------------------
(* Instances of Sessions for TLC: one account, tried from several addresses. *)
EXTENDS Sessions, TLC

Clients == 1..3
Keys == Client \X Email
Handlers == 1..2
Tokens == 1..2

Drawn(t) == row[t] # None \/ \E h \in Handler : token[h] = t

(* Goroutines and random tokens are interchangeable: a request is served by *)
(* the first idle handler and draws the first token that is not in use.     *)
InOrder ==
    /\ pc[2] = "idle" /\ pc'[2] # "idle" => pc[1] # "idle"
    /\ Drawn(2)' => Drawn(1)' \/ Drawn(2)
=============================================================================
