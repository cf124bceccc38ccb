--------------------------- MODULE MCRunEvidence ---------------------------
(* Instances of RunEvidence for TLC: the shapes of runs and the contents of *)
(* webhooks.  Two runs of one shape are two projects that used one          *)
(* idempotency key: object and correlation derive from the key alone.       *)
EXTENDS RunEvidence, TLC

OneRun == {1}
TwoRuns == {1, 2}

Signed(supported, object, correlation) ==
    [supported |-> supported, object |-> object, correlation |-> correlation]

TwinRuns == [r \in TwoRuns |-> [object |-> "pi_1", correlation |-> "plcorr_1",
                               fault |-> IF r = 1 THEN "tamper" ELSE "reorder"]]

\* The faults whose verdict a retry could change: its deliveries are duplicates of the first.
RetriedFaults ==
    <<[object |-> "pi_1", correlation |-> "plcorr_1", fault |-> "duplicate"],
      [object |-> "pi_2", correlation |-> "plcorr_2", fault |-> "none"]>>

Matching == {Signed(TRUE, "pi_1", "plcorr_1")}

Contents ==
    {Signed(TRUE, "pi_1", "plcorr_1"), Signed(TRUE, "pi_1", "plcorr_2"),
     Signed(TRUE, "pi_1", None), Signed(TRUE, None, None), Signed(FALSE, None, None)}

\* Neither workers nor event ids are told apart or ordered.
Symmetry == Permutations(Worker) \cup Permutations(StripeEvent)
=============================================================================
