------------------------------ MODULE MCWorkers ------------------------------
(* Small instances of Workers for TLC. *)
EXTENDS Workers, CatchupViews, TLC

CONSTANTS d1, d2, s1, ra, rb

ReleaseSymmetry == Permutations(ReleaseId)
ForwardOnly == {1}

\* One node, which can be quarantined and repaired.
Repairable == [ digest |-> d1, targets |-> <<1>>, waveSize |-> 2,
                minSuccess |-> <<1, 1>>, maxFailures |-> 2, waveTimeout |-> 9,
                health |-> [window |-> 1, minSamples |-> 1, maxUnhealthy |-> 0],
                quarantine |-> [maxQuarantined |-> 2, minCoverage |-> <<1, 4>>] ]

\* A plain release of the same node, which moves it on when it is quarantined.
Superseding == [Repairable EXCEPT !.digest = d2, !.health = NoHealth,
                                  !.quarantine = NoQuarantine]

OneReleaseInputs == {Repairable}
TwoReleaseInputs == {Repairable, Superseding}
=============================================================================
