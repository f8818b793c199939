------------------------------ MODULE MCCatchup ------------------------------
(* Small instances of Catchup and CatchupViews for TLC. *)
EXTENDS CatchupViews, TLC

CONSTANTS d1, s1, s2, s3, ra

SampleSymmetry == Permutations(SampleId)
ForwardOnly == {1}

\* Two waves, nodes 1 and 2 in the first; up to two may be quarantined, and a quarter
\* of a wave must stay covered.
Repairable == [ digest |-> d1, targets |-> <<1, 2, 3>>, waveSize |-> 2,
                minSuccess |-> <<1, 1>>, maxFailures |-> 2, waveTimeout |-> 9,
                health |-> [window |-> 1, minSamples |-> 1, maxUnhealthy |-> 0],
                quarantine |-> [maxQuarantined |-> 2, minCoverage |-> <<1, 4>>] ]

OneReleaseInputs == {Repairable}
=============================================================================
