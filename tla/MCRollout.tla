------------------------------ MODULE MCRollout ------------------------------
(* Small instances of Rollout and Views for TLC. *)
EXTENDS Views, TLC

CONSTANTS d1, d2, s1, s2, s3, ra, rb

SampleSymmetry == Permutations(SampleId)
ForwardOnly == {1}
ForwardAndBack == {-1, 1}

Base == [ digest |-> d1, targets |-> <<1, 2, 3>>, waveSize |-> 2,
          minSuccess |-> <<1, 2>>, maxFailures |-> 0, waveTimeout |-> 1,
          health |-> NoHealth, quarantine |-> NoQuarantine ]

\* Two waves with observation and quarantine: one unhealthy node is tolerated, one
\* node may be quarantined, and half of the succeeded nodes must stay covered.
Observed == [Base EXCEPT !.health = [window |-> 1, minSamples |-> 1, maxUnhealthy |-> 0],
                         !.quarantine = [maxQuarantined |-> 1, minCoverage |-> <<1, 2>>]]

\* Every node must succeed, one failure and one unhealthy node are tolerated.
Tolerant == [Observed EXCEPT !.minSuccess = <<1, 1>>, !.maxFailures = 1,
                             !.health.maxUnhealthy = 1, !.quarantine.maxQuarantined = 2]

ObservedInputs == {Observed, Tolerant}

\* Two waves of one node each: for liveness.
Timed == [Observed EXCEPT !.targets = <<1, 2>>, !.waveSize = 1, !.minSuccess = <<1, 1>>,
                          !.maxFailures = 1]

TimedInputs == {Timed}

\* No node may be quarantined, and every node of a wave must succeed.
Strict == [Observed EXCEPT !.minSuccess = <<1, 1>>, !.quarantine.maxQuarantined = 0]

StrictInputs == {Strict}
=============================================================================
