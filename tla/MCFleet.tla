------------------------------- MODULE MCFleet -------------------------------
(* Small instances of Fleet for TLC. *)
EXTENDS Fleet, TLC

CONSTANTS d1, d2, s1, ra, rb

ReleaseSymmetry == Permutations(ReleaseId)
ForwardOnly == {1}

\* One node, watched: an unhealthy sample withdraws the release.
Watched == [ digest |-> d1, targets |-> <<1>>, waveSize |-> 1,
             minSuccess |-> <<1, 1>>, maxFailures |-> 0, waveTimeout |-> 1,
             health |-> [window |-> 1, minSamples |-> 1, maxUnhealthy |-> 0],
             quarantine |-> [maxQuarantined |-> 0, minCoverage |-> <<1, 2>>] ]

\* Another version, without quarantine.
Plain == [Watched EXCEPT !.digest = d2, !.quarantine = NoQuarantine]

WatchedInputs == {Watched, Plain}
=============================================================================
