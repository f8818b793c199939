-------------------------------- MODULE Views --------------------------------
(***************************************************************************)
(* What the queries GetProgress and GetHealth answer (service.go,          *)
(* health.go and quarantine.go).  Both settle the release first, which is  *)
(* the action TickTimeout of Rollout, and describe the result in the same  *)
(* transaction.  The views compute limits, coverage and the health of      *)
(* nodes with code of their own; the properties relate them to what the    *)
(* handlers decide.                                                        *)
(***************************************************************************)
EXTENDS Rollout

-----------------------------------------------------------------------------
(* GetProgress *)

WaveStatus(r, w) ==
    [ total |-> Cardinality(WaveNodes(r, w)),
      required |-> RequiredSuccess(r.input.minSuccess, Cardinality(WaveNodes(r, w))),
      succeeded |-> Cardinality(InWave(r, w, "succeeded")),
      failed |-> Cardinality(InWave(r, w, "failed")),
      inProgress |-> Cardinality(InWave(r, w, "in_progress")),
      pending |-> Cardinality(InWave(r, w, "pending")),
      open |-> r.state = "active" /\ w = r.currentWave ]

ProgressOf(r) ==
    [ state |-> r.state, pauseReason |-> r.pauseReason, currentWave |-> r.currentWave,
      waveOpenedAt |-> r.waveOpenedAt,
      waves |-> [w \in 0 .. r.lastWave |-> WaveStatus(r, w)] ]

GetProgress(id) == ProgressOf(EvaluateLocked(releases[id], now))

-----------------------------------------------------------------------------
(* GetHealth *)

\* Faulty: the evidence is shown, whatever was decided about it.
NodeHealthUnaware(r, n) ==
    IF r.result[n] # "succeeded" THEN "unknown"
    ELSE IF \E s \in SamplesOf(r, n) : ~s.healthy THEN "unhealthy"
    ELSE IF HealthEnabled(r)
            /\ Cardinality(SamplesOf(r, n)) >= r.input.health.minSamples THEN "healthy"
    ELSE "observing"

NodeHealth(r, n) ==
    IF n \in r.quarantined THEN "quarantined"
    ELSE IF r.result[n] # "succeeded" THEN "unknown"
    ELSE IF \E s \in SamplesOf(r, n) : ~s.healthy THEN "unhealthy"
    ELSE IF HealthEnabled(r)
            /\ Cardinality(SamplesOf(r, n)) >= r.input.health.minSamples THEN "healthy"
    ELSE "observing"

NodeHealthView(r, n) ==
    [ wave |-> r.wave[n], result |-> r.result[n], health |-> NodeHealth(r, n),
      samples |-> Cardinality(SamplesOf(r, n)),
      prev |-> r.prev[n], current |-> nodes[n].digest ]

\* Coverage is 1 while nothing succeeded.
QuarantineViewOf(r) ==
    LET succeeded == InWave(r, r.currentWave, "succeeded")
        covered == succeeded \ r.quarantined
        coverage == IF succeeded = {} THEN <<1, 1>>
                    ELSE <<Cardinality(covered), Cardinality(succeeded)>>
        min == r.input.quarantine.minCoverage
    IN  [ total |-> Cardinality(r.quarantined), coverage |-> coverage,
          limitBreached |->
              \/ Cardinality(r.quarantined) > r.input.quarantine.maxQuarantined
              \/ succeeded # {} /\ coverage[1] * min[2] < min[1] * coverage[2] ]

RollbackViewOf(r) ==
    [reason |-> r.rollbackReason, total |-> Cardinality(r.planned),
     restored |-> Cardinality(r.restored)]

HealthViewOf(r) ==
    LET unhealthy == {n \in WaveNodes(r, r.currentWave) :
                          r.result[n] = "succeeded" /\ NodeHealth(r, n) = "unhealthy"}
    IN  [ state |-> r.state, currentWave |-> r.currentWave,
          windowEndsAt |-> r.thresholdMetAt + r.input.health.window,
          observing |-> HealthEnabled(r) /\ r.thresholdMetAt # NotMet
                            /\ r.state = "active",
          unhealthyNodes |-> Cardinality(unhealthy),
          thresholdBreached |-> HealthEnabled(r)
              /\ Cardinality(unhealthy) > r.input.health.maxUnhealthy,
          node |-> [n \in Targets(r) |-> NodeHealthView(r, n)],
          \* nil when the release has no such policy or plan
          quarantine |-> IF QuarantineEnabled(r) THEN {QuarantineViewOf(r)} ELSE {},
          rollback |-> IF Withdrawn(r) THEN {RollbackViewOf(r)} ELSE {} ]

GetHealth(id) == HealthViewOf(EvaluateLocked(releases[id], now))

-----------------------------------------------------------------------------

\* The progress of a release tells its caller who may still report: a wave is shown
\* open only while it lacks successes or is observed, and the nodes shown in
\* progress there are those whose receipt the service would take now.  The nodes
\* shown in progress in an older wave can never report again (service.go 253-269,
\* 569-612).
ProgressShowsWhoMayReport ==
    \A id \in Created :
        LET settled == EvaluateLocked(releases[id], now)
            view == ProgressOf(settled)
            open == {w \in DOMAIN view.waves : view.waves[w].open}
            mayReport == {n \in Node :
                             ReceiptAccepted(EvaluateLocked(settled, now), n)}
        IN  /\ \A w \in open :
                  \/ view.waves[w].succeeded < view.waves[w].required
                  \/ HealthViewOf(settled).observing
            /\ (\A n \in Node : nodes[n].releaseSeq <= settled.seq) =>
                  IF open = {} THEN mayReport = {}
                  ELSE \E w \in open : view.waves[w].inProgress = Cardinality(mayReport)

\* The health view agrees with what the service did on the same state: a release shown
\* observing exceeds no limit shown; one shown past the end of its window shows a node
\* whose samples it lacks; one that was withdrawn still shows the limit that withdrew
\* it, and all its nodes restored exactly when it is shown rolled back (health.go
\* 125-198 against 444-553, quarantine.go 161-214).
HealthViewTruthful ==
    \A id \in Created :
        LET r == releases[id]
            view == GetHealth(id)
            limitBreached == \E q \in view.quarantine : q.limitBreached
            lacking == {n \in DOMAIN view.node :
                           /\ view.node[n].wave = view.currentWave
                           /\ view.node[n].result = "succeeded"
                           /\ view.node[n].health # "quarantined"
                           /\ view.node[n].samples < r.input.health.minSamples}
        IN  /\ view.observing => ~view.thresholdBreached /\ ~limitBreached
            /\ view.observing /\ now >= view.windowEndsAt => lacking # {}
            /\ \A rb \in view.rollback :
                  /\ rb.reason = "health_threshold" <=> view.thresholdBreached
                  /\ rb.reason = "quarantine_limit" => limitBreached
                  /\ rb.restored = rb.total <=> view.state = "rolled_back"
=============================================================================
