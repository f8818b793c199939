------------------------------- MODULE Release -------------------------------
(***************************************************************************)
(* One release record of the configrollout service (model.go, type         *)
(* Release) and the helpers every handler calls on it while it holds the   *)
(* store's transaction: the "...Locked" functions of service.go, health.go *)
(* and catchup.go.  They are pure operators that take a release (and the   *)
(* transaction's reading of the clock) and return the release the Go       *)
(* helper leaves behind; the handlers themselves are the actions of        *)
(* Rollout and Catchup.                                                    *)
(*                                                                         *)
(* Abstractions.  A ratio is a pair <<numerator, denominator>>.  Time is   *)
(* an integer number of ticks.  The outbox is seen as counters per event   *)
(* type, which is all that "exactly once" needs; Version and the           *)
(* paused/resumed events, which nothing reads, are left out.               *)
(***************************************************************************)
EXTENDS Integers, Sequences, FiniteSets

CONSTANTS
    Node,       \* node identifiers; integers, because claims pick the smallest
    Digest,     \* configuration digests
    NoDigest,   \* the empty digest: the node runs nothing
    SampleId    \* event identifiers of health samples

ASSUME NodeAssumption == Node \subseteq Nat /\ IsFiniteSet(Node)
ASSUME DigestAssumption == NoDigest \notin Digest

-----------------------------------------------------------------------------
(* Frozen input of CreateRelease *)

Ratio == Nat \X (Nat \ {0})
ZeroRatio == <<0, 1>>

HealthPolicy == [window : Nat, minSamples : Nat, maxUnhealthy : Nat]
QuarantinePolicy == [maxQuarantined : Nat, minCoverage : Ratio]

\* The zero values, with which a caller leaves the feature off.
NoHealth == [window |-> 0, minSamples |-> 0, maxUnhealthy |-> 0]
NoQuarantine == [maxQuarantined |-> 0, minCoverage |-> ZeroRatio]

Input == [ digest : Digest, targets : Seq(Node), waveSize : Nat,
           minSuccess : Ratio, maxFailures : Nat, waveTimeout : Nat,
           health : HealthPolicy, quarantine : QuarantinePolicy ]

\* A ratio that CreateRelease accepts: in (0, 1].
Proper(ratio) == 0 < ratio[1] /\ ratio[1] <= ratio[2]

ValidInput(in) ==
    /\ in.waveSize > 0
    /\ in.targets # <<>>
    /\ Proper(in.minSuccess)
    /\ in.waveTimeout > 0
    /\ in.health # NoHealth => in.health.window > 0 /\ in.health.minSamples >= 1
    /\ in.quarantine # NoQuarantine =>
           in.health # NoHealth /\ Proper(in.quarantine.minCoverage)
    /\ \A i, j \in DOMAIN in.targets : in.targets[i] = in.targets[j] => i = j

-----------------------------------------------------------------------------
(* The release record *)

ReleaseState == {"active", "paused", "rolling_back",
                 "cancelled", "completed", "rolled_back"}
Terminal == {"cancelled", "completed", "rolled_back"}
NodeResult == {"pending", "in_progress", "succeeded", "failed"}
PauseReason == {"none", "manual", "failure_threshold", "timeout"}
RollbackReason == {"none", "health_threshold", "quarantine_limit"}

NoWave == -1      \* wave of a node outside the frozen target set
NotMet == -1      \* zero value of ThresholdMetAt

\* Outbox event types written at most once per release, and per node.
ReleaseNotice == {"release.created", "wave.opened", "release.cancelled",
                  "release.completed", "rollback.started", "release.rolledback",
                  "catchup.created", "catchup.aborted", "catchup.completed"}
NodeNotice == {"node.succeeded", "node.failed", "node.compensation",
               "node.rollback", "node.restored", "node.quarantined",
               "node.catchup_succeeded"}

Sample == [id : SampleId, node : Node, healthy : BOOLEAN, receivedAt : Int]

LiveCatchup == {"pending", "claimed"}
EntryState == LiveCatchup \cup {"none", "succeeded", "failed", "aborted"}
PlanState == LiveCatchup \cup {"none", "done", "aborted"}
CatchupEntry == [state : EntryState, epoch : Nat, leaseUntil : Int, baseline : Nat]
CatchupPlan == [state : PlanState, entry : [Node -> CatchupEntry]]

NoEntry == [state |-> "none", epoch |-> 0, leaseUntil |-> 0, baseline |-> 0]
NoPlan == [state |-> "none", entry |-> [n \in Node |-> NoEntry]]

Release ==
    [ seq : Nat, input : Input,
      wave : [Node -> Int], lastWave : Nat,
      state : ReleaseState, pauseReason : PauseReason,
      currentWave : Nat, waveOpenedAt : Int, thresholdMetAt : Int,
      result : [Node -> NodeResult], prev : [Node -> Digest \cup {NoDigest}],
      samples : SUBSET Sample, quarantined : SUBSET Node, remediated : SUBSET Node,
      nilMaps : SUBSET {"samples", "quarantined"},
      planned : SUBSET Node, restored : SUBSET Node, rollbackReason : RollbackReason,
      attempt : Nat, plan : CatchupPlan,
      sent : [ReleaseNotice -> Nat], sentTo : [NodeNotice -> [Node -> Nat]] ]

-----------------------------------------------------------------------------
(* Reading a release *)

HealthEnabled(r) == r.input.health # NoHealth
QuarantineEnabled(r) == r.input.quarantine # NoQuarantine

Targets(r) == {n \in Node : r.wave[n] # NoWave}
WaveNodes(r, w) == {n \in Node : r.wave[n] = w}
InWave(r, w, result) == {n \in WaveNodes(r, w) : r.result[n] = result}
Succeeded(r) == {n \in Node : r.result[n] = "succeeded"}

\* ceil(ratio * size)
RequiredSuccess(ratio, size) == (ratio[1] * size + ratio[2] - 1) \div ratio[2]

ThresholdReachedIn(r, w) ==
    Cardinality(InWave(r, w, "succeeded"))
        >= RequiredSuccess(r.input.minSuccess, Cardinality(WaveNodes(r, w)))

ThresholdReached(r) == ThresholdReachedIn(r, r.currentWave)

\* Succeeded nodes of wave w that still count for the health gate.
Covered(r, w) == InWave(r, w, "succeeded") \ r.quarantined

SamplesOf(r, n) == {s \in r.samples : s.node = n}
Unhealthy(r, w) == {n \in Covered(r, w) : \E s \in SamplesOf(r, n) : ~s.healthy}

TooManyUnhealthy(r) ==
    Cardinality(Unhealthy(r, r.currentWave)) > r.input.health.maxUnhealthy

\* covered / succeeded < MinHealthyCoverage, without the division.
CoverageTooLow(r) ==
    LET min == r.input.quarantine.minCoverage
    IN  Cardinality(Covered(r, r.currentWave)) * min[2]
            < min[1] * Cardinality(InWave(r, r.currentWave, "succeeded"))

QuarantineLimitBreached(r) ==
    /\ QuarantineEnabled(r)
    /\ \/ Cardinality(r.quarantined) > r.input.quarantine.maxQuarantined
       \/ CoverageTooLow(r)

\* Why the health gate demands a rollback now; "none" when it does not.
Breach(r) == IF TooManyUnhealthy(r) THEN "health_threshold"
             ELSE IF QuarantineLimitBreached(r) THEN "quarantine_limit"
             ELSE "none"

\* Faulty: the window lasts one tick too long.
ObservationPassedLate(r, now) ==
    /\ now - r.thresholdMetAt > r.input.health.window
    /\ \A n \in Covered(r, r.currentWave) :
           Cardinality(SamplesOf(r, n)) >= r.input.health.minSamples

ObservationPassed(r, now) ==
    /\ now - r.thresholdMetAt >= r.input.health.window
    /\ \A n \in Covered(r, r.currentWave) :
           Cardinality(SamplesOf(r, n)) >= r.input.health.minSamples

-----------------------------------------------------------------------------
(* The helpers the handlers call under the transaction *)

Emit(r, notice) == [r EXCEPT !.sent[notice] = @ + 1]

EmitTo(r, notice, nodes) ==
    [r EXCEPT !.sentTo[notice] =
        [n \in Node |-> IF n \in nodes THEN @[n] + 1 ELSE @[n]]]

PauseLocked(r, reason) == [r EXCEPT !.state = "paused", !.pauseReason = reason]

\* Faulty: the window of the wave before is inherited.
OpenWaveKeepsWindow(r, w, now) ==
    Emit([r EXCEPT !.currentWave = w, !.waveOpenedAt = now,
                   !.result = [n \in Node |-> IF r.wave[n] = w THEN "in_progress"
                                              ELSE @[n]]],
         "wave.opened")

OpenWave(r, w, now) ==
    Emit([r EXCEPT !.currentWave = w, !.waveOpenedAt = now, !.thresholdMetAt = NotMet,
                   !.result = [n \in Node |-> IF r.wave[n] = w THEN "in_progress"
                                              ELSE @[n]]],
         "wave.opened")

\* Faulty: the last wave is left out.
AdvanceWaveLockedEarly(r, now) ==
    IF r.currentWave + 1 >= r.lastWave
    THEN Emit([r EXCEPT !.state = "completed"], "release.completed")
    ELSE OpenWave(r, r.currentWave + 1, now)

AdvanceWaveLocked(r, now) ==
    IF r.currentWave = r.lastWave
    THEN Emit([r EXCEPT !.state = "completed"], "release.completed")
    ELSE OpenWave(r, r.currentWave + 1, now)

\* Faulty: the entries stay as they are.
AbortCatchupLockedPlanOnly(r) ==
    IF r.plan.state \notin LiveCatchup THEN r
    ELSE Emit([r EXCEPT !.plan.state = "aborted"], "catchup.aborted")

AbortCatchupLocked(r) ==
    IF r.plan.state \notin LiveCatchup THEN r
    ELSE Emit([r EXCEPT !.plan =
                   [ state |-> "aborted",
                     entry |-> [n \in Node |->
                         IF @.entry[n].state \in LiveCatchup
                         THEN [@.entry[n] EXCEPT !.state = "aborted"]
                         ELSE @.entry[n]] ]],
              "catchup.aborted")

CompleteRollbackLocked(r) ==
    Emit([r EXCEPT !.state = "rolled_back"], "release.rolledback")

\* Faulty: quarantined nodes are spared the rollback.
StartRollbackLockedSparing(r, reason) ==
    LET spared == Succeeded(r) \ r.quarantined
        started == [r EXCEPT !.state = "rolling_back", !.pauseReason = "none",
                             !.rollbackReason = reason, !.planned = spared]
        notified == EmitTo(Emit(started, "rollback.started"), "node.rollback", spared)
        aborted == AbortCatchupLocked(notified)
    IN  IF spared = {} THEN CompleteRollbackLocked(aborted) ELSE aborted

\* Faulty: the live catch-up plan survives the rollback.
StartRollbackLockedKeepsPlan(r, reason) ==
    LET started == [r EXCEPT !.state = "rolling_back", !.pauseReason = "none",
                             !.rollbackReason = reason, !.planned = Succeeded(r)]
        notified == EmitTo(Emit(started, "rollback.started"),
                           "node.rollback", Succeeded(r))
    IN  IF Succeeded(r) = {} THEN CompleteRollbackLocked(notified) ELSE notified

StartRollbackLocked(r, reason) ==
    LET started == [r EXCEPT !.state = "rolling_back", !.pauseReason = "none",
                             !.rollbackReason = reason, !.planned = Succeeded(r)]
        notified == EmitTo(Emit(started, "rollback.started"),
                           "node.rollback", Succeeded(r))
        aborted == AbortCatchupLocked(notified)
    IN  IF Succeeded(r) = {} THEN CompleteRollbackLocked(aborted) ELSE aborted

\* Faulty: only a wave at its threshold times out.
EvaluateTimeoutLockedInverted(r, now) ==
    IF /\ r.state = "active"
       /\ now - r.waveOpenedAt > r.input.waveTimeout
       /\ ThresholdReached(r)
    THEN PauseLocked(r, "timeout")
    ELSE r

EvaluateTimeoutLocked(r, now) ==
    IF /\ r.state = "active"
       /\ now - r.waveOpenedAt > r.input.waveTimeout
       /\ ~ThresholdReached(r)
    THEN PauseLocked(r, "timeout")
    ELSE r

\* ThresholdMetAt is set the first time the wave is seen at its threshold.
Observe(r, now) == [r EXCEPT !.thresholdMetAt = IF @ = NotMet THEN now ELSE @]

\* Faulty: observation does not wait for the success threshold.
EvaluateHealthLockedEager(r, now) ==
    LET o == Observe(r, now)
    IN  IF r.state # "active" \/ ~HealthEnabled(r) THEN r
        ELSE IF Breach(o) # "none" THEN StartRollbackLocked(o, Breach(o))
        ELSE IF ObservationPassed(o, now) THEN AdvanceWaveLocked(o, now)
        ELSE o

\* Faulty: a wave that passed is left before the quarantine limits are looked at.
EvaluateHealthLockedLimitsLast(r, now) ==
    LET o == Observe(r, now)
    IN  IF \/ r.state # "active"
           \/ ~HealthEnabled(r)
           \/ r.thresholdMetAt = NotMet /\ ~ThresholdReached(r)
        THEN r
        ELSE IF TooManyUnhealthy(o) THEN StartRollbackLocked(o, "health_threshold")
        ELSE IF ObservationPassed(o, now) THEN AdvanceWaveLocked(o, now)
        ELSE IF QuarantineLimitBreached(o) THEN StartRollbackLocked(o, "quarantine_limit")
        ELSE o

EvaluateHealthLocked(r, now) ==
    LET o == Observe(r, now)
    IN  IF \/ r.state # "active"
           \/ ~HealthEnabled(r)
           \/ r.thresholdMetAt = NotMet /\ ~ThresholdReached(r)
        THEN r
        ELSE IF Breach(o) # "none" THEN StartRollbackLocked(o, Breach(o))
        ELSE IF ObservationPassed(o, now) THEN AdvanceWaveLocked(o, now)
        ELSE o

EvaluateLocked(r, now) == EvaluateHealthLocked(EvaluateTimeoutLocked(r, now), now)

-----------------------------------------------------------------------------
(* CreateRelease: the frozen targets, cut into waves of waveSize in order *)

WaveOf(in, n) ==
    IF \E i \in DOMAIN in.targets : in.targets[i] = n
    THEN ((CHOOSE i \in DOMAIN in.targets : in.targets[i] = n) - 1) \div in.waveSize
    ELSE NoWave

\* Faulty: the state is left at its zero value.
EmptyReleaseStateless(seq, in) ==
    [ seq |-> seq, input |-> in,
      wave |-> [n \in Node |-> WaveOf(in, n)],
      lastWave |-> (Len(in.targets) - 1) \div in.waveSize,
      state |-> "", pauseReason |-> "none",
      currentWave |-> 0, waveOpenedAt |-> 0, thresholdMetAt |-> NotMet,
      result |-> [n \in Node |-> "pending"], prev |-> [n \in Node |-> NoDigest],
      samples |-> {}, quarantined |-> {}, remediated |-> {},
      nilMaps |-> (IF in.health = NoHealth THEN {"samples"} ELSE {})
                     \cup (IF in.quarantine = NoQuarantine THEN {"quarantined"} ELSE {}),
      planned |-> {}, restored |-> {}, rollbackReason |-> "none",
      attempt |-> 0, plan |-> NoPlan,
      sent |-> [k \in ReleaseNotice |-> 0],
      sentTo |-> [k \in NodeNotice |-> [n \in Node |-> 0]] ]

EmptyRelease(seq, in) ==
    [ seq |-> seq, input |-> in,
      wave |-> [n \in Node |-> WaveOf(in, n)],
      lastWave |-> (Len(in.targets) - 1) \div in.waveSize,
      state |-> "active", pauseReason |-> "none",
      currentWave |-> 0, waveOpenedAt |-> 0, thresholdMetAt |-> NotMet,
      result |-> [n \in Node |-> "pending"], prev |-> [n \in Node |-> NoDigest],
      samples |-> {}, quarantined |-> {}, remediated |-> {},
      nilMaps |-> (IF in.health = NoHealth THEN {"samples"} ELSE {})
                     \cup (IF in.quarantine = NoQuarantine THEN {"quarantined"} ELSE {}),
      planned |-> {}, restored |-> {}, rollbackReason |-> "none",
      attempt |-> 0, plan |-> NoPlan,
      sent |-> [k \in ReleaseNotice |-> 0],
      sentTo |-> [k \in NodeNotice |-> [n \in Node |-> 0]] ]

NewRelease(seq, in, now) ==
    OpenWave(Emit(EmptyRelease(seq, in), "release.created"), 0, now)

-----------------------------------------------------------------------------
(* What one release promises between transactions; the invariants of Rollout say *)
(* it of every release.                                                          *)

\* A window is open only on a wave at its threshold, under health observation.
WindowJustified(r) ==
    r.thresholdMetAt # NotMet => HealthEnabled(r) /\ ThresholdReached(r)

\* No limit is exceeded while an active release observes.
ObservationGate(r) ==
    r.state = "active" /\ r.thresholdMetAt # NotMet => Breach(r) = "none"

\* Waves open whole and in order, each after the one before met its threshold.
WaveOrder(r) ==
    /\ r.currentWave <= r.lastWave
    /\ \A n \in Targets(r) : r.wave[n] > r.currentWave <=> r.result[n] = "pending"
    /\ \A w \in 0 .. r.lastWave :
           w < r.currentWave \/ r.state = "completed" => ThresholdReachedIn(r, w)

\* A rollback is justified by the state it froze and covers all that succeeded.
Withdrawn(r) == r.state \in {"rolling_back", "rolled_back"}

RollbackCoherent(r) ==
    IF Withdrawn(r)
    THEN /\ Breach(r) # "none" /\ r.rollbackReason = Breach(r)
         /\ r.planned = Succeeded(r)
         /\ r.restored \subseteq r.planned
         /\ r.state = "rolled_back" <=> r.restored = r.planned
    ELSE r.planned = {} /\ r.restored = {}

\* The three together are inductive.
Coherent(r) == WindowJustified(r) /\ ObservationGate(r) /\ RollbackCoherent(r)

\* The outbox holds one event per cause.
Once(condition) == IF condition THEN 1 ELSE 0

NoticeCounts(r) ==
    /\ r.sent["release.created"] = 1
    /\ r.sent["wave.opened"] = r.currentWave + 1
    /\ r.sent["release.cancelled"] = Once(r.state = "cancelled")
    /\ r.sent["release.completed"] = Once(r.state = "completed")
    /\ r.sent["rollback.started"] = Once(Withdrawn(r))
    /\ r.sent["release.rolledback"] = Once(r.state = "rolled_back")
    /\ \A n \in Node :
          /\ r.sentTo["node.succeeded"][n] = Once(r.result[n] = "succeeded")
          /\ r.sentTo["node.failed"][n] = Once(r.result[n] = "failed")
          /\ r.sentTo["node.compensation"][n] =
                 Once(r.state = "cancelled" /\ r.result[n] = "succeeded")
          /\ r.sentTo["node.rollback"][n] = Once(n \in r.planned)
          /\ r.sentTo["node.restored"][n] = Once(n \in r.restored)
          /\ r.sentTo["node.quarantined"][n] = Once(n \in r.quarantined)
=============================================================================
