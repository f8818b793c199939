---------------------------- MODULE RolloutProofs ----------------------------
(***************************************************************************)
(* Type correctness of Rollout, and its two main safety invariants: an     *)
(* observing release exceeds no limit, and a rollback is justified and     *)
(* complete.  Both follow from Coherent, which every handler re-establishes*)
(* because the last thing it does to an active release is evaluate it.     *)
(*                                                                         *)
(* The first part is about the helpers of Release, which preserve the type *)
(* of the record and its coherence.  Pausing, emitting and aborting a plan *)
(* leave what the health gate and the rollback read as it is (the Frame    *)
(* lemmas); evaluating a release makes it coherent again after a handler   *)
(* has changed it.  The second part is about the handlers of Rollout.      *)
(***************************************************************************)
EXTENDS Rollout, FiniteSetTheorems, TLAPS

-----------------------------------------------------------------------------
(* The helpers of Release *)

\* One event more of some type.
LEMMA EmitType ==
    ASSUME NEW r \in Release, NEW k \in ReleaseNotice
    PROVE  Emit(r, k) \in Release
<1> DEFINE sent == [r.sent EXCEPT ![k] = @ + 1]
<1>1. r.sent \in [ReleaseNotice -> Nat]
  BY DEF Release
<1>2. sent \in [ReleaseNotice -> Nat]
  BY <1>1
<1>3. Emit(r, k) = [r EXCEPT !.sent = sent]
  BY DEF Emit
<1> HIDE DEF sent
<1> QED BY <1>2, <1>3, ZenonT(30) DEF Release

\* One event more for each node of a set.
LEMMA EmitToType ==
    ASSUME NEW r \in Release, NEW k \in NodeNotice, NEW S
    PROVE  EmitTo(r, k, S) \in Release
<1> DEFINE row == [n \in Node |-> IF n \in S THEN r.sentTo[k][n] + 1 ELSE r.sentTo[k][n]]
           sentTo == [r.sentTo EXCEPT ![k] = row]
<1>1. r.sentTo \in [NodeNotice -> [Node -> Nat]]
  BY DEF Release
<1>2. row \in [Node -> Nat]
  BY <1>1
<1>3. EmitTo(r, k, S) = [r EXCEPT !.sentTo = sentTo]
  BY DEF EmitTo
<1> HIDE DEF row
<1>4. sentTo \in [NodeNotice -> [Node -> Nat]]
  BY <1>1, <1>2
<1> HIDE DEF sentTo
<1> QED BY <1>3, <1>4, ZenonT(30) DEF Release

LEMMA PauseLockedType ==
    ASSUME NEW r \in Release, NEW reason \in PauseReason
    PROVE  PauseLocked(r, reason) \in Release
BY DEF PauseLocked, Release, ReleaseState

LEMMA OpenWaveType ==
    ASSUME NEW r \in Release, NEW w \in Nat, NEW time \in Int
    PROVE  OpenWave(r, w, time) \in Release
<1> DEFINE result == [n \in Node |-> IF r.wave[n] = w THEN "in_progress" ELSE r.result[n]]
           opened == [r EXCEPT !.currentWave = w, !.waveOpenedAt = time,
                               !.thresholdMetAt = NotMet, !.result = result]
<1>1. result \in [Node -> NodeResult]
  BY DEF Release, NodeResult
<1>2. OpenWave(r, w, time) = Emit(opened, "wave.opened")
  BY DEF OpenWave
<1> HIDE DEF result
<1>3. opened \in Release
  <2>1. NotMet \in Int
    BY DEF NotMet
  <2> QED BY <1>1, <2>1 DEF Release
<1> HIDE DEF opened
<1> QED BY <1>2, <1>3, EmitType DEF ReleaseNotice

LEMMA AdvanceWaveLockedType ==
    ASSUME NEW r \in Release, NEW time \in Int
    PROVE  AdvanceWaveLocked(r, time) \in Release
<1> DEFINE completed == [r EXCEPT !.state = "completed"]
<1>1. completed \in Release
  BY DEF Release, ReleaseState
<1>2. Emit(completed, "release.completed") \in Release
  BY <1>1, EmitType DEF ReleaseNotice
<1>3. r.currentWave + 1 \in Nat
  BY DEF Release
<1>4. OpenWave(r, r.currentWave + 1, time) \in Release
  BY <1>3, OpenWaveType
<1> QED BY <1>2, <1>4 DEF AdvanceWaveLocked

LEMMA AbortCatchupLockedType ==
    ASSUME NEW r \in Release
    PROVE  AbortCatchupLocked(r) \in Release
<1> DEFINE entry == [n \in Node |->
                        IF r.plan.entry[n].state \in LiveCatchup
                        THEN [r.plan.entry[n] EXCEPT !.state = "aborted"]
                        ELSE r.plan.entry[n]]
           plan == [state |-> "aborted", entry |-> entry]
<1>1. r.plan \in CatchupPlan
  BY DEF Release
<1>2. ASSUME NEW n \in Node PROVE entry[n] \in CatchupEntry
  BY <1>1 DEF CatchupPlan, CatchupEntry, EntryState
<1> HIDE DEF entry
<1>3. plan \in CatchupPlan
  <2>1. entry \in [Node -> CatchupEntry]
    BY <1>2 DEF entry
  <2> QED BY <2>1 DEF CatchupPlan, PlanState
<1>4. AbortCatchupLocked(r) = IF r.plan.state \notin LiveCatchup THEN r
                              ELSE Emit([r EXCEPT !.plan = plan], "catchup.aborted")
  BY DEF AbortCatchupLocked, entry
<1> HIDE DEF plan
<1>5. [r EXCEPT !.plan = plan] \in Release
  BY <1>3 DEF Release
<1> QED BY <1>4, <1>5, EmitType DEF ReleaseNotice

LEMMA CompleteRollbackLockedType ==
    ASSUME NEW r \in Release
    PROVE  CompleteRollbackLocked(r) \in Release
<1>1. [r EXCEPT !.state = "rolled_back"] \in Release
  BY DEF Release, ReleaseState
<1> QED BY <1>1, EmitType DEF CompleteRollbackLocked, ReleaseNotice

LEMMA StartRollbackLockedType ==
    ASSUME NEW r \in Release, NEW reason \in RollbackReason
    PROVE  StartRollbackLocked(r, reason) \in Release
<1> DEFINE started == [r EXCEPT !.state = "rolling_back", !.pauseReason = "none",
                                !.rollbackReason = reason, !.planned = Succeeded(r)]
           notified == EmitTo(Emit(started, "rollback.started"),
                              "node.rollback", Succeeded(r))
           aborted == AbortCatchupLocked(notified)
<1>1. Succeeded(r) \in SUBSET Node
  BY DEF Succeeded
<1>2. started \in Release
  BY <1>1 DEF Release, ReleaseState, PauseReason
<1>3. notified \in Release
  BY <1>2, EmitType, EmitToType DEF ReleaseNotice, NodeNotice
<1>4. aborted \in Release
  BY <1>3, AbortCatchupLockedType
<1>5. StartRollbackLocked(r, reason) = IF Succeeded(r) = {}
                                       THEN CompleteRollbackLocked(aborted) ELSE aborted
  BY DEF StartRollbackLocked
<1> HIDE DEF aborted
<1> QED BY <1>4, <1>5, CompleteRollbackLockedType

LEMMA EvaluateTimeoutLockedType ==
    ASSUME NEW r \in Release, NEW time \in Int
    PROVE  EvaluateTimeoutLocked(r, time) \in Release
BY PauseLockedType DEF EvaluateTimeoutLocked, PauseReason

LEMMA ObserveType ==
    ASSUME NEW r \in Release, NEW time \in Int
    PROVE  Observe(r, time) \in Release
BY DEF Observe, Release, NotMet

LEMMA EvaluateHealthLockedType ==
    ASSUME NEW r \in Release, NEW time \in Int
    PROVE  EvaluateHealthLocked(r, time) \in Release
<1>1. Observe(r, time) \in Release
  BY ObserveType
<1>2. Breach(Observe(r, time)) \in RollbackReason
  BY DEF Breach, RollbackReason
<1>3. StartRollbackLocked(Observe(r, time), Breach(Observe(r, time))) \in Release
  BY <1>1, <1>2, StartRollbackLockedType
<1>4. AdvanceWaveLocked(Observe(r, time), time) \in Release
  BY <1>1, AdvanceWaveLockedType
<1> QED BY <1>1, <1>3, <1>4 DEF EvaluateHealthLocked

LEMMA EvaluateLockedType ==
    ASSUME NEW r \in Release, NEW time \in Int
    PROVE  EvaluateLocked(r, time) \in Release
BY EvaluateTimeoutLockedType, EvaluateHealthLockedType DEF EvaluateLocked

\* The cut of the targets into waves is well defined.
LEMMA QuotientType ==
    ASSUME NEW a \in Nat, NEW b \in Nat, b > 0
    PROVE  a \div b \in Nat
OBVIOUS

LEMMA QuotientIntType ==
    ASSUME NEW a \in Int, NEW b \in Nat, b > 0
    PROVE  a \div b \in Int
OBVIOUS

LEMMA WaveOfType ==
    ASSUME NEW in \in Input, ValidInput(in), NEW n \in Node
    PROVE  WaveOf(in, n) \in Nat \cup {NoWave}
<1>1. CASE \E i \in DOMAIN in.targets : in.targets[i] = n
  <2> DEFINE i == CHOOSE i \in DOMAIN in.targets : in.targets[i] = n
  <2>1. i \in DOMAIN in.targets
    BY <1>1
  <2> HIDE DEF i
  <2>2. in.targets \in Seq(Node) /\ in.waveSize \in Nat /\ in.waveSize > 0
    BY DEF Input, ValidInput
  <2>3. i - 1 \in Nat
    BY <2>1, <2>2
  <2>4. (i - 1) \div in.waveSize \in Nat
    BY <2>2, <2>3, QuotientType
  <2> QED BY <1>1, <2>4 DEF WaveOf, i
<1>2. CASE ~ \E i \in DOMAIN in.targets : in.targets[i] = n
  BY <1>2 DEF WaveOf
<1> QED BY <1>1, <1>2

LEMMA EmptyReleaseType ==
    ASSUME NEW in \in Input, ValidInput(in), NEW seq \in Nat
    PROVE  EmptyRelease(seq, in) \in Release
<1> DEFINE wave == [n \in Node |-> WaveOf(in, n)]
           lastWave == (Len(in.targets) - 1) \div in.waveSize
           nilMaps == (IF in.health = NoHealth THEN {"samples"} ELSE {})
                      \cup (IF in.quarantine = NoQuarantine THEN {"quarantined"} ELSE {})
           sent == [k \in ReleaseNotice |-> 0]
           sentTo == [k \in NodeNotice |-> [n \in Node |-> 0]]
           result == [n \in Node |-> "pending"]
           prev == [n \in Node |-> NoDigest]
<1>1. wave \in [Node -> Int]
  BY WaveOfType DEF NoWave
<1>2. lastWave \in Nat
  <2>1. /\ in.targets \in Seq(Node) /\ in.targets # <<>>
        /\ in.waveSize \in Nat /\ in.waveSize > 0
    BY DEF Input, ValidInput
  <2>2. Len(in.targets) - 1 \in Nat
    BY <2>1
  <2> QED BY <2>1, <2>2, QuotientType
<1>3. nilMaps \in SUBSET {"samples", "quarantined"}
  OBVIOUS
<1>4. sent \in [ReleaseNotice -> Nat] /\ sentTo \in [NodeNotice -> [Node -> Nat]]
  OBVIOUS
<1>5. result \in [Node -> NodeResult] /\ prev \in [Node -> Digest \cup {NoDigest}]
  BY DEF NodeResult
<1>6. NoPlan \in CatchupPlan
  BY DEF NoPlan, NoEntry, CatchupPlan, CatchupEntry, PlanState, EntryState, LiveCatchup
<1>7. NotMet \in Int
  BY DEF NotMet
<1>8. "active" \in ReleaseState /\ "none" \in PauseReason /\ "none" \in RollbackReason
  BY DEF ReleaseState, PauseReason, RollbackReason
<1> DEFINE empty ==
        [ seq |-> seq, input |-> in, wave |-> wave, lastWave |-> lastWave,
          state |-> "active", pauseReason |-> "none",
          currentWave |-> 0, waveOpenedAt |-> 0, thresholdMetAt |-> NotMet,
          result |-> result, prev |-> prev,
          samples |-> {}, quarantined |-> {}, remediated |-> {}, nilMaps |-> nilMaps,
          planned |-> {}, restored |-> {}, rollbackReason |-> "none",
          attempt |-> 0, plan |-> NoPlan, sent |-> sent, sentTo |-> sentTo ]
<1>9. EmptyRelease(seq, in) = empty
  BY DEF EmptyRelease
<1> HIDE DEF wave, lastWave, nilMaps, sent, sentTo, result, prev
<1>10. empty \in Release
  BY <1>1, <1>2, <1>3, <1>4, <1>5, <1>6, <1>7, <1>8, SMTT(60) DEF Release
<1> QED BY <1>9, <1>10

LEMMA NewReleaseType ==
    ASSUME NEW in \in Input, ValidInput(in), NEW seq \in Nat, NEW time \in Int
    PROVE  NewRelease(seq, in, time) \in Release
<1>1. Emit(EmptyRelease(seq, in), "release.created") \in Release
  BY EmptyReleaseType, EmitType DEF ReleaseNotice
<1> QED BY <1>1, OpenWaveType DEF NewRelease

-----------------------------------------------------------------------------
(* Frames: what the health gate and the rollback look at *)

GateView(r) ==
    <<r.input, r.wave, r.currentWave, r.result, r.samples, r.quarantined>>

RollbackView(r) ==
    <<r.state, r.thresholdMetAt, r.rollbackReason, r.planned, r.restored>>

\* Releases that look the same to the gate are judged the same by it.
LEMMA GateFrame ==
    ASSUME NEW r, NEW s, GateView(r) = GateView(s)
    PROVE  /\ Breach(r) = Breach(s)
           /\ \A w : ThresholdReachedIn(r, w) = ThresholdReachedIn(s, w)
           /\ ThresholdReached(r) = ThresholdReached(s)
           /\ HealthEnabled(r) = HealthEnabled(s)
           /\ Succeeded(r) = Succeeded(s)
<1>1. /\ r.input = s.input /\ r.wave = s.wave /\ r.currentWave = s.currentWave
      /\ r.result = s.result /\ r.samples = s.samples /\ r.quarantined = s.quarantined
  BY DEF GateView
<1>2. \A w : WaveNodes(r, w) = WaveNodes(s, w)
  BY <1>1 DEF WaveNodes
<1>3. \A w, result : InWave(r, w, result) = InWave(s, w, result)
  BY <1>1, <1>2 DEF InWave
<1>4. \A w : Covered(r, w) = Covered(s, w)
  BY <1>1, <1>3 DEF Covered
<1>5. \A n : SamplesOf(r, n) = SamplesOf(s, n)
  BY <1>1 DEF SamplesOf
<1>6. \A w : Unhealthy(r, w) = Unhealthy(s, w)
  BY <1>4, <1>5 DEF Unhealthy
<1>7. TooManyUnhealthy(r) = TooManyUnhealthy(s)
  BY <1>1, <1>6 DEF TooManyUnhealthy
<1>8. QuarantineLimitBreached(r) = QuarantineLimitBreached(s)
  BY <1>1, <1>3, <1>4 DEF QuarantineLimitBreached, QuarantineEnabled, CoverageTooLow
<1>9. Breach(r) = Breach(s)
  BY <1>7, <1>8 DEF Breach
<1>10. \A w : ThresholdReachedIn(r, w) = ThresholdReachedIn(s, w)
  BY <1>1, <1>2, <1>3 DEF ThresholdReachedIn
<1>11. ThresholdReached(r) = ThresholdReached(s)
  BY <1>1, <1>10 DEF ThresholdReached
<1>12. HealthEnabled(r) = HealthEnabled(s) /\ Succeeded(r) = Succeeded(s)
  BY <1>1 DEF HealthEnabled, Succeeded
<1> QED BY <1>9, <1>10, <1>11, <1>12

\* Coherence looks at nothing else.
LEMMA CoherentFrame ==
    ASSUME NEW r, NEW s, GateView(r) = GateView(s), RollbackView(r) = RollbackView(s)
    PROVE  Coherent(r) <=> Coherent(s)
<1>1. /\ r.state = s.state /\ r.thresholdMetAt = s.thresholdMetAt
      /\ r.rollbackReason = s.rollbackReason
      /\ r.planned = s.planned /\ r.restored = s.restored
  BY DEF RollbackView
<1>2. /\ Breach(r) = Breach(s) /\ ThresholdReached(r) = ThresholdReached(s)
      /\ HealthEnabled(r) = HealthEnabled(s) /\ Succeeded(r) = Succeeded(s)
  BY GateFrame
<1>3. Withdrawn(r) = Withdrawn(s)
  BY <1>1 DEF Withdrawn
<1>4. /\ WindowJustified(r) <=> WindowJustified(s)
      /\ ObservationGate(r) <=> ObservationGate(s)
  BY <1>1, <1>2 DEF WindowJustified, ObservationGate
<1>5. RollbackCoherent(r) <=> RollbackCoherent(s)
  BY <1>1, <1>2, <1>3 DEF RollbackCoherent
<1> QED BY <1>1, <1>2, <1>4, <1>5 DEF Coherent

\* Notices and the catch-up plan are out of both views.
LEMMA EmitFrame ==
    ASSUME NEW r \in Release, NEW k
    PROVE  GateView(Emit(r, k)) = GateView(r) /\ RollbackView(Emit(r, k)) = RollbackView(r)
BY DEF Emit, GateView, RollbackView, Release

LEMMA EmitToFrame ==
    ASSUME NEW r \in Release, NEW k, NEW S
    PROVE  /\ GateView(EmitTo(r, k, S)) = GateView(r)
           /\ RollbackView(EmitTo(r, k, S)) = RollbackView(r)
BY DEF EmitTo, GateView, RollbackView, Release

LEMMA AbortCatchupLockedFrame ==
    ASSUME NEW r \in Release
    PROVE  /\ GateView(AbortCatchupLocked(r)) = GateView(r)
           /\ RollbackView(AbortCatchupLocked(r)) = RollbackView(r)
<1>1. CASE r.plan.state \notin LiveCatchup
  BY <1>1 DEF AbortCatchupLocked
<1>2. CASE r.plan.state \in LiveCatchup
  BY <1>2 DEF AbortCatchupLocked, Emit, GateView, RollbackView, Release
<1> QED BY <1>1, <1>2

-----------------------------------------------------------------------------
(* Coherence: what each helper establishes *)

\* What EvaluateHealthLocked needs of a release to leave it coherent: everything
\* but that no limit is exceeded, which it finds out itself.
Evaluable(r) == WindowJustified(r) /\ RollbackCoherent(r)

LEMMA CoherentEvaluable ==
    ASSUME NEW r, Coherent(r)
    PROVE  Evaluable(r)
BY DEF Coherent, ObservationGate, WindowJustified, Evaluable

\* A release whose state is not active has nothing to say about observation.
LEMMA CoherentIdle ==
    ASSUME NEW r, Evaluable(r), r.state # "active"
    PROVE  Coherent(r)
BY DEF Coherent, ObservationGate, WindowJustified, Evaluable

LEMMA PauseLockedCoherent ==
    ASSUME NEW r \in Release, Evaluable(r), ~Withdrawn(r), NEW reason
    PROVE  Coherent(PauseLocked(r, reason))
<1> DEFINE s == PauseLocked(r, reason)
<1>1. /\ GateView(s) = GateView(r) /\ s.state = "paused"
      /\ s.thresholdMetAt = r.thresholdMetAt
      /\ s.planned = r.planned /\ s.restored = r.restored
  BY DEF PauseLocked, GateView, Release
<1> HIDE DEF s
<1>2. HealthEnabled(s) = HealthEnabled(r) /\ ThresholdReached(s) = ThresholdReached(r)
  BY <1>1, GateFrame
<1>3. RollbackCoherent(s)
  BY <1>1 DEF RollbackCoherent, Withdrawn, Evaluable
<1>4. Coherent(s)
  BY <1>1, <1>2, <1>3 DEF Coherent, ObservationGate, WindowJustified, Evaluable
<1> QED BY <1>4 DEF s

LEMMA OpenWaveCoherent ==
    ASSUME NEW r \in Release, RollbackCoherent(r), ~Withdrawn(r), NEW w, NEW time
    PROVE  Coherent(OpenWave(r, w, time))
<1> DEFINE result == [n \in Node |-> IF r.wave[n] = w THEN "in_progress" ELSE r.result[n]]
           opened == [r EXCEPT !.currentWave = w, !.waveOpenedAt = time,
                               !.thresholdMetAt = NotMet, !.result = result]
           s == OpenWave(r, w, time)
<1>1. s = [opened EXCEPT !.sent["wave.opened"] = @ + 1]
  BY DEF OpenWave, Emit
<1> HIDE DEF result
<1>2. /\ s.state = r.state /\ s.thresholdMetAt = NotMet
      /\ s.planned = r.planned /\ s.restored = r.restored
  BY <1>1 DEF Release
<1> HIDE DEF s
<1>3. RollbackCoherent(s)
  BY <1>2 DEF RollbackCoherent, Withdrawn
<1>4. Coherent(s)
  BY <1>2, <1>3 DEF Coherent, ObservationGate, WindowJustified
<1> QED BY <1>4 DEF s

LEMMA AdvanceWaveLockedCoherent ==
    ASSUME NEW r \in Release, Evaluable(r), ~Withdrawn(r), NEW time
    PROVE  Coherent(AdvanceWaveLocked(r, time))
<1>1. Coherent(OpenWave(r, r.currentWave + 1, time))
  BY OpenWaveCoherent DEF Evaluable
<1> DEFINE c == [r EXCEPT !.state = "completed"]
<1>2. /\ GateView(c) = GateView(r) /\ c.state = "completed"
      /\ c.thresholdMetAt = r.thresholdMetAt
      /\ c.planned = r.planned /\ c.restored = r.restored
  BY DEF GateView, Release
<1>3. c \in Release
  BY DEF Release, ReleaseState
<1> HIDE DEF c
<1>4. HealthEnabled(c) = HealthEnabled(r) /\ ThresholdReached(c) = ThresholdReached(r)
  BY <1>2, GateFrame
<1>5. RollbackCoherent(c)
  BY <1>2 DEF RollbackCoherent, Withdrawn, Evaluable
<1>6. Coherent(c)
  BY <1>2, <1>4, <1>5 DEF Coherent, ObservationGate, WindowJustified, Evaluable
<1>7. Coherent(Emit(c, "release.completed"))
  BY <1>3, <1>6, EmitFrame, CoherentFrame
<1> QED BY <1>1, <1>7 DEF AdvanceWaveLocked, c

\* A rollback started for a limit that is exceeded is coherent at once.
LEMMA StartRollbackLockedCoherent ==
    ASSUME NEW r \in Release, Evaluable(r), ~Withdrawn(r), Breach(r) # "none"
    PROVE  Coherent(StartRollbackLocked(r, Breach(r)))
<1> DEFINE reason == Breach(r)
           started == [r EXCEPT !.state = "rolling_back", !.pauseReason = "none",
                                !.rollbackReason = reason, !.planned = Succeeded(r)]
           notified == EmitTo(Emit(started, "rollback.started"),
                              "node.rollback", Succeeded(r))
           aborted == AbortCatchupLocked(notified)
<1>1. reason \in RollbackReason
  BY DEF Breach, RollbackReason
<1>2. Succeeded(r) \in SUBSET Node
  BY DEF Succeeded
<1>3. StartRollbackLocked(r, reason) = IF Succeeded(r) = {}
                                       THEN CompleteRollbackLocked(aborted) ELSE aborted
  BY DEF StartRollbackLocked
<1> HIDE DEF reason
<1>4. started \in Release
  BY <1>1, <1>2 DEF Release, ReleaseState, PauseReason
<1>5. /\ GateView(started) = GateView(r)
      /\ started.state = "rolling_back" /\ started.rollbackReason = reason
      /\ started.thresholdMetAt = r.thresholdMetAt
      /\ started.planned = Succeeded(r) /\ started.restored = r.restored
  BY DEF GateView, Release
<1>6. r.restored = {}
  BY DEF Evaluable, RollbackCoherent
<1> HIDE DEF started
<1>7. notified \in Release
  BY <1>4, EmitType, EmitToType DEF ReleaseNotice, NodeNotice
<1>8. /\ GateView(notified) = GateView(started)
      /\ RollbackView(notified) = RollbackView(started)
  <2>1. Emit(started, "rollback.started") \in Release
    BY <1>4, EmitType DEF ReleaseNotice
  <2> QED BY <1>4, <2>1, EmitFrame, EmitToFrame
<1> HIDE DEF notified
<1>9. aborted \in Release /\ GateView(aborted) = GateView(started)
        /\ RollbackView(aborted) = RollbackView(started)
  BY <1>7, <1>8, AbortCatchupLockedFrame, AbortCatchupLockedType
<1> HIDE DEF aborted
<1>10. /\ Breach(aborted) = reason /\ Succeeded(aborted) = Succeeded(r)
       /\ HealthEnabled(aborted) = HealthEnabled(r)
       /\ ThresholdReached(aborted) = ThresholdReached(r)
  BY <1>5, <1>9, GateFrame DEF reason
<1>11. /\ aborted.state = "rolling_back" /\ aborted.rollbackReason = reason
       /\ aborted.thresholdMetAt = r.thresholdMetAt
       /\ aborted.planned = Succeeded(r) /\ aborted.restored = {}
  BY <1>5, <1>6, <1>9 DEF RollbackView
<1>12. CASE Succeeded(r) # {}
  <2>1. RollbackCoherent(aborted)
    BY <1>10, <1>11, <1>12 DEF RollbackCoherent, Withdrawn, reason
  <2>2. Coherent(aborted)
    BY <1>10, <1>11, <2>1 DEF Coherent, ObservationGate, WindowJustified, Evaluable
  <2> QED BY <1>3, <1>12, <2>2 DEF reason
<1>13. CASE Succeeded(r) = {}
  <2> DEFINE done == [aborted EXCEPT !.state = "rolled_back"]
  <2>1. /\ done \in Release /\ GateView(done) = GateView(aborted)
        /\ done.state = "rolled_back" /\ done.rollbackReason = aborted.rollbackReason
        /\ done.thresholdMetAt = aborted.thresholdMetAt
        /\ done.planned = aborted.planned /\ done.restored = aborted.restored
    BY <1>9 DEF GateView, Release, ReleaseState
  <2> HIDE DEF done
  <2>2. /\ Breach(done) = reason /\ Succeeded(done) = Succeeded(r)
        /\ HealthEnabled(done) = HealthEnabled(r)
        /\ ThresholdReached(done) = ThresholdReached(r)
    BY <1>10, <2>1, GateFrame
  <2>3. RollbackCoherent(done)
    BY <1>11, <1>13, <2>1, <2>2 DEF RollbackCoherent, Withdrawn, reason
  <2>4. Coherent(done)
    BY <1>11, <2>1, <2>2, <2>3 DEF Coherent, ObservationGate, WindowJustified, Evaluable
  <2>5. Coherent(Emit(done, "release.rolledback"))
    BY <2>1, <2>4, EmitFrame, CoherentFrame
  <2>6. CompleteRollbackLocked(aborted) = Emit(done, "release.rolledback")
    BY DEF CompleteRollbackLocked, done
  <2> QED BY <1>3, <1>13, <2>5, <2>6 DEF reason
<1> QED BY <1>12, <1>13

LEMMA EvaluateHealthLockedCoherent ==
    ASSUME NEW r \in Release, Evaluable(r), NEW time \in Nat
    PROVE  Coherent(EvaluateHealthLocked(r, time))
<1> DEFINE o == Observe(r, time)
<1>1. CASE r.state # "active"
  BY <1>1, CoherentIdle DEF EvaluateHealthLocked
<1>2. CASE /\ r.state = "active"
           /\ ~HealthEnabled(r) \/ (r.thresholdMetAt = NotMet /\ ~ThresholdReached(r))
  <2>1. r.thresholdMetAt = NotMet
    BY <1>2 DEF Evaluable, WindowJustified
  <2>2. Coherent(r)
    BY <2>1 DEF Coherent, ObservationGate, WindowJustified, Evaluable
  <2> QED BY <1>2, <2>2 DEF EvaluateHealthLocked
<1>3. CASE /\ r.state = "active" /\ HealthEnabled(r)
           /\ r.thresholdMetAt # NotMet \/ ThresholdReached(r)
  <2>1. /\ o \in Release /\ GateView(o) = GateView(r) /\ o.state = "active"
        /\ o.rollbackReason = r.rollbackReason
        /\ o.planned = r.planned /\ o.restored = r.restored
    <3> DEFINE met == IF r.thresholdMetAt = NotMet THEN time ELSE r.thresholdMetAt
    <3>1. o = [r EXCEPT !.thresholdMetAt = met]
      BY DEF Observe
    <3> HIDE DEF met
    <3>2. o \in Release
      BY ObserveType
    <3> QED BY <1>3, <3>1, <3>2 DEF GateView, Release
  <2>2. EvaluateHealthLocked(r, time) =
            IF Breach(o) # "none" THEN StartRollbackLocked(o, Breach(o))
            ELSE IF ObservationPassed(o, time) THEN AdvanceWaveLocked(o, time)
            ELSE o
    BY <1>3 DEF EvaluateHealthLocked
  <2> HIDE DEF o
  <2>3. ~Withdrawn(r) /\ ~Withdrawn(o)
    BY <1>3, <2>1 DEF Withdrawn
  <2>4. /\ ThresholdReached(o) = ThresholdReached(r)
        /\ HealthEnabled(o) = HealthEnabled(r)
    BY <2>1, GateFrame
  <2>5. ThresholdReached(o)
    BY <1>3, <2>4 DEF Evaluable, WindowJustified
  <2>6. RollbackCoherent(o)
    BY <2>1, <2>3 DEF RollbackCoherent, Evaluable
  <2>7. Evaluable(o)
    BY <1>3, <2>4, <2>5, <2>6 DEF Evaluable, WindowJustified
  <2>8. CASE Breach(o) # "none"
    BY <2>1, <2>2, <2>3, <2>7, <2>8, StartRollbackLockedCoherent
  <2>9. CASE Breach(o) = "none"
    <3>1. Coherent(o)
      BY <2>5, <2>7, <2>9 DEF Coherent, ObservationGate, WindowJustified, Evaluable
    <3>2. Coherent(AdvanceWaveLocked(o, time))
      BY <2>1, <2>3, <2>7, AdvanceWaveLockedCoherent
    <3> QED BY <2>2, <2>9, <3>1, <3>2
  <2> QED BY <2>8, <2>9
<1> QED BY <1>1, <1>2, <1>3

LEMMA EvaluateLockedCoherent ==
    ASSUME NEW r \in Release, Coherent(r), NEW time \in Nat
    PROVE  Coherent(EvaluateLocked(r, time))
<1> DEFINE t == EvaluateTimeoutLocked(r, time)
<1>1. t \in Release
  BY EvaluateTimeoutLockedType
<1>2. Evaluable(r)
  BY CoherentEvaluable
<1>3. Coherent(t)
  <2>1. CASE r.state = "active"
    <3>1. ~Withdrawn(r)
      BY <2>1 DEF Withdrawn
    <3> QED BY <1>2, <3>1, PauseLockedCoherent DEF EvaluateTimeoutLocked
  <2>2. CASE r.state # "active"
    BY <2>2 DEF EvaluateTimeoutLocked
  <2> QED BY <2>1, <2>2
<1> HIDE DEF t
<1>4. Coherent(EvaluateHealthLocked(t, time))
  BY <1>1, <1>3, CoherentEvaluable, EvaluateHealthLockedCoherent
<1> QED BY <1>4 DEF EvaluateLocked, t

LEMMA NewReleaseCoherent ==
    ASSUME NEW in \in Input, ValidInput(in), NEW seq \in Nat, NEW time
    PROVE  Coherent(NewRelease(seq, in, time))
<1> DEFINE empty == EmptyRelease(seq, in)
           created == Emit(empty, "release.created")
<1>1. empty \in Release
  BY EmptyReleaseType
<1>2. empty.state = "active" /\ empty.planned = {} /\ empty.restored = {}
  BY DEF EmptyRelease
<1> HIDE DEF empty
<1>3. RollbackView(created) = RollbackView(empty) /\ created \in Release
  BY <1>1, EmitFrame, EmitType DEF ReleaseNotice
<1> HIDE DEF created
<1>4. created.state = "active" /\ created.planned = {} /\ created.restored = {}
  BY <1>2, <1>3 DEF RollbackView
<1>5. RollbackCoherent(created) /\ ~Withdrawn(created)
  BY <1>4 DEF RollbackCoherent, Withdrawn
<1>6. Coherent(OpenWave(created, 0, time))
  BY <1>3, <1>5, OpenWaveCoherent
<1> QED BY <1>6 DEF NewRelease, created, empty

-----------------------------------------------------------------------------
(* Results: what a receipt changes *)

\* A release whose results are those of r except that some more nodes succeeded is
\* still at the threshold r was at.
LEMMA ThresholdMonotone ==
    ASSUME NEW r \in Release, NEW s \in Release,
           s.input = r.input, s.wave = r.wave, s.currentWave = r.currentWave,
           \A n \in Node : r.result[n] = "succeeded" => s.result[n] = "succeeded",
           ThresholdReached(r)
    PROVE  ThresholdReached(s)
<1> DEFINE w == r.currentWave
           wave == WaveNodes(r, w)
           before == InWave(r, w, "succeeded")
           after == InWave(s, w, "succeeded")
           required == RequiredSuccess(r.input.minSuccess, Cardinality(wave))
<1>1. WaveNodes(s, w) = wave
  BY DEF WaveNodes
<1>2. before \subseteq after /\ after \subseteq Node /\ wave \subseteq Node
  BY <1>1 DEF InWave, WaveNodes
<1>3. IsFiniteSet(after) /\ IsFiniteSet(wave)
  BY <1>2, NodeAssumption, FS_Subset
<1>4. Cardinality(before) <= Cardinality(after) /\ Cardinality(before) \in Nat
      /\ Cardinality(after) \in Nat /\ Cardinality(wave) \in Nat
  BY <1>2, <1>3, FS_Subset, FS_CardinalityType
<1>5. required \in Int
  <2>1. r.input.minSuccess \in Nat \X (Nat \ {0})
    BY DEF Release, Input, Ratio
  <2> DEFINE p == r.input.minSuccess[1]
             q == r.input.minSuccess[2]
             c == Cardinality(wave)
  <2>2. p \in Nat /\ q \in Nat /\ q > 0 /\ c \in Nat
    BY <1>4, <2>1
  <2>3. required = (p * c + q - 1) \div q
    BY DEF RequiredSuccess
  <2> HIDE DEF p, q, c, required
  <2>4. p * c \in Int
    BY <2>2
  <2>5. p * c + q - 1 \in Int
    BY <2>2, <2>4
  <2> QED BY <2>2, <2>3, <2>5, QuotientIntType
<1>6. Cardinality(before) >= required
  BY DEF ThresholdReached, ThresholdReachedIn
<1>7. ThresholdReached(s) <=> Cardinality(after) >= required
  BY <1>1 DEF ThresholdReached, ThresholdReachedIn
<1> HIDE DEF before, after, required, wave
<1> QED BY <1>4, <1>5, <1>6, <1>7

\* Which is why giving one node a result leaves an unwithdrawn release evaluable.
LEMMA ResultEvaluable ==
    ASSUME NEW r \in Release, Evaluable(r), ~Withdrawn(r), NEW s \in Release,
           s.input = r.input, s.wave = r.wave, s.currentWave = r.currentWave,
           \A n \in Node : r.result[n] = "succeeded" => s.result[n] = "succeeded",
           s.state = r.state, s.thresholdMetAt = r.thresholdMetAt,
           s.planned = r.planned, s.restored = r.restored
    PROVE  Evaluable(s) /\ ~Withdrawn(s)
<1>1. ~Withdrawn(s) /\ RollbackCoherent(s)
  BY DEF Withdrawn, RollbackCoherent, Evaluable
<1>2. WindowJustified(s)
  BY ThresholdMonotone DEF WindowJustified, Evaluable, HealthEnabled
<1> QED BY <1>1, <1>2 DEF Evaluable

-----------------------------------------------------------------------------
(* The handlers of Rollout *)


\* The inductive invariant.
Inv == TypeOK /\ \A id \in Created : Coherent(releases[id])

LEMMA NowType ==
    ASSUME TypeOK
    PROVE  now \in Nat /\ now \in Int
BY ClockAssumption DEF TypeOK

\* An action that leaves every release well typed and coherent.
LEMMA ReleasesPreserve ==
    ASSUME Inv, DOMAIN releases' = Created,
           releases' = [i \in Created |-> releases'[i]],
           \A i \in Created : releases'[i] \in Release /\ Coherent(releases'[i]),
           nodes' \in [Node -> NodeState], appliedSeq' \in Nat,
           UNCHANGED <<nextSeq, now>>
    PROVE  Inv'
BY DEF Inv, TypeOK, Created

\* An action that replaces one release.
LEMMA CommitPreserves ==
    ASSUME Inv, NEW id \in Created, NEW x \in Release, Coherent(x), Commit(id, x),
           nodes' \in [Node -> NodeState], appliedSeq' \in Nat,
           UNCHANGED <<nextSeq, now>>
    PROVE  Inv'
<1>1. releases' = [releases EXCEPT ![id] = x]
  BY DEF Commit
<1>2. DOMAIN releases' = Created /\ releases' = [i \in Created |-> releases'[i]]
  BY <1>1 DEF Inv, TypeOK, Created
<1>3. \A i \in Created : releases'[i] \in Release /\ Coherent(releases'[i])
  BY <1>1 DEF Inv, TypeOK, Created
<1> QED BY <1>2, <1>3, ReleasesPreserve

LEMMA AdvanceNodeType ==
    ASSUME TypeOK, NEW n \in Node, NEW seq \in Nat, NEW d \in Digest \cup {NoDigest},
           AdvanceNode(n, seq, d)
    PROVE  nodes' \in [Node -> NodeState] /\ appliedSeq' \in Nat
BY DEF TypeOK, AdvanceNode, NodeState

LEMMA CreateReleasePreserves ==
    ASSUME Inv, NEW id \in ReleaseId, NEW in \in Inputs, CreateRelease(id, in)
    PROVE  Inv'
<1> DEFINE new == NewRelease(nextSeq + 1, in, now)
<1>1. in \in Input /\ ValidInput(in) /\ nextSeq + 1 \in Nat
  BY InputsAssumption DEF CreateRelease, Inv, TypeOK
<1>2. new \in Release /\ Coherent(new)
  BY <1>1, NowType, NewReleaseType, NewReleaseCoherent DEF Inv
<1> HIDE DEF new
<1>3. releases' = [i \in Created \cup {id} |-> IF i = id THEN new ELSE releases[i]]
  BY DEF CreateRelease, new
<1>4. TypeOK'
  BY <1>1, <1>2, <1>3 DEF CreateRelease, Inv, TypeOK, Created
<1>5. \A i \in Created' : Coherent(releases'[i])
  BY <1>2, <1>3 DEF Inv, Created
<1> QED BY <1>4, <1>5 DEF Inv

LEMMA TickTimeoutPreserves ==
    ASSUME Inv, NEW id \in Created, TickTimeout(id)
    PROVE  Inv'
<1>1. releases[id] \in Release /\ Coherent(releases[id])
  BY DEF Inv, TypeOK
<1> DEFINE x == EvaluateLocked(releases[id], now)
<1>2. x \in Release /\ Coherent(x)
  BY <1>1, NowType, EvaluateLockedType, EvaluateLockedCoherent DEF Inv
<1>3. Commit(id, x)
  BY DEF TickTimeout
<1> HIDE DEF x
<1>4. nodes' \in [Node -> NodeState] /\ appliedSeq' \in Nat /\ UNCHANGED <<nextSeq, now>>
  BY DEF TickTimeout, Inv, TypeOK
<1> QED BY <1>2, <1>3, <1>4, CommitPreserves

LEMMA PausePreserves ==
    ASSUME Inv, NEW id \in Created, Pause(id)
    PROVE  Inv'
<1> DEFINE x == PauseLocked(releases[id], "manual")
<1>1. releases[id] \in Release /\ Evaluable(releases[id])
  BY CoherentEvaluable DEF Inv, TypeOK
<1>2. ~Withdrawn(releases[id])
  BY DEF Pause, Withdrawn
<1>3. x \in Release /\ Coherent(x)
  BY <1>1, <1>2, PauseLockedType, PauseLockedCoherent DEF PauseReason
<1>4. Commit(id, x)
  BY DEF Pause
<1> HIDE DEF x
<1>5. nodes' \in [Node -> NodeState] /\ appliedSeq' \in Nat /\ UNCHANGED <<nextSeq, now>>
  BY DEF Pause, Inv, TypeOK
<1> QED BY <1>3, <1>4, <1>5, CommitPreserves

\* A release that is not withdrawn stays evaluable when only what the gate and the
\* rollback do not look at changes.
LEMMA EvaluableFrame ==
    ASSUME NEW r, NEW s, Evaluable(r), ~Withdrawn(r), ~Withdrawn(s),
           GateView(s) = GateView(r), s.thresholdMetAt = r.thresholdMetAt,
           s.planned = r.planned, s.restored = r.restored
    PROVE  Evaluable(s)
<1>1. HealthEnabled(s) = HealthEnabled(r) /\ ThresholdReached(s) = ThresholdReached(r)
  BY GateFrame
<1> QED BY <1>1 DEF Evaluable, WindowJustified, RollbackCoherent

LEMMA ResumePreserves ==
    ASSUME Inv, NEW id \in Created, Resume(id)
    PROVE  Inv'
<1> DEFINE r == releases[id]
           resumed == [r EXCEPT !.state = "active", !.pauseReason = "none",
                                !.waveOpenedAt = now]
           x == EvaluateHealthLocked(resumed, now)
<1>1. r \in Release /\ Evaluable(r) /\ ~Withdrawn(r)
  BY CoherentEvaluable DEF Inv, TypeOK, Resume, Withdrawn
<1>2. Commit(id, x)
  BY DEF Resume
<1> HIDE DEF r
<1>3. resumed \in Release
  BY <1>1, NowType DEF Inv, Release, ReleaseState, PauseReason
<1>4. /\ GateView(resumed) = GateView(r) /\ resumed.state = "active"
      /\ resumed.thresholdMetAt = r.thresholdMetAt
      /\ resumed.planned = r.planned /\ resumed.restored = r.restored
  BY <1>1 DEF GateView, Release
<1> HIDE DEF resumed
<1>5. Evaluable(resumed)
  BY <1>1, <1>4, EvaluableFrame DEF Withdrawn
<1>6. x \in Release /\ Coherent(x)
  BY <1>3, <1>5, NowType, EvaluateHealthLockedType, EvaluateHealthLockedCoherent DEF Inv
<1> HIDE DEF x
<1>7. nodes' \in [Node -> NodeState] /\ appliedSeq' \in Nat /\ UNCHANGED <<nextSeq, now>>
  BY DEF Resume, Inv, TypeOK
<1> QED BY <1>2, <1>6, <1>7, CommitPreserves

LEMMA CancelPreserves ==
    ASSUME Inv, NEW id \in Created, Cancel(id)
    PROVE  Inv'
<1> DEFINE r == releases[id]
           stopped == [r EXCEPT !.state = "cancelled", !.pauseReason = "none"]
           announced == Emit(stopped, "release.cancelled")
           cancelled == AbortCatchupLocked(announced)
           x == EmitTo(cancelled, "node.compensation", Succeeded(r))
<1>1. r \in Release /\ Evaluable(r) /\ ~Withdrawn(r)
  BY CoherentEvaluable DEF Inv, TypeOK, Cancel, Withdrawn
<1>2. Commit(id, x)
  BY DEF Cancel
<1> HIDE DEF r
<1>3. stopped \in Release
  BY <1>1 DEF Release, ReleaseState, PauseReason
<1>4. /\ GateView(stopped) = GateView(r) /\ stopped.state = "cancelled"
      /\ stopped.thresholdMetAt = r.thresholdMetAt
      /\ stopped.planned = r.planned /\ stopped.restored = r.restored
  BY <1>1 DEF GateView, Release
<1> HIDE DEF stopped
<1>5. Coherent(stopped)
  BY <1>1, <1>4, EvaluableFrame, CoherentIdle DEF Withdrawn
<1>6. announced \in Release /\ Coherent(announced)
  BY <1>3, <1>5, EmitType, EmitFrame, CoherentFrame DEF ReleaseNotice
<1> HIDE DEF announced
<1>7. cancelled \in Release /\ Coherent(cancelled)
  BY <1>6, AbortCatchupLockedType, AbortCatchupLockedFrame, CoherentFrame
<1> HIDE DEF cancelled
<1>8. x \in Release /\ Coherent(x)
  BY <1>7, EmitToType, EmitToFrame, CoherentFrame DEF NodeNotice
<1> HIDE DEF x
<1>9. nodes' \in [Node -> NodeState] /\ appliedSeq' \in Nat /\ UNCHANGED <<nextSeq, now>>
  BY DEF Cancel, Inv, TypeOK
<1> QED BY <1>2, <1>8, <1>9, CommitPreserves

\* The gate does not see a failure: it judges the nodes that succeeded.
LEMMA FailureBreach ==
    ASSUME NEW r \in Release, NEW s, NEW n \in Node,
           s.input = r.input, s.wave = r.wave, s.currentWave = r.currentWave,
           s.samples = r.samples, s.quarantined = r.quarantined,
           \A m \in Node : m # n => s.result[m] = r.result[m],
           r.result[n] # "succeeded", s.result[n] # "succeeded"
    PROVE  Breach(s) = Breach(r)
<1>1. \A w : WaveNodes(s, w) = WaveNodes(r, w)
  BY DEF WaveNodes
<1>2. \A w : InWave(s, w, "succeeded") = InWave(r, w, "succeeded")
  BY <1>1 DEF InWave, WaveNodes
<1>3. \A w : Covered(s, w) = Covered(r, w)
  BY <1>2 DEF Covered
<1>4. \A m : SamplesOf(s, m) = SamplesOf(r, m)
  BY DEF SamplesOf
<1>5. \A w : Unhealthy(s, w) = Unhealthy(r, w)
  BY <1>3, <1>4 DEF Unhealthy
<1>6. TooManyUnhealthy(s) = TooManyUnhealthy(r)
  BY <1>5 DEF TooManyUnhealthy
<1>7. QuarantineLimitBreached(s) = QuarantineLimitBreached(r)
  BY <1>2, <1>3 DEF QuarantineLimitBreached, QuarantineEnabled, CoverageTooLow
<1> QED BY <1>6, <1>7 DEF Breach

\* The release a receipt meets, once settled.
LEMMA SettledRelease ==
    ASSUME Inv, NEW id \in Created
    PROVE  /\ EvaluateLocked(releases[id], now) \in Release
           /\ Coherent(EvaluateLocked(releases[id], now))
<1>1. releases[id] \in Release /\ Coherent(releases[id])
  BY DEF Inv, TypeOK
<1> QED BY <1>1, NowType, EvaluateLockedType, EvaluateLockedCoherent DEF Inv

LEMMA AckFailedPreserves ==
    ASSUME Inv, NEW id \in Created, NEW n \in Node, AckFailed(id, n)
    PROVE  Inv'
<1> DEFINE r == EvaluateLocked(releases[id], now)
           marked == [r EXCEPT !.result[n] = "failed"]
           failed == EmitTo(marked, "node.failed", {n})
           tooMany == Cardinality(InWave(failed, r.currentWave, "failed"))
                          > r.input.maxFailures
           x == IF tooMany THEN PauseLocked(failed, "failure_threshold") ELSE failed
<1>1. r \in Release /\ Coherent(r)
  BY SettledRelease
<1>2. ReceiptAccepted(r, n) /\ Commit(id, x)
  BY DEF AckFailed
<1>3. UNCHANGED <<nodes, appliedSeq, nextSeq, now>>
  BY DEF AckFailed
<1> HIDE DEF r
<1>4. Evaluable(r) /\ ~Withdrawn(r) /\ r.state = "active" /\ r.result[n] # "succeeded"
  BY <1>1, <1>2, CoherentEvaluable DEF ReceiptAccepted, Withdrawn
<1>5. marked \in Release
  BY <1>1 DEF Release, NodeResult
<1>6. /\ marked.input = r.input /\ marked.wave = r.wave
      /\ marked.currentWave = r.currentWave
      /\ marked.state = r.state /\ marked.thresholdMetAt = r.thresholdMetAt
      /\ marked.planned = r.planned /\ marked.restored = r.restored
      /\ marked.samples = r.samples /\ marked.quarantined = r.quarantined
      /\ marked.result = [r.result EXCEPT ![n] = "failed"]
  BY <1>1 DEF Release
<1>7. \A m \in Node : m # n => marked.result[m] = r.result[m]
  BY <1>1, <1>6 DEF Release
<1>8. marked.result[n] = "failed"
  BY <1>1, <1>6 DEF Release
<1>9. Succeeded(marked) = Succeeded(r)
  BY <1>4, <1>7, <1>8 DEF Succeeded
<1>10. Breach(marked) = Breach(r)
  BY <1>1, <1>4, <1>6, <1>7, <1>8, FailureBreach
<1> HIDE DEF marked
<1>11. Evaluable(marked) /\ ~Withdrawn(marked)
  BY <1>1, <1>4, <1>5, <1>6, <1>7, ResultEvaluable
<1>12. Coherent(marked)
  BY <1>1, <1>6, <1>10, <1>11 DEF Coherent, ObservationGate, Evaluable
<1>13. /\ failed \in Release /\ Coherent(failed) /\ Evaluable(failed)
       /\ ~Withdrawn(failed)
  <2>1. failed \in Release /\ Coherent(failed)
    BY <1>5, <1>12, EmitToType, EmitToFrame, CoherentFrame DEF NodeNotice
  <2>2. RollbackView(failed) = RollbackView(marked)
    BY <1>5, EmitToFrame
  <2> HIDE DEF failed
  <2> QED BY <1>11, <2>1, <2>2, CoherentEvaluable DEF RollbackView, Withdrawn
<1> HIDE DEF failed, tooMany
<1>14. x \in Release /\ Coherent(x)
  BY <1>13, PauseLockedType, PauseLockedCoherent DEF PauseReason
<1> HIDE DEF x
<1>15. nodes' \in [Node -> NodeState] /\ appliedSeq' \in Nat
  BY <1>3 DEF Inv, TypeOK
<1> QED BY <1>2, <1>3, <1>14, <1>15, CommitPreserves

\* A receipt that settles the release it cannot change is a tick.
LEMMA AckIgnoredPreserves ==
    ASSUME Inv, NEW id \in Created, NEW n \in Node, AckIgnored(id, n)
    PROVE  Inv'
BY TickTimeoutPreserves DEF AckIgnored

\* The release of an accepted success, before its threshold is looked at.
LEMMA SuccessEvaluable ==
    ASSUME NEW r \in Release, Coherent(r), r.state = "active", NEW n \in Node,
           NEW d \in Digest \cup {NoDigest}
    PROVE  LET s == EmitTo([r EXCEPT !.result[n] = "succeeded", !.prev[n] = d],
                           "node.succeeded", {n})
           IN  s \in Release /\ Evaluable(s) /\ ~Withdrawn(s) /\ s.state = "active"
<1> DEFINE result == [r.result EXCEPT ![n] = "succeeded"]
           prev == [r.prev EXCEPT ![n] = d]
           marked == [r EXCEPT !.result = result, !.prev = prev]
           s == EmitTo(marked, "node.succeeded", {n})
<1>1. result \in [Node -> NodeResult] /\ prev \in [Node -> Digest \cup {NoDigest}]
  BY DEF Release, NodeResult
<1>2. \A m \in Node : r.result[m] = "succeeded" => result[m] = "succeeded"
  BY DEF Release
<1> HIDE DEF result, prev
<1>3. marked \in Release
  BY <1>1 DEF Release
<1>4. /\ marked.input = r.input /\ marked.wave = r.wave
      /\ marked.currentWave = r.currentWave /\ marked.result = result
      /\ marked.state = r.state /\ marked.thresholdMetAt = r.thresholdMetAt
      /\ marked.planned = r.planned /\ marked.restored = r.restored
  BY DEF Release
<1> HIDE DEF marked
<1>5. Evaluable(marked) /\ ~Withdrawn(marked)
  <2>1. Evaluable(r) /\ ~Withdrawn(r)
    BY CoherentEvaluable DEF Withdrawn
  <2> QED BY <1>2, <1>3, <1>4, <2>1, ResultEvaluable
<1>6. /\ s \in Release /\ GateView(s) = GateView(marked)
      /\ RollbackView(s) = RollbackView(marked)
  BY <1>3, EmitToType, EmitToFrame DEF NodeNotice
<1> HIDE DEF s
<1>7. /\ s.state = marked.state /\ s.thresholdMetAt = marked.thresholdMetAt
      /\ s.planned = marked.planned /\ s.restored = marked.restored
  BY <1>6 DEF RollbackView
<1>8. ~Withdrawn(s) /\ s.state = "active"
  BY <1>4, <1>7 DEF Withdrawn
<1>9. Evaluable(s)
  BY <1>5, <1>6, <1>7, <1>8, EvaluableFrame
<1> QED BY <1>6, <1>8, <1>9 DEF s, marked, result, prev

LEMMA AfterSuccessCoherent ==
    ASSUME NEW r \in Release, Evaluable(r), ~Withdrawn(r), now \in Nat, now \in Int
    PROVE  AfterSuccess(r) \in Release /\ Coherent(AfterSuccess(r))
<1>1. CASE ~ThresholdReached(r)
  <2>1. Coherent(r)
    BY <1>1 DEF Evaluable, Coherent, ObservationGate, WindowJustified
  <2> QED BY <1>1, <2>1 DEF AfterSuccess
<1>2. CASE ThresholdReached(r)
  <2>1. /\ EvaluateHealthLocked(r, now) \in Release
        /\ Coherent(EvaluateHealthLocked(r, now))
    BY EvaluateHealthLockedType, EvaluateHealthLockedCoherent
  <2>2. AdvanceWaveLocked(r, now) \in Release /\ Coherent(AdvanceWaveLocked(r, now))
    BY AdvanceWaveLockedType, AdvanceWaveLockedCoherent
  <2> QED BY <1>2, <2>1, <2>2 DEF AfterSuccess
<1> QED BY <1>1, <1>2

\* What happens to the other releases when a node is moved.
LEMMA AbortSupersededCoherent ==
    ASSUME Inv, NEW id, NEW n \in Node
    PROVE  LET a == AbortSupersededCatchupLocked(id, n)
           IN  /\ DOMAIN a = Created
               /\ a = [i \in Created |-> a[i]]
               /\ \A i \in Created : a[i] \in Release /\ Coherent(a[i])
<1> DEFINE a == AbortSupersededCatchupLocked(id, n)
<1>1. ASSUME NEW i \in Created
      PROVE  a[i] \in Release /\ Coherent(a[i])
  <2>1. releases[i] \in Release /\ Coherent(releases[i])
    BY DEF Inv, TypeOK
  <2>2. /\ AbortCatchupLocked(releases[i]) \in Release
        /\ Coherent(AbortCatchupLocked(releases[i]))
    BY <2>1, AbortCatchupLockedType, AbortCatchupLockedFrame, CoherentFrame
  <2>3. a[i] \in {releases[i], AbortCatchupLocked(releases[i])}
    BY DEF AbortSupersededCatchupLocked
  <2> HIDE DEF a
  <2> QED BY <2>1, <2>2, <2>3
<1>2. DOMAIN a = Created /\ a = [i \in Created |-> a[i]]
  BY DEF AbortSupersededCatchupLocked
<1> HIDE DEF a
<1>3. \A i \in Created : a[i] \in Release /\ Coherent(a[i])
  BY <1>1
<1> QED BY <1>2, <1>3 DEF a

LEMMA AckSucceededPreserves ==
    ASSUME Inv, NEW id \in Created, NEW n \in Node, AckSucceeded(id, n)
    PROVE  Inv'
<1> DEFINE r == EvaluateLocked(releases[id], now)
           d == nodes[n].digest
           s == EmitTo([r EXCEPT !.result[n] = "succeeded", !.prev[n] = d],
                       "node.succeeded", {n})
           others == AbortSupersededCatchupLocked(id, n)
           x == AfterSuccess(s)
<1>1. r \in Release /\ Coherent(r)
  BY SettledRelease
<1>2. r.state = "active"
  BY DEF AckSucceeded, ReceiptAccepted
<1>3. releases' = [others EXCEPT ![id] = x]
  BY DEF AckSucceeded
<1>4. AdvanceNode(n, r.seq, r.input.digest) /\ UNCHANGED <<nextSeq, now>>
  BY DEF AckSucceeded
<1> HIDE DEF r
<1>5. d \in Digest \cup {NoDigest}
  BY DEF Inv, TypeOK, NodeState
<1> HIDE DEF d
<1>6. s \in Release /\ Evaluable(s) /\ ~Withdrawn(s)
  BY <1>1, <1>2, <1>5, SuccessEvaluable
<1> HIDE DEF s
<1>7. x \in Release /\ Coherent(x)
  BY <1>6, NowType, AfterSuccessCoherent DEF Inv
<1>8. /\ DOMAIN others = Created /\ others = [i \in Created |-> others[i]]
      /\ \A i \in Created : others[i] \in Release /\ Coherent(others[i])
  BY AbortSupersededCoherent
<1> HIDE DEF x, others
<1>9. /\ DOMAIN releases' = Created /\ releases' = [i \in Created |-> releases'[i]]
      /\ \A i \in Created : releases'[i] \in Release /\ Coherent(releases'[i])
  BY <1>3, <1>7, <1>8
<1>10. r.seq \in Nat /\ r.input.digest \in Digest \cup {NoDigest}
  BY <1>1 DEF Release, Input
<1>11. nodes' \in [Node -> NodeState] /\ appliedSeq' \in Nat
  BY <1>4, <1>10, AdvanceNodeType DEF Inv
<1> QED BY <1>4, <1>9, <1>11, ReleasesPreserve

LEMMA AckReceiptPreserves ==
    ASSUME Inv, NEW id \in Created, NEW n \in Node, AckReceipt(id, n)
    PROVE  Inv'
BY AckIgnoredPreserves, AckFailedPreserves, AckSucceededPreserves DEF AckReceipt

\* Evidence arrives: nothing an evaluable release promises depends on it.
LEMMA EvidenceEvaluable ==
    ASSUME NEW r, NEW s, Evaluable(r), ~Withdrawn(r), s.state = r.state,
           s.input = r.input, s.wave = r.wave, s.currentWave = r.currentWave,
           s.result = r.result, s.thresholdMetAt = r.thresholdMetAt,
           s.planned = r.planned, s.restored = r.restored
    PROVE  Evaluable(s)
<1>1. \A w : WaveNodes(s, w) = WaveNodes(r, w)
  BY DEF WaveNodes
<1>2. \A w : InWave(s, w, "succeeded") = InWave(r, w, "succeeded")
  BY <1>1 DEF InWave
<1>3. ThresholdReached(s) = ThresholdReached(r) /\ HealthEnabled(s) = HealthEnabled(r)
  BY <1>1, <1>2 DEF ThresholdReached, ThresholdReachedIn, HealthEnabled
<1> QED BY <1>3 DEF Evaluable, WindowJustified, RollbackCoherent, Withdrawn

LEMMA ReportHealthPreserves ==
    ASSUME Inv, NEW id \in Created, NEW n \in Node, NEW event \in SampleId,
           NEW healthy \in BOOLEAN, ReportHealth(id, n, event, healthy)
    PROVE  Inv'
<1> DEFINE r == releases[id]
           sample == [id |-> event, node |-> n, healthy |-> healthy,
                      receivedAt |-> IF KeepReceivedAt THEN now ELSE 0]
           reported == [r EXCEPT !.samples = @ \cup {sample}]
           x == EvaluateHealthLocked(reported, now)
<1>1. r \in Release /\ Evaluable(r) /\ ~Withdrawn(r)
  BY CoherentEvaluable DEF Inv, TypeOK, ReportHealth, Withdrawn
<1>2. Commit(id, x)
  BY DEF ReportHealth
<1>3. sample \in Sample
  BY NowType DEF Inv, Sample
<1> HIDE DEF r, sample
<1>4. reported \in Release
  BY <1>1, <1>3 DEF Release
<1>5. /\ reported.input = r.input /\ reported.wave = r.wave
      /\ reported.currentWave = r.currentWave /\ reported.result = r.result
      /\ reported.thresholdMetAt = r.thresholdMetAt /\ reported.state = r.state
      /\ reported.planned = r.planned /\ reported.restored = r.restored
  BY <1>1 DEF Release
<1> HIDE DEF reported
<1>6. Evaluable(reported)
  BY <1>1, <1>5, EvidenceEvaluable
<1>7. x \in Release /\ Coherent(x)
  BY <1>4, <1>6, NowType, EvaluateHealthLockedType, EvaluateHealthLockedCoherent DEF Inv
<1> HIDE DEF x
<1>8. nodes' \in [Node -> NodeState] /\ appliedSeq' \in Nat /\ UNCHANGED <<nextSeq, now>>
  BY DEF ReportHealth, Inv, TypeOK
<1> QED BY <1>2, <1>7, <1>8, CommitPreserves

LEMMA QuarantineNodePreserves ==
    ASSUME Inv, NEW id \in Created, NEW n \in Node, QuarantineNode(id, n)
    PROVE  Inv'
<1> DEFINE r == EvaluateLocked(releases[id], now)
           marked == [r EXCEPT !.quarantined = @ \cup {n}]
           quarantined == EmitTo(marked, "node.quarantined", {n})
           x == EvaluateHealthLocked(quarantined, now)
<1>1. r \in Release /\ Evaluable(r) /\ ~Withdrawn(r)
  BY SettledRelease, CoherentEvaluable DEF QuarantineNode, Withdrawn
<1>2. Commit(id, x)
  BY DEF QuarantineNode
<1> HIDE DEF r
<1>3. marked \in Release
  BY <1>1 DEF Release
<1>4. /\ marked.input = r.input /\ marked.wave = r.wave
      /\ marked.currentWave = r.currentWave /\ marked.result = r.result
      /\ marked.thresholdMetAt = r.thresholdMetAt /\ marked.state = r.state
      /\ marked.planned = r.planned /\ marked.restored = r.restored
  BY <1>1 DEF Release
<1> HIDE DEF marked
<1>5. Evaluable(marked)
  BY <1>1, <1>4, EvidenceEvaluable
<1>6. /\ quarantined \in Release /\ GateView(quarantined) = GateView(marked)
      /\ RollbackView(quarantined) = RollbackView(marked)
  BY <1>3, EmitToType, EmitToFrame DEF NodeNotice
<1> HIDE DEF quarantined
<1>7. /\ quarantined.state = marked.state
      /\ quarantined.thresholdMetAt = marked.thresholdMetAt
      /\ quarantined.planned = marked.planned /\ quarantined.restored = marked.restored
  BY <1>6 DEF RollbackView
<1>8. Evaluable(quarantined)
  BY <1>1, <1>4, <1>5, <1>6, <1>7, EvaluableFrame DEF Withdrawn
<1>9. x \in Release /\ Coherent(x)
  BY <1>6, <1>8, NowType, EvaluateHealthLockedType, EvaluateHealthLockedCoherent DEF Inv
<1> HIDE DEF x
<1>10. nodes' \in [Node -> NodeState] /\ appliedSeq' \in Nat /\ UNCHANGED <<nextSeq, now>>
  BY DEF QuarantineNode, Inv, TypeOK
<1> QED BY <1>2, <1>9, <1>10, CommitPreserves

LEMMA QuarantineAgainPreserves ==
    ASSUME Inv, NEW id \in Created, NEW n \in Node, QuarantineAgain(id, n)
    PROVE  Inv'
BY TickTimeoutPreserves DEF QuarantineAgain

LEMMA ConfirmRollbackPreserves ==
    ASSUME Inv, NEW id \in Created, NEW n \in Node, ConfirmRollback(id, n)
    PROVE  Inv'
<1> DEFINE r == releases[id]
           marked == [r EXCEPT !.restored = @ \cup {n}]
           confirmed == EmitTo(marked, "node.restored", {n})
           done == [confirmed EXCEPT !.state = "rolled_back"]
           x == IF confirmed.restored = confirmed.planned
                THEN CompleteRollbackLocked(confirmed) ELSE confirmed
<1>1. r \in Release /\ Coherent(r)
  BY DEF Inv, TypeOK
<1>2. n \in r.planned /\ r.state = "rolling_back" /\ Commit(id, x)
  BY DEF ConfirmRollback
<1>3. AdvanceNode(n, r.seq, r.prev[n]) /\ UNCHANGED <<nextSeq, now>>
  BY DEF ConfirmRollback
<1> HIDE DEF r
<1>4. marked \in Release
  BY <1>1 DEF Release
<1>5. /\ GateView(marked) = GateView(r) /\ marked.state = r.state
      /\ marked.thresholdMetAt = r.thresholdMetAt
      /\ marked.rollbackReason = r.rollbackReason
      /\ marked.planned = r.planned /\ marked.restored = r.restored \cup {n}
  BY <1>1 DEF GateView, Release
<1> HIDE DEF marked
<1>6. /\ confirmed \in Release /\ GateView(confirmed) = GateView(marked)
      /\ RollbackView(confirmed) = RollbackView(marked)
  BY <1>4, EmitToType, EmitToFrame DEF NodeNotice
<1> HIDE DEF confirmed
<1>7. /\ confirmed.state = "rolling_back"
      /\ confirmed.thresholdMetAt = r.thresholdMetAt
      /\ confirmed.rollbackReason = r.rollbackReason
      /\ confirmed.planned = r.planned /\ confirmed.restored = r.restored \cup {n}
  BY <1>2, <1>5, <1>6 DEF RollbackView
<1>8. /\ Breach(confirmed) = Breach(r) /\ Succeeded(confirmed) = Succeeded(r)
      /\ HealthEnabled(confirmed) = HealthEnabled(r)
      /\ ThresholdReached(confirmed) = ThresholdReached(r)
  BY <1>5, <1>6, GateFrame
<1>9. /\ WindowJustified(r) /\ Breach(r) # "none" /\ r.rollbackReason = Breach(r)
      /\ r.planned = Succeeded(r) /\ r.restored \subseteq r.planned
  BY <1>1, <1>2 DEF Coherent, RollbackCoherent, Withdrawn
<1>10. ASSUME confirmed.restored # confirmed.planned
       PROVE  x \in Release /\ Coherent(x)
  <2>1. RollbackCoherent(confirmed)
    BY <1>2, <1>7, <1>8, <1>9, <1>10 DEF RollbackCoherent, Withdrawn
  <2>2. Coherent(confirmed)
    BY <1>7, <1>8, <1>9, <2>1 DEF Coherent, ObservationGate, WindowJustified
  <2> QED BY <1>6, <1>10, <2>2
<1>11. ASSUME confirmed.restored = confirmed.planned
       PROVE  x \in Release /\ Coherent(x)
  <2>1. /\ done \in Release /\ GateView(done) = GateView(confirmed)
        /\ done.state = "rolled_back" /\ done.rollbackReason = confirmed.rollbackReason
        /\ done.thresholdMetAt = confirmed.thresholdMetAt
        /\ done.planned = confirmed.planned /\ done.restored = confirmed.restored
    BY <1>6 DEF GateView, Release, ReleaseState
  <2>2. x = Emit(done, "release.rolledback")
    BY <1>11 DEF CompleteRollbackLocked
  <2> HIDE DEF done
  <2>3. /\ Breach(done) = Breach(r) /\ Succeeded(done) = Succeeded(r)
        /\ HealthEnabled(done) = HealthEnabled(r)
        /\ ThresholdReached(done) = ThresholdReached(r)
    BY <1>8, <2>1, GateFrame
  <2>4. RollbackCoherent(done)
    BY <1>7, <1>9, <1>11, <2>1, <2>3 DEF RollbackCoherent, Withdrawn
  <2>5. Coherent(done)
    BY <1>7, <1>9, <2>1, <2>3, <2>4 DEF Coherent, ObservationGate, WindowJustified
  <2> QED BY <2>1, <2>2, <2>5, EmitType, EmitFrame, CoherentFrame DEF ReleaseNotice
<1> HIDE DEF x
<1>12. x \in Release /\ Coherent(x)
  BY <1>10, <1>11
<1>13. nodes' \in [Node -> NodeState] /\ appliedSeq' \in Nat
  <2>1. r.seq \in Nat /\ r.prev[n] \in Digest \cup {NoDigest}
    BY <1>1 DEF Release
  <2> QED BY <1>3, <2>1, AdvanceNodeType DEF Inv
<1> QED BY <1>2, <1>3, <1>12, <1>13, CommitPreserves

LEMMA ClockTickPreserves ==
    ASSUME Inv, ClockTick
    PROVE  Inv'
BY DEF Inv, TypeOK, ClockTick, Created

LEMMA RestartPreserves ==
    ASSUME Inv, Restart
    PROVE  Inv'
<1>1. ASSUME NEW i \in Created
      PROVE  Reloaded(releases[i]) \in Release /\ Coherent(Reloaded(releases[i]))
  <2> DEFINE r == releases[i]
             nils == {m \in {"samples", "quarantined"} : r[m] = {}}
             s == [r EXCEPT !.nilMaps = nils]
  <2>1. r \in Release /\ Coherent(r)
    BY DEF Inv, TypeOK
  <2>2. nils \in SUBSET {"samples", "quarantined"}
    OBVIOUS
  <2>3. s = Reloaded(releases[i])
    BY DEF Reloaded
  <2> HIDE DEF r, nils
  <2>4. s \in Release /\ GateView(s) = GateView(r) /\ RollbackView(s) = RollbackView(r)
    BY <2>1, <2>2 DEF Release, GateView, RollbackView
  <2> HIDE DEF s
  <2>5. Coherent(s)
    BY <2>1, <2>4, CoherentFrame
  <2> QED BY <2>3, <2>4, <2>5
<1>2. releases' = [i \in Created |-> Reloaded(releases[i])]
  BY DEF Restart
<1>3. /\ DOMAIN releases' = Created /\ releases' = [i \in Created |-> releases'[i]]
      /\ \A i \in Created : releases'[i] \in Release /\ Coherent(releases'[i])
  BY <1>1, <1>2
<1>4. /\ nodes' \in [Node -> NodeState] /\ appliedSeq' \in Nat
      /\ UNCHANGED <<nextSeq, now>>
  BY DEF Restart, Inv, TypeOK
<1> QED BY <1>3, <1>4, ReleasesPreserve

-----------------------------------------------------------------------------
(* The theorems *)

\* The invariant holds of the empty store.
LEMMA InitInv == Init => Inv
BY ClockAssumption DEF Init, Inv, TypeOK, Created, NodeState, NeverApplied

\* Every handler, every move of the clock and every restart preserves it.
LEMMA NextInv == Inv /\ [Next]_vars => Inv'
<1> SUFFICES ASSUME Inv, [Next]_vars PROVE Inv'
  OBVIOUS
<1>1. CASE UNCHANGED vars
  BY <1>1 DEF vars, Inv, TypeOK, Created
<1>2. ASSUME NEW id \in ReleaseId, NEW in \in Inputs, CreateRelease(id, in) PROVE Inv'
  BY <1>2, CreateReleasePreserves
<1>3. ASSUME NEW id \in Created,
             TickTimeout(id) \/ Pause(id) \/ Resume(id) \/ Cancel(id)
      PROVE  Inv'
  BY <1>3, TickTimeoutPreserves, PausePreserves, ResumePreserves, CancelPreserves
<1>4. ASSUME NEW id \in Created, NEW n \in Node,
             \/ AckReceipt(id, n) \/ QuarantineNode(id, n)
             \/ QuarantineAgain(id, n) \/ ConfirmRollback(id, n)
      PROVE  Inv'
  BY <1>4, AckReceiptPreserves, QuarantineNodePreserves, QuarantineAgainPreserves,
     ConfirmRollbackPreserves
<1>5. ASSUME NEW id \in Created, NEW n \in Node, NEW event \in SampleId,
             NEW healthy \in BOOLEAN, ReportHealth(id, n, event, healthy)
      PROVE  Inv'
  BY <1>5, ReportHealthPreserves
<1>6. CASE ClockTick
  BY <1>6, ClockTickPreserves
<1>7. CASE Restart
  BY <1>7, RestartPreserves
<1> QED BY <1>1, <1>2, <1>3, <1>4, <1>5, <1>6, <1>7 DEF Next

\* The service never leaves its types: no handler writes a result, a wave or a
\* sequence number outside the range the records declare.
THEOREM TypeCorrect == Spec => []TypeOK
<1>1. Inv => TypeOK
  BY DEF Inv
<1> QED BY InitInv, NextInv, <1>1, PTL DEF Spec

\* For any number of releases, nodes, samples and any input: a release that is still
\* observing exceeds no limit, and observes only a wave at its threshold.
THEOREM ObservationSafe == Spec => []NoBreachWhileObserving
<1>1. Inv => NoBreachWhileObserving
  BY DEF Inv, Coherent, NoBreachWhileObserving
<1> QED BY InitInv, NextInv, <1>1, PTL DEF Spec

\* For any constants: a rollback is justified by the state it froze, covers exactly
\* the nodes that succeeded, and ends exactly when all of them are restored.
THEOREM RollbackSafe == Spec => []RollbackJustifiedAndComplete
<1>1. Inv => RollbackJustifiedAndComplete
  BY DEF Inv, Coherent, RollbackJustifiedAndComplete
<1> QED BY InitInv, NextInv, <1>1, PTL DEF Spec
=============================================================================
