------------------------------ MODULE WaveProofs ------------------------------
(***************************************************************************)
(* The order of the waves (WavesInOrder), and the implementation of        *)
(* Lifecycle, proved of Rollout.  They need Coherent from RolloutProofs,   *)
(* because only that says that an observed wave is at its threshold when   *)
(* it is left, and that a quarantined node succeeded, because then a       *)
(* rollback always has a node to restore and never ends as it starts.      *)
(* Each handler is looked at once: it makes Transacts(id) true, which has  *)
(* both the invariant after the step and the migrations of the step.       *)
(***************************************************************************)
EXTENDS RolloutProofs

\* What is inductive together with Coherent.
Ordered(r) == WaveOrder(r) /\ r.quarantined \subseteq Succeeded(r)

WaveInv == Inv /\ \A id \in Created : Ordered(releases[id])

\* What the order depends on beyond the view of the health gate.
LifeView(r) == <<r.state, r.currentWave, r.lastWave>>

LEMMA EmitLife ==
    ASSUME NEW r \in Release, NEW k
    PROVE  LifeView(Emit(r, k)) = LifeView(r)
BY DEF Emit, LifeView, Release

LEMMA EmitToLife ==
    ASSUME NEW r \in Release, NEW k, NEW S
    PROVE  LifeView(EmitTo(r, k, S)) = LifeView(r)
BY DEF EmitTo, LifeView, Release

LEMMA AbortCatchupLockedLife ==
    ASSUME NEW r \in Release
    PROVE  LifeView(AbortCatchupLocked(r)) = LifeView(r)
<1>1. CASE r.plan.state \notin LiveCatchup
  BY <1>1 DEF AbortCatchupLocked
<1>2. CASE r.plan.state \in LiveCatchup
  BY <1>2 DEF AbortCatchupLocked, Emit, LifeView, Release
<1> QED BY <1>1, <1>2

\* A change that neither the gate sees nor completes the release keeps the order.
LEMMA OrderedFrame ==
    ASSUME NEW r, NEW s, Ordered(r), GateView(s) = GateView(r), s.lastWave = r.lastWave,
           s.state = "completed" => r.state = "completed"
    PROVE  Ordered(s)
<1>1. /\ s.wave = r.wave /\ s.currentWave = r.currentWave /\ s.result = r.result
      /\ s.quarantined = r.quarantined
  BY DEF GateView
<1>2. Succeeded(s) = Succeeded(r) /\ Targets(s) = Targets(r)
  BY <1>1 DEF Succeeded, Targets
<1>3. \A w : ThresholdReachedIn(s, w) = ThresholdReachedIn(r, w)
  BY GateFrame
<1>4. WaveOrder(s)
  BY <1>1, <1>2, <1>3 DEF WaveOrder, Ordered
<1> QED BY <1>1, <1>2, <1>4 DEF Ordered

LEMMA ViewsOrdered ==
    ASSUME NEW r, NEW s, Ordered(r), GateView(s) = GateView(r), LifeView(s) = LifeView(r)
    PROVE  Ordered(s)
<1>1. s.state = r.state /\ s.lastWave = r.lastWave
  BY DEF LifeView
<1> QED BY <1>1, OrderedFrame

LEMMA PauseLockedOrdered ==
    ASSUME NEW r \in Release, Ordered(r), NEW reason
    PROVE  Ordered(PauseLocked(r, reason))
<1> DEFINE s == PauseLocked(r, reason)
<1>1. GateView(s) = GateView(r) /\ s.lastWave = r.lastWave /\ s.state = "paused"
  BY DEF PauseLocked, GateView, Release
<1> HIDE DEF s
<1>2. Ordered(s)
  BY <1>1, OrderedFrame
<1> QED BY <1>2 DEF s

\* The next wave opens on nodes that had no result yet, so that no success is undone.
LEMMA OpenWaveOrdered ==
    ASSUME NEW r \in Release, Ordered(r), r.state # "completed", ThresholdReached(r),
           r.currentWave < r.lastWave
    PROVE  Ordered(OpenWave(r, r.currentWave + 1, now))
<1> DEFINE w == r.currentWave + 1
           result == [n \in Node |-> IF r.wave[n] = w THEN "in_progress" ELSE r.result[n]]
           opened == [r EXCEPT !.currentWave = w, !.waveOpenedAt = now,
                               !.thresholdMetAt = NotMet, !.result = result]
           s == OpenWave(r, w, now)
<1>1. s = [opened EXCEPT !.sent["wave.opened"] = @ + 1]
  BY DEF OpenWave, Emit
<1> HIDE DEF result
<1>2. /\ s.state = r.state /\ s.currentWave = w /\ s.lastWave = r.lastWave
      /\ s.wave = r.wave /\ s.result = result /\ s.input = r.input
      /\ s.quarantined = r.quarantined
  BY <1>1, ZenonT(30) DEF Release
<1> HIDE DEF s
<1>3. r.currentWave \in Nat /\ r.lastWave \in Nat /\ r.wave \in [Node -> Int]
  BY DEF Release
<1>4. \A n \in Node : r.wave[n] = w => r.result[n] = "pending"
  <2>1. ASSUME NEW n \in Node, r.wave[n] = w PROVE r.result[n] = "pending"
    <3>1. n \in Targets(r) /\ r.wave[n] > r.currentWave
      BY <1>3, <2>1 DEF Targets, NoWave
    <3> QED BY <3>1 DEF Ordered, WaveOrder
  <2> QED BY <2>1
<1>5. \A n \in Node : result[n] = "succeeded" <=> r.result[n] = "succeeded"
  BY <1>4 DEF result
<1>6. Succeeded(s) = Succeeded(r)
  BY <1>2, <1>5 DEF Succeeded
<1>7. \A v : InWave(s, v, "succeeded") = InWave(r, v, "succeeded")
  BY <1>2, <1>5 DEF InWave, WaveNodes
<1>8. \A v : ThresholdReachedIn(s, v) = ThresholdReachedIn(r, v)
  BY <1>2, <1>7 DEF ThresholdReachedIn, WaveNodes
<1>9. \A n \in Targets(s) : s.wave[n] > w <=> s.result[n] = "pending"
  <2>1. ASSUME NEW n \in Targets(s)
        PROVE  s.wave[n] > w <=> s.result[n] = "pending"
    <3>1. n \in Node /\ n \in Targets(r)
      BY <1>2, <2>1 DEF Targets
    <3>2. r.wave[n] \in Int
      BY <1>3, <3>1
    <3>3. r.wave[n] > r.currentWave <=> r.result[n] = "pending"
      BY <3>1 DEF Ordered, WaveOrder
    <3>4. r.wave[n] > w <=> r.wave[n] > r.currentWave /\ r.wave[n] # w
      BY <1>3, <3>2
    <3>5. result[n] = "pending" <=> r.wave[n] # w /\ r.result[n] = "pending"
      BY <3>1 DEF result
    <3> QED BY <1>2, <3>3, <3>4, <3>5
  <2> QED BY <2>1
<1>10. \A v \in 0 .. s.lastWave : v < s.currentWave => ThresholdReachedIn(s, v)
  <2>1. ASSUME NEW v \in 0 .. r.lastWave, v < w PROVE ThresholdReachedIn(r, v)
    <3>1. v < r.currentWave \/ v = r.currentWave
      BY <1>3, <2>1
    <3> QED BY <3>1 DEF Ordered, WaveOrder, ThresholdReached
  <2> QED BY <1>2, <1>8, <2>1
<1>11. WaveOrder(s)
  <2>1. s.currentWave <= s.lastWave /\ s.state # "completed"
    BY <1>2, <1>3
  <2> QED BY <1>2, <1>9, <1>10, <2>1 DEF WaveOrder
<1>12. Ordered(s)
  BY <1>2, <1>6, <1>11 DEF Ordered
<1> QED BY <1>12 DEF s

LEMMA AdvanceWaveLockedOrdered ==
    ASSUME NEW r \in Release, Ordered(r), r.state = "active", ThresholdReached(r)
    PROVE  Ordered(AdvanceWaveLocked(r, now))
<1>1. CASE r.currentWave # r.lastWave
  <2>1. r.currentWave < r.lastWave
    BY <1>1 DEF Ordered, WaveOrder, Release
  <2> QED BY <1>1, <2>1, OpenWaveOrdered DEF AdvanceWaveLocked
<1>2. CASE r.currentWave = r.lastWave
  <2> DEFINE c == [r EXCEPT !.state = "completed"]
  <2>1. /\ GateView(c) = GateView(r) /\ c.lastWave = r.lastWave
        /\ c.currentWave = r.currentWave /\ c.wave = r.wave /\ c.result = r.result
        /\ c.quarantined = r.quarantined /\ c.state = "completed" /\ c \in Release
    BY DEF GateView, Release, ReleaseState
  <2> HIDE DEF c
  <2>2. \A w : ThresholdReachedIn(c, w) = ThresholdReachedIn(r, w)
    BY <2>1, GateFrame
  <2>3. \A w \in 0 .. c.lastWave : ThresholdReachedIn(c, w)
    <3>1. ASSUME NEW w \in 0 .. r.lastWave PROVE ThresholdReachedIn(r, w)
      <4>1. r.currentWave \in Nat
        BY DEF Release
      <4>2. w < r.currentWave \/ w = r.currentWave
        BY <1>2, <4>1
      <4> QED BY <4>2 DEF Ordered, WaveOrder, ThresholdReached
    <3> QED BY <2>1, <2>2, <3>1
  <2>4. Ordered(c)
    BY <2>1, <2>3 DEF Ordered, WaveOrder, Succeeded, Targets
  <2>5. Ordered(Emit(c, "release.completed"))
    BY <2>1, <2>4, EmitFrame, EmitLife, ViewsOrdered
  <2> QED BY <1>2, <2>5 DEF AdvanceWaveLocked, c
<1> QED BY <1>1, <1>2

-----------------------------------------------------------------------------
(* Migrations: what the helpers do to the life of a release *)

Life(r) == [state |-> r.state, wave |-> r.currentWave, last |-> r.lastWave]

\* The migrations of one transaction, or none.
Moves(s, t) == s = t \/ Lives!Migrates(s, t) \/ Lives!MigratesTwice(s, t)

\* Those that the health gate makes.
GateMoves(s, t) ==
    s = t \/ Lives!Opens(s, t) \/ Lives!Completes(s, t) \/ Lives!Withdraws(s, t)

LEMMA LifeFrame ==
    ASSUME NEW r, NEW s, LifeView(s) = LifeView(r)
    PROVE  Life(s) = Life(r)
BY DEF LifeView, Life

LEMMA PauseLockedMoves ==
    ASSUME NEW r \in Release, r.state = "active", NEW reason
    PROVE  Lives!Pauses(Life(r), Life(PauseLocked(r, reason)))
<1> DEFINE s == PauseLocked(r, reason)
<1>1. s.state = "paused" /\ s.currentWave = r.currentWave /\ s.lastWave = r.lastWave
  BY DEF PauseLocked, Release
<1> HIDE DEF s
<1>2. Lives!Pauses(Life(r), Life(s))
  BY <1>1 DEF Lives!Pauses, Lives!To, Life
<1> QED BY <1>2 DEF s

LEMMA AdvanceWaveLockedMoves ==
    ASSUME NEW r \in Release, Ordered(r), r.state = "active"
    PROVE  GateMoves(Life(r), Life(AdvanceWaveLocked(r, now)))
<1> DEFINE w == r.currentWave + 1
           opened == OpenWave(r, w, now)
           completed == Emit([r EXCEPT !.state = "completed"], "release.completed")
<1>1. /\ opened.state = r.state /\ opened.currentWave = w
      /\ opened.lastWave = r.lastWave
  BY DEF OpenWave, Emit, Release
<1>2. /\ completed.state = "completed" /\ completed.currentWave = r.currentWave
      /\ completed.lastWave = r.lastWave
  BY DEF Emit, Release
<1>3. AdvanceWaveLocked(r, now) = IF r.currentWave = r.lastWave THEN completed ELSE opened
  BY DEF AdvanceWaveLocked
<1>4. r.currentWave \in Nat /\ r.lastWave \in Nat /\ r.currentWave <= r.lastWave
  BY DEF Release, Ordered, WaveOrder
<1> HIDE DEF opened, completed
<1>5. CASE r.currentWave = r.lastWave
  <2>1. Lives!Completes(Life(r), Life(completed))
    BY <1>2, <1>5 DEF Lives!Completes, Lives!To, Life
  <2> QED BY <1>3, <1>5, <2>1 DEF GateMoves
<1>6. CASE r.currentWave # r.lastWave
  <2>1. Lives!Opens(Life(r), Life(opened))
    BY <1>1, <1>4, <1>6 DEF Lives!Opens, Lives!NextWave, Life
  <2> QED BY <1>3, <1>6, <2>1 DEF GateMoves
<1> QED BY <1>5, <1>6

\* A limit can only be exceeded by nodes that succeeded.
LEMMA BreachHasSuccess ==
    ASSUME NEW r \in Release, Ordered(r), Breach(r) # "none"
    PROVE  Succeeded(r) # {}
<1> SUFFICES ASSUME Succeeded(r) = {} PROVE FALSE
  OBVIOUS
<1>1. \A w : InWave(r, w, "succeeded") = {}
  BY DEF InWave, WaveNodes, Succeeded
<1>2. Unhealthy(r, r.currentWave) = {} /\ Covered(r, r.currentWave) = {}
  BY <1>1 DEF Unhealthy, Covered
<1>3. r.quarantined = {}
  BY DEF Ordered
<1>4. r.input \in Input
  BY DEF Release
<1>5. /\ r.input.health.maxUnhealthy \in Nat /\ r.input.quarantine.maxQuarantined \in Nat
      /\ r.input.quarantine.minCoverage \in Nat \X (Nat \ {0})
  BY <1>4 DEF Input, HealthPolicy, QuarantinePolicy, Ratio
<1>6. Cardinality({}) = 0
  BY FS_EmptySet
<1>7. ~TooManyUnhealthy(r)
  BY <1>2, <1>5, <1>6 DEF TooManyUnhealthy
<1>8. ~CoverageTooLow(r)
  <2> DEFINE min == r.input.quarantine.minCoverage
  <2>1. min[1] \in Nat /\ min[2] \in Nat
    BY <1>5
  <2>2. CoverageTooLow(r) <=> 0 * min[2] < min[1] * 0
    BY <1>1, <1>2, <1>6 DEF CoverageTooLow
  <2> HIDE DEF min
  <2> QED BY <2>1, <2>2
<1>9. ~QuarantineLimitBreached(r)
  BY <1>3, <1>5, <1>6, <1>8 DEF QuarantineLimitBreached
<1> QED BY <1>7, <1>9 DEF Breach

\* So a rollback starts, it does not end at once; and it moves no wave.
LEMMA StartRollbackLockedFrame ==
    ASSUME NEW r \in Release, Ordered(r), Breach(r) # "none"
    PROVE  LET x == StartRollbackLocked(r, Breach(r))
           IN  /\ GateView(x) = GateView(r) /\ x.state = "rolling_back"
               /\ x.lastWave = r.lastWave /\ x.thresholdMetAt = r.thresholdMetAt
<1> DEFINE reason == Breach(r)
           started == [r EXCEPT !.state = "rolling_back", !.pauseReason = "none",
                                !.rollbackReason = reason, !.planned = Succeeded(r)]
           announced == Emit(started, "rollback.started")
           notified == EmitTo(announced, "node.rollback", Succeeded(r))
           aborted == AbortCatchupLocked(notified)
<1>1. StartRollbackLocked(r, reason) = aborted
  BY BreachHasSuccess DEF StartRollbackLocked
<1>2. reason \in RollbackReason
  BY DEF Breach, RollbackReason
<1>3. Succeeded(r) \in SUBSET Node
  BY DEF Succeeded
<1> HIDE DEF reason
<1>4. started \in Release
  BY <1>2, <1>3 DEF Release, ReleaseState, PauseReason
<1>5. /\ GateView(started) = GateView(r) /\ started.state = "rolling_back"
      /\ started.lastWave = r.lastWave /\ started.thresholdMetAt = r.thresholdMetAt
  BY DEF GateView, Release
<1> HIDE DEF started
<1>6. /\ announced \in Release /\ GateView(announced) = GateView(started)
      /\ LifeView(announced) = LifeView(started)
      /\ RollbackView(announced) = RollbackView(started)
  BY <1>4, EmitType, EmitFrame, EmitLife DEF ReleaseNotice
<1> HIDE DEF announced
<1>7. /\ notified \in Release /\ GateView(notified) = GateView(started)
      /\ LifeView(notified) = LifeView(started)
      /\ RollbackView(notified) = RollbackView(started)
  BY <1>6, EmitToType, EmitToFrame, EmitToLife DEF NodeNotice
<1> HIDE DEF notified
<1>8. /\ GateView(aborted) = GateView(started) /\ LifeView(aborted) = LifeView(started)
      /\ RollbackView(aborted) = RollbackView(started)
  BY <1>7, AbortCatchupLockedFrame, AbortCatchupLockedLife
<1> HIDE DEF aborted
<1>9. /\ GateView(aborted) = GateView(r) /\ aborted.state = "rolling_back"
      /\ aborted.lastWave = r.lastWave /\ aborted.thresholdMetAt = r.thresholdMetAt
  BY <1>5, <1>8 DEF LifeView, RollbackView
<1> QED BY <1>1, <1>9 DEF reason

LEMMA StartRollbackLockedWaves ==
    ASSUME NEW r \in Release, Ordered(r), r.state = "active", Breach(r) # "none"
    PROVE  LET x == StartRollbackLocked(r, Breach(r))
           IN  Ordered(x) /\ Lives!Withdraws(Life(r), Life(x))
<1> DEFINE x == StartRollbackLocked(r, Breach(r))
<1>1. /\ GateView(x) = GateView(r) /\ x.state = "rolling_back" /\ x.lastWave = r.lastWave
  BY StartRollbackLockedFrame
<1> HIDE DEF x
<1>2. x.currentWave = r.currentWave
  BY <1>1 DEF GateView
<1>3. Ordered(x)
  BY <1>1, OrderedFrame
<1>4. Lives!Withdraws(Life(r), Life(x))
  BY <1>1, <1>2 DEF Lives!Withdraws, Lives!To, Life
<1> QED BY <1>3, <1>4 DEF x

LEMMA EvaluateHealthLockedWaves ==
    ASSUME NEW r \in Release, Evaluable(r), Ordered(r), now \in Nat
    PROVE  LET x == EvaluateHealthLocked(r, now)
           IN  Ordered(x) /\ GateMoves(Life(r), Life(x))
<1> DEFINE o == Observe(r, now)
           x == EvaluateHealthLocked(r, now)
<1>1. CASE x = r
  BY <1>1 DEF GateMoves
<1>2. CASE x # r
  <2>1. /\ r.state = "active" /\ HealthEnabled(r)
        /\ r.thresholdMetAt # NotMet \/ ThresholdReached(r)
    BY <1>2 DEF EvaluateHealthLocked
  <2>2. x = IF Breach(o) # "none" THEN StartRollbackLocked(o, Breach(o))
            ELSE IF ObservationPassed(o, now) THEN AdvanceWaveLocked(o, now)
            ELSE o
    BY <2>1 DEF EvaluateHealthLocked
  <2>3. GateView(o) = GateView(r) /\ LifeView(o) = LifeView(r) /\ o \in Release
    <3> DEFINE met == IF r.thresholdMetAt = NotMet THEN now ELSE r.thresholdMetAt
    <3>1. o = [r EXCEPT !.thresholdMetAt = met]
      BY DEF Observe
    <3> HIDE DEF met
    <3>2. o \in Release
      BY ObserveType
    <3> QED BY <3>1, <3>2 DEF GateView, LifeView, Release
  <2> HIDE DEF o, x
  <2>4. Ordered(o) /\ o.state = "active" /\ Life(o) = Life(r)
    BY <2>1, <2>3, ViewsOrdered, LifeFrame DEF LifeView
  <2>5. ThresholdReached(o)
    BY <2>1, <2>3, GateFrame DEF Evaluable, WindowJustified
  <2>6. CASE Breach(o) # "none"
    <3>1. x = StartRollbackLocked(o, Breach(o))
      BY <2>2, <2>6
    <3>2. Ordered(x) /\ Lives!Withdraws(Life(o), Life(x))
      BY <2>3, <2>4, <2>6, <3>1, StartRollbackLockedWaves
    <3> QED BY <2>4, <3>2 DEF GateMoves, x
  <2>7. CASE Breach(o) = "none" /\ ObservationPassed(o, now)
    <3>1. x = AdvanceWaveLocked(o, now)
      BY <2>2, <2>7
    <3>2. Ordered(x)
      BY <2>3, <2>4, <2>5, <3>1, AdvanceWaveLockedOrdered
    <3>3. GateMoves(Life(o), Life(x))
      BY <2>3, <2>4, <3>1, AdvanceWaveLockedMoves
    <3> QED BY <2>4, <3>2, <3>3 DEF x
  <2>8. CASE Breach(o) = "none" /\ ~ObservationPassed(o, now)
    <3>1. x = o
      BY <2>2, <2>8
    <3> QED BY <2>4, <3>1 DEF GateMoves, x
  <2> QED BY <2>6, <2>7, <2>8
<1> QED BY <1>1, <1>2

\* The timer pauses a release or leaves it to the gate.
LEMMA EvaluateLockedWaves ==
    ASSUME NEW r \in Release, Coherent(r), Ordered(r), now \in Nat
    PROVE  LET x == EvaluateLocked(r, now)
           IN  Ordered(x) /\ (Lives!Pauses(Life(r), Life(x)) \/ GateMoves(Life(r), Life(x)))
<1> DEFINE t == EvaluateTimeoutLocked(r, now)
           x == EvaluateLocked(r, now)
<1>1. x = EvaluateHealthLocked(t, now)
  BY DEF EvaluateLocked
<1>2. CASE t = r
  BY <1>1, <1>2, CoherentEvaluable, EvaluateHealthLockedWaves
<1>3. CASE t # r
  <2>1. r.state = "active" /\ t = PauseLocked(r, "timeout")
    BY <1>3 DEF EvaluateTimeoutLocked
  <2>2. t.state = "paused"
    BY <2>1 DEF PauseLocked, Release
  <2>3. x = t
    BY <1>1, <2>2 DEF EvaluateHealthLocked
  <2>4. Ordered(t) /\ Lives!Pauses(Life(r), Life(t))
    BY <2>1, PauseLockedOrdered, PauseLockedMoves
  <2> QED BY <2>3, <2>4
<1> QED BY <1>2, <1>3

-----------------------------------------------------------------------------
(* New releases, receipts and evidence *)

LEMMA NewReleaseWaves ==
    ASSUME NEW in \in Input, ValidInput(in), NEW seq \in Nat
    PROVE  LET x == NewRelease(seq, in, now)
           IN  /\ Ordered(x)
               /\ Life(x) = [ state |-> "active", wave |-> 0,
                              last |-> (Len(in.targets) - 1) \div in.waveSize ]
<1> DEFINE empty == EmptyRelease(seq, in)
           created == Emit(empty, "release.created")
           result == [n \in Node |-> IF created.wave[n] = 0 THEN "in_progress"
                                     ELSE created.result[n]]
           opened == [created EXCEPT !.currentWave = 0, !.waveOpenedAt = now,
                                     !.thresholdMetAt = NotMet, !.result = result]
           x == NewRelease(seq, in, now)
           last == (Len(in.targets) - 1) \div in.waveSize
<1>1. empty \in Release
  BY EmptyReleaseType
<1>2. /\ empty.state = "active" /\ empty.lastWave = last /\ empty.quarantined = {}
      /\ empty.wave = [n \in Node |-> WaveOf(in, n)]
      /\ empty.result = [n \in Node |-> "pending"]
  BY DEF EmptyRelease
<1> HIDE DEF empty
<1>3. /\ created \in Release /\ GateView(created) = GateView(empty)
      /\ LifeView(created) = LifeView(empty)
  BY <1>1, EmitType, EmitFrame, EmitLife DEF ReleaseNotice
<1>4. x = [opened EXCEPT !.sent["wave.opened"] = @ + 1]
  BY DEF NewRelease, OpenWave, Emit, created, empty
<1> HIDE DEF created, result
<1>5. /\ x.state = created.state /\ x.currentWave = 0 /\ x.lastWave = created.lastWave
      /\ x.wave = created.wave /\ x.result = result
      /\ x.quarantined = created.quarantined
  BY <1>3, <1>4 DEF Release
<1> HIDE DEF x
<1>6. /\ x.state = "active" /\ x.currentWave = 0 /\ x.lastWave = last
      /\ x.quarantined = {} /\ x.wave = [n \in Node |-> WaveOf(in, n)]
      /\ x.result = [n \in Node |-> IF x.wave[n] = 0 THEN "in_progress" ELSE "pending"]
  <2>1. x.state = "active" /\ x.lastWave = last
    BY <1>2, <1>3, <1>5 DEF LifeView
  <2>2. /\ created.wave = empty.wave /\ created.result = empty.result
        /\ created.quarantined = empty.quarantined
    BY <1>3 DEF GateView
  <2> QED BY <1>2, <1>5, <2>1, <2>2 DEF result
<1> HIDE DEF last
<1>7. last \in Nat
  BY <1>1, <1>2 DEF Release
<1>8. WaveOrder(x)
  <2>1. ASSUME NEW n \in Targets(x)
        PROVE  x.wave[n] > x.currentWave <=> x.result[n] = "pending"
    <3>1. n \in Node /\ x.wave[n] # NoWave
      BY <2>1 DEF Targets
    <3>2. x.wave[n] \in Nat
      BY <1>6, <3>1, WaveOfType
    <3> QED BY <1>6, <3>1, <3>2
  <2>2. \A w \in 0 .. x.lastWave : ~(w < x.currentWave)
    BY <1>6, <1>7
  <2> QED BY <1>6, <1>7, <2>1, <2>2 DEF WaveOrder
<1>9. Ordered(x)
  BY <1>6, <1>8 DEF Ordered
<1> QED BY <1>6, <1>9 DEF Life, x, last

\* A receipt gives one node of the current wave its result.
LEMMA ResultOrdered ==
    ASSUME NEW r \in Release, Ordered(r), r.state # "completed", NEW s, NEW n \in Node,
           s.input = r.input, s.wave = r.wave, s.currentWave = r.currentWave,
           s.lastWave = r.lastWave, s.state = r.state, s.quarantined = r.quarantined,
           r.wave[n] = r.currentWave, r.result[n] # "succeeded",
           s.result[n] \in {"succeeded", "failed"},
           \A m \in Node : m # n => s.result[m] = r.result[m]
    PROVE  Ordered(s)
<1>1. r.currentWave \in Nat /\ r.lastWave \in Nat /\ r.wave \in [Node -> Int]
  BY DEF Release
<1>2. \A w : WaveNodes(s, w) = WaveNodes(r, w)
  BY DEF WaveNodes
<1>3. \A w : w # r.currentWave => InWave(s, w, "succeeded") = InWave(r, w, "succeeded")
  BY <1>2 DEF InWave, WaveNodes
<1>4. \A w : w # r.currentWave => (ThresholdReachedIn(s, w) <=> ThresholdReachedIn(r, w))
  BY <1>2, <1>3 DEF ThresholdReachedIn
<1>5. Targets(s) = Targets(r)
  BY DEF Targets
<1>6. ASSUME NEW m \in Targets(s)
      PROVE  s.wave[m] > s.currentWave <=> s.result[m] = "pending"
  <2>1. m \in Node /\ (r.wave[m] > r.currentWave <=> r.result[m] = "pending")
    BY <1>5, <1>6 DEF Ordered, WaveOrder, Targets
  <2>2. CASE m = n
    BY <1>1, <2>2
  <2>3. CASE m # n
    BY <2>1, <2>3
  <2> QED BY <2>2, <2>3
<1>7. ASSUME NEW w \in 0 .. s.lastWave, w < s.currentWave
      PROVE  ThresholdReachedIn(s, w)
  <2>1. ThresholdReachedIn(r, w)
    BY <1>7 DEF Ordered, WaveOrder
  <2> QED BY <1>1, <1>4, <1>7, <2>1
<1>8. WaveOrder(s)
  BY <1>6, <1>7 DEF WaveOrder, Ordered
<1>9. s.quarantined \subseteq Succeeded(s)
  BY DEF Succeeded, Ordered
<1> QED BY <1>8, <1>9 DEF Ordered

\* Samples and quarantine decisions about nodes that succeeded leave the order alone.
LEMMA EvidenceOrdered ==
    ASSUME NEW r, Ordered(r), NEW s,
           s.input = r.input, s.wave = r.wave, s.currentWave = r.currentWave,
           s.lastWave = r.lastWave, s.state = r.state, s.result = r.result,
           s.quarantined \subseteq Succeeded(r)
    PROVE  Ordered(s)
<1>1. \A w : WaveNodes(s, w) = WaveNodes(r, w)
  BY DEF WaveNodes
<1>2. \A w : InWave(s, w, "succeeded") = InWave(r, w, "succeeded")
  BY <1>1 DEF InWave
<1>3. \A w : ThresholdReachedIn(s, w) <=> ThresholdReachedIn(r, w)
  BY <1>1, <1>2 DEF ThresholdReachedIn
<1>4. Targets(s) = Targets(r) /\ Succeeded(s) = Succeeded(r)
  BY DEF Targets, Succeeded
<1>5. WaveOrder(s)
  BY <1>3, <1>4 DEF WaveOrder, Ordered
<1> QED BY <1>4, <1>5 DEF Ordered

-----------------------------------------------------------------------------
(* Transactions *)

\* What a handler of release id does to the lives of all releases.
Transacts(id) ==
    /\ Created' = Created
    /\ \A i \in Created : Ordered(releases'[i])
    /\ \A i \in Created \ {id} : Life(releases'[i]) = Life(releases[i])
    /\ Moves(Life(releases[id]), Life(releases'[id]))

LEMMA CommitTransacts ==
    ASSUME WaveInv, NEW id \in Created, NEW x, Ordered(x), Commit(id, x),
           Moves(Life(releases[id]), Life(x))
    PROVE  Transacts(id)
<1>1. releases' = [releases EXCEPT ![id] = x]
  BY DEF Commit
<1>2. Created' = Created /\ releases'[id] = x
  BY <1>1 DEF Created
<1>3. \A i \in Created \ {id} : releases'[i] = releases[i]
  BY <1>1 DEF Created
<1> QED BY <1>2, <1>3 DEF Transacts, WaveInv

\* One migration is a legal transaction.
LEMMA SingleMove ==
    ASSUME NEW s, NEW t, Lives!Pauses(s, t) \/ GateMoves(s, t)
    PROVE  Moves(s, t)
BY DEF Moves, GateMoves, Lives!Migrates

\* So is a migration of a release that the same transaction has just settled,
\* when settling it left it active.
LEMMA SettledMove ==
    ASSUME NEW r, NEW r1, NEW u, r1.state = "active",
           Lives!Pauses(Life(r), Life(r1)) \/ GateMoves(Life(r), Life(r1)),
           Lives!Pauses(Life(r1), u) \/ GateMoves(Life(r1), u)
    PROVE  Moves(Life(r), u)
<1> DEFINE s == Life(r)
           t == Life(r1)
<1>1. t.state = "active"
  BY DEF Life
<1>2. s = t \/ Lives!Opens(s, t)
  <2>1. ~Lives!Pauses(s, t) /\ ~Lives!Completes(s, t) /\ ~Lives!Withdraws(s, t)
    BY <1>1 DEF Lives!Pauses, Lives!Completes, Lives!Withdraws, Lives!To, Life
  <2> QED BY <2>1 DEF GateMoves
<1>3. t = u \/ Lives!Migrates(t, u)
  BY DEF GateMoves, Lives!Migrates
<1> HIDE DEF s, t
<1>4. CASE s = t
  BY <1>3, <1>4 DEF Moves, s
<1>5. CASE Lives!Opens(s, t) /\ t = u
  BY <1>5 DEF Moves, Lives!Migrates, s
<1>6. CASE Lives!Opens(s, t) /\ Lives!Migrates(t, u)
  <2>1. t = Lives!NextWave(s)
    BY <1>6 DEF Lives!Opens
  <2>2. Lives!MigratesTwice(s, u)
    BY <1>6, <2>1 DEF Lives!MigratesTwice
  <2> QED BY <2>2 DEF Moves, s
<1> QED BY <1>2, <1>3, <1>4, <1>5, <1>6

\* The release that a handler looks at once it has settled it.
LEMMA SettledWaves ==
    ASSUME WaveInv, NEW id \in Created
    PROVE  LET r == EvaluateLocked(releases[id], now)
           IN  /\ r \in Release /\ Coherent(r) /\ Ordered(r)
               /\ \/ Lives!Pauses(Life(releases[id]), Life(r))
                  \/ GateMoves(Life(releases[id]), Life(r))
<1>1. /\ releases[id] \in Release /\ Coherent(releases[id]) /\ Ordered(releases[id])
      /\ now \in Nat
  BY NowType DEF WaveInv, Inv, TypeOK
<1> QED BY <1>1, SettledRelease, EvaluateLockedWaves DEF WaveInv

LEMMA TickTimeoutTransacts ==
    ASSUME WaveInv, NEW id \in Created, TickTimeout(id)
    PROVE  Transacts(id)
<1> DEFINE r == EvaluateLocked(releases[id], now)
<1>1. Ordered(r) /\ Moves(Life(releases[id]), Life(r)) /\ Commit(id, r)
  BY SettledWaves, SingleMove DEF TickTimeout
<1> HIDE DEF r
<1> QED BY <1>1, CommitTransacts

LEMMA PauseTransacts ==
    ASSUME WaveInv, NEW id \in Created, Pause(id)
    PROVE  Transacts(id)
<1> DEFINE x == PauseLocked(releases[id], "manual")
<1>1. releases[id] \in Release /\ Ordered(releases[id]) /\ releases[id].state = "active"
  BY DEF WaveInv, Inv, TypeOK, Pause
<1>2. Ordered(x) /\ Moves(Life(releases[id]), Life(x)) /\ Commit(id, x)
  BY <1>1, PauseLockedOrdered, PauseLockedMoves, SingleMove DEF Pause
<1> HIDE DEF x
<1> QED BY <1>2, CommitTransacts

LEMMA ResumeTransacts ==
    ASSUME WaveInv, NEW id \in Created, Resume(id)
    PROVE  Transacts(id)
<1> DEFINE r == releases[id]
           resumed == [r EXCEPT !.state = "active", !.pauseReason = "none",
                                !.waveOpenedAt = now]
           x == EvaluateHealthLocked(resumed, now)
<1>1. r \in Release /\ Coherent(r) /\ Ordered(r) /\ r.state = "paused"
  BY DEF WaveInv, Inv, TypeOK, Resume
<1>2. Evaluable(r) /\ ~Withdrawn(r)
  BY <1>1, CoherentEvaluable DEF Withdrawn
<1>3. Commit(id, x) /\ now \in Nat /\ now \in Int
  BY NowType DEF Resume, WaveInv, Inv
<1> HIDE DEF r
<1>4. resumed \in Release
  BY <1>1, <1>3 DEF Release, ReleaseState, PauseReason
<1>5. /\ GateView(resumed) = GateView(r) /\ resumed.state = "active"
      /\ resumed.currentWave = r.currentWave /\ resumed.lastWave = r.lastWave
      /\ resumed.thresholdMetAt = r.thresholdMetAt
      /\ resumed.planned = r.planned /\ resumed.restored = r.restored
  BY <1>1 DEF GateView, Release
<1> HIDE DEF resumed
<1>6. Evaluable(resumed)
  BY <1>2, <1>5, EvaluableFrame DEF Withdrawn
<1>7. Ordered(resumed)
  BY <1>1, <1>5, OrderedFrame
<1>8. Ordered(x) /\ GateMoves(Life(resumed), Life(x))
  BY <1>3, <1>4, <1>6, <1>7, EvaluateHealthLockedWaves
<1> HIDE DEF x
<1>9. Lives!Resumes(Life(r), Life(resumed)) /\ Life(resumed) = Lives!To(Life(r), "active")
  BY <1>1, <1>5 DEF Lives!Resumes, Lives!To, Life
<1>10. Moves(Life(r), Life(x))
  <2>1. CASE Life(x) = Life(resumed)
    BY <1>9, <2>1 DEF Moves, Lives!Migrates
  <2>2. CASE Life(x) # Life(resumed)
    <3>1. Lives!Migrates(Life(resumed), Life(x))
      BY <1>8, <2>2 DEF GateMoves, Lives!Migrates
    <3>2. Lives!MigratesTwice(Life(r), Life(x))
      BY <1>9, <3>1 DEF Lives!MigratesTwice
    <3> QED BY <3>2 DEF Moves
  <2> QED BY <2>1, <2>2
<1> QED BY <1>3, <1>8, <1>10, CommitTransacts DEF r

LEMMA CancelTransacts ==
    ASSUME WaveInv, NEW id \in Created, Cancel(id)
    PROVE  Transacts(id)
<1> DEFINE r == releases[id]
           stopped == [r EXCEPT !.state = "cancelled", !.pauseReason = "none"]
           announced == Emit(stopped, "release.cancelled")
           cancelled == AbortCatchupLocked(announced)
           x == EmitTo(cancelled, "node.compensation", Succeeded(r))
<1>1. r \in Release /\ Ordered(r) /\ r.state \in {"active", "paused"}
  BY DEF WaveInv, Inv, TypeOK, Cancel
<1>2. Commit(id, x)
  BY DEF Cancel
<1> HIDE DEF r
<1>3. stopped \in Release
  BY <1>1 DEF Release, ReleaseState, PauseReason
<1>4. /\ GateView(stopped) = GateView(r) /\ stopped.state = "cancelled"
      /\ stopped.currentWave = r.currentWave /\ stopped.lastWave = r.lastWave
  BY <1>1 DEF GateView, Release
<1> HIDE DEF stopped
<1>5. /\ announced \in Release /\ GateView(announced) = GateView(stopped)
      /\ LifeView(announced) = LifeView(stopped)
  BY <1>3, EmitType, EmitFrame, EmitLife DEF ReleaseNotice
<1> HIDE DEF announced
<1>6. /\ cancelled \in Release /\ GateView(cancelled) = GateView(stopped)
      /\ LifeView(cancelled) = LifeView(stopped)
  BY <1>5, AbortCatchupLockedType, AbortCatchupLockedFrame, AbortCatchupLockedLife
<1> HIDE DEF cancelled
<1>7. GateView(x) = GateView(stopped) /\ LifeView(x) = LifeView(stopped)
  BY <1>6, EmitToFrame, EmitToLife
<1> HIDE DEF x
<1>8. Ordered(x)
  BY <1>1, <1>4, <1>7, OrderedFrame, ViewsOrdered
<1>9. Lives!Cancels(Life(r), Life(x))
  <2>1. Lives!Cancels(Life(r), Life(stopped))
    BY <1>1, <1>4 DEF Lives!Cancels, Lives!To, Life
  <2> QED BY <1>7, <2>1, LifeFrame
<1>10. Moves(Life(r), Life(x))
  BY <1>9 DEF Moves, Lives!Migrates
<1> QED BY <1>2, <1>8, <1>10, CommitTransacts DEF r

LEMMA AckFailedTransacts ==
    ASSUME WaveInv, NEW id \in Created, NEW n \in Node, AckFailed(id, n)
    PROVE  Transacts(id)
<1> DEFINE r == EvaluateLocked(releases[id], now)
           marked == [r EXCEPT !.result[n] = "failed"]
           failed == EmitTo(marked, "node.failed", {n})
           tooMany == Cardinality(InWave(failed, r.currentWave, "failed"))
                          > r.input.maxFailures
           x == IF tooMany THEN PauseLocked(failed, "failure_threshold") ELSE failed
<1>1. /\ r \in Release /\ Ordered(r)
      /\ Lives!Pauses(Life(releases[id]), Life(r)) \/ GateMoves(Life(releases[id]), Life(r))
  BY SettledWaves
<1>2. ReceiptAccepted(r, n) /\ Commit(id, x)
  BY DEF AckFailed
<1> HIDE DEF r
<1>3. /\ r.state = "active" /\ r.result[n] # "succeeded" /\ r.wave[n] = r.currentWave
  BY <1>2 DEF ReceiptAccepted
<1>4. marked \in Release
  BY <1>1 DEF Release, NodeResult
<1>5. /\ marked.input = r.input /\ marked.wave = r.wave
      /\ marked.currentWave = r.currentWave /\ marked.lastWave = r.lastWave
      /\ marked.state = r.state /\ marked.quarantined = r.quarantined
      /\ marked.result = [r.result EXCEPT ![n] = "failed"]
  BY <1>1 DEF Release
<1>6. /\ marked.result[n] = "failed"
      /\ \A m \in Node : m # n => marked.result[m] = r.result[m]
  BY <1>1, <1>5 DEF Release
<1> HIDE DEF marked
<1>7. Ordered(marked) /\ LifeView(marked) = LifeView(r)
  BY <1>1, <1>3, <1>5, <1>6, ResultOrdered DEF LifeView
<1>8. /\ failed \in Release /\ GateView(failed) = GateView(marked)
      /\ LifeView(failed) = LifeView(marked)
  BY <1>4, EmitToType, EmitToFrame, EmitToLife DEF NodeNotice
<1> HIDE DEF failed, tooMany
<1>9. Ordered(failed) /\ Life(failed) = Life(r) /\ failed.state = "active"
  BY <1>3, <1>7, <1>8, ViewsOrdered, LifeFrame DEF LifeView
<1>10. Ordered(x)
  BY <1>8, <1>9, PauseLockedOrdered
<1>11. Lives!Pauses(Life(r), Life(x)) \/ GateMoves(Life(r), Life(x))
  <2>1. CASE tooMany
    BY <1>8, <1>9, <2>1, PauseLockedMoves
  <2>2. CASE ~tooMany
    BY <1>9, <2>2 DEF GateMoves
  <2> QED BY <2>1, <2>2
<1> HIDE DEF x
<1>12. Moves(Life(releases[id]), Life(x))
  BY <1>1, <1>3, <1>11, SettledMove
<1> QED BY <1>2, <1>10, <1>12, CommitTransacts

\* A success that meets the threshold promotes the wave, or lets the gate judge it.
LEMMA AfterSuccessWaves ==
    ASSUME NEW r \in Release, Evaluable(r), Ordered(r), r.state = "active", now \in Nat
    PROVE  Ordered(AfterSuccess(r)) /\ GateMoves(Life(r), Life(AfterSuccess(r)))
<1>1. CASE ~ThresholdReached(r)
  BY <1>1 DEF AfterSuccess, GateMoves
<1>2. CASE ThresholdReached(r)
  <2>1. LET x == EvaluateHealthLocked(r, now)
        IN  Ordered(x) /\ GateMoves(Life(r), Life(x))
    BY EvaluateHealthLockedWaves
  <2>2. LET x == AdvanceWaveLocked(r, now)
        IN  Ordered(x) /\ GateMoves(Life(r), Life(x))
    BY <1>2, AdvanceWaveLockedOrdered, AdvanceWaveLockedMoves
  <2> QED BY <1>2, <2>1, <2>2 DEF AfterSuccess
<1> QED BY <1>1, <1>2

LEMMA AckSucceededTransacts ==
    ASSUME WaveInv, NEW id \in Created, NEW n \in Node, AckSucceeded(id, n)
    PROVE  Transacts(id)
<1> DEFINE r == EvaluateLocked(releases[id], now)
           d == nodes[n].digest
           result == [r.result EXCEPT ![n] = "succeeded"]
           prev == [r.prev EXCEPT ![n] = d]
           marked == [r EXCEPT !.result = result, !.prev = prev]
           s == EmitTo(marked, "node.succeeded", {n})
           others == AbortSupersededCatchupLocked(id, n)
           x == AfterSuccess(s)
<1>1. /\ r \in Release /\ Coherent(r) /\ Ordered(r)
      /\ Lives!Pauses(Life(releases[id]), Life(r)) \/ GateMoves(Life(releases[id]), Life(r))
  BY SettledWaves
<1>2. ReceiptAccepted(r, n) /\ releases' = [others EXCEPT ![id] = x]
  BY DEF AckSucceeded
<1>3. d \in Digest \cup {NoDigest} /\ now \in Nat
  BY NowType DEF WaveInv, Inv, TypeOK, NodeState
<1> HIDE DEF r, d
<1>4. /\ r.state = "active" /\ r.result[n] # "succeeded" /\ r.wave[n] = r.currentWave
  BY <1>2 DEF ReceiptAccepted
<1>5. s \in Release /\ Evaluable(s) /\ s.state = "active"
  <2>1. s = EmitTo([r EXCEPT !.result[n] = "succeeded", !.prev[n] = d],
                   "node.succeeded", {n})
    OBVIOUS
  <2> HIDE DEF s
  <2> QED BY <1>1, <1>3, <1>4, <2>1, SuccessEvaluable
<1>6. /\ result \in [Node -> NodeResult] /\ prev \in [Node -> Digest \cup {NoDigest}]
      /\ result[n] = "succeeded" /\ \A m \in Node : m # n => result[m] = r.result[m]
  BY <1>1, <1>3 DEF Release, NodeResult
<1> HIDE DEF result, prev
<1>7. marked \in Release
  BY <1>1, <1>6 DEF Release
<1>8. /\ marked.input = r.input /\ marked.wave = r.wave
      /\ marked.currentWave = r.currentWave /\ marked.lastWave = r.lastWave
      /\ marked.state = r.state /\ marked.quarantined = r.quarantined
      /\ marked.result = result
  BY <1>1 DEF Release
<1> HIDE DEF marked
<1>9. Ordered(marked) /\ LifeView(marked) = LifeView(r)
  BY <1>1, <1>4, <1>6, <1>8, ResultOrdered DEF LifeView
<1>10. GateView(s) = GateView(marked) /\ LifeView(s) = LifeView(marked)
  BY <1>7, EmitToFrame, EmitToLife
<1> HIDE DEF s
<1>11. Ordered(s) /\ Life(s) = Life(r)
  BY <1>9, <1>10, ViewsOrdered, LifeFrame
<1>12. Ordered(x) /\ GateMoves(Life(r), Life(x))
  BY <1>3, <1>5, <1>11, AfterSuccessWaves
<1> HIDE DEF x
<1>13. Moves(Life(releases[id]), Life(x))
  BY <1>1, <1>4, <1>12, SettledMove
<1>14. ASSUME NEW i \in Created
       PROVE  Ordered(others[i]) /\ Life(others[i]) = Life(releases[i])
  <2>1. releases[i] \in Release /\ Ordered(releases[i])
    BY DEF WaveInv, Inv, TypeOK
  <2>2. LET a == AbortCatchupLocked(releases[i])
        IN  Ordered(a) /\ Life(a) = Life(releases[i])
    BY <2>1, AbortCatchupLockedFrame, AbortCatchupLockedLife, ViewsOrdered, LifeFrame
  <2>3. others[i] \in {releases[i], AbortCatchupLocked(releases[i])}
    BY DEF AbortSupersededCatchupLocked
  <2> QED BY <2>1, <2>2, <2>3
<1>15. DOMAIN others = Created
  BY DEF AbortSupersededCatchupLocked
<1> HIDE DEF others
<1>16. /\ Created' = Created /\ releases'[id] = x
       /\ \A i \in Created \ {id} : releases'[i] = others[i]
  BY <1>2, <1>15 DEF Created
<1> QED BY <1>12, <1>13, <1>14, <1>16 DEF Transacts

LEMMA AckReceiptTransacts ==
    ASSUME WaveInv, NEW id \in Created, NEW n \in Node, AckReceipt(id, n)
    PROVE  Transacts(id)
BY TickTimeoutTransacts, AckFailedTransacts, AckSucceededTransacts
   DEF AckReceipt, AckIgnored

LEMMA ReportHealthTransacts ==
    ASSUME WaveInv, NEW id \in Created, NEW n \in Node, NEW event \in SampleId,
           NEW healthy \in BOOLEAN, ReportHealth(id, n, event, healthy)
    PROVE  Transacts(id)
<1> DEFINE r == releases[id]
           sample == [id |-> event, node |-> n, healthy |-> healthy,
                      receivedAt |-> IF KeepReceivedAt THEN now ELSE 0]
           reported == [r EXCEPT !.samples = @ \cup {sample}]
           x == EvaluateHealthLocked(reported, now)
<1>1. r \in Release /\ Evaluable(r) /\ ~Withdrawn(r) /\ Ordered(r)
  BY CoherentEvaluable DEF WaveInv, Inv, TypeOK, ReportHealth, Withdrawn
<1>2. Commit(id, x)
  BY DEF ReportHealth
<1>3. sample \in Sample /\ now \in Nat
  BY NowType DEF WaveInv, Inv, Sample
<1> HIDE DEF r, sample
<1>4. reported \in Release
  BY <1>1, <1>3 DEF Release
<1>5. /\ reported.input = r.input /\ reported.wave = r.wave
      /\ reported.currentWave = r.currentWave /\ reported.result = r.result
      /\ reported.thresholdMetAt = r.thresholdMetAt /\ reported.state = r.state
      /\ reported.planned = r.planned /\ reported.restored = r.restored
      /\ reported.lastWave = r.lastWave /\ reported.quarantined = r.quarantined
  BY <1>1 DEF Release
<1> HIDE DEF reported
<1>6. Evaluable(reported)
  BY <1>1, <1>5, EvidenceEvaluable
<1>7. Ordered(reported)
  BY <1>1, <1>5, EvidenceOrdered DEF Ordered
<1>8. Life(reported) = Life(r)
  BY <1>5 DEF Life
<1>9. Ordered(x) /\ GateMoves(Life(reported), Life(x))
  BY <1>3, <1>4, <1>6, <1>7, EvaluateHealthLockedWaves
<1> HIDE DEF x
<1>10. Moves(Life(r), Life(x))
  BY <1>8, <1>9, SingleMove
<1> QED BY <1>2, <1>9, <1>10, CommitTransacts DEF r

LEMMA QuarantineNodeTransacts ==
    ASSUME WaveInv, NEW id \in Created, NEW n \in Node, QuarantineNode(id, n)
    PROVE  Transacts(id)
<1> DEFINE r == EvaluateLocked(releases[id], now)
           marked == [r EXCEPT !.quarantined = @ \cup {n}]
           quarantined == EmitTo(marked, "node.quarantined", {n})
           x == EvaluateHealthLocked(quarantined, now)
<1>1. /\ r \in Release /\ Coherent(r) /\ Ordered(r)
      /\ Lives!Pauses(Life(releases[id]), Life(r)) \/ GateMoves(Life(releases[id]), Life(r))
  BY SettledWaves
<1>2. /\ Commit(id, x) /\ r.state \in {"active", "paused"}
      /\ n \in InWave(r, r.currentWave, "succeeded")
  BY DEF QuarantineNode
<1>3. now \in Nat
  BY NowType DEF WaveInv, Inv
<1> HIDE DEF r
<1>4. Evaluable(r) /\ ~Withdrawn(r)
  BY <1>1, <1>2, CoherentEvaluable DEF Withdrawn
<1>5. marked \in Release
  BY <1>1 DEF Release
<1>6. /\ marked.input = r.input /\ marked.wave = r.wave
      /\ marked.currentWave = r.currentWave /\ marked.result = r.result
      /\ marked.thresholdMetAt = r.thresholdMetAt /\ marked.state = r.state
      /\ marked.planned = r.planned /\ marked.restored = r.restored
      /\ marked.lastWave = r.lastWave /\ marked.quarantined = r.quarantined \cup {n}
  BY <1>1 DEF Release
<1> HIDE DEF marked
<1>7. Evaluable(marked)
  BY <1>4, <1>6, EvidenceEvaluable
<1>8. n \in Succeeded(r)
  BY <1>2 DEF InWave, WaveNodes, Succeeded
<1>9. Ordered(marked)
  BY <1>1, <1>6, <1>8, EvidenceOrdered DEF Ordered
<1>10. /\ quarantined \in Release /\ GateView(quarantined) = GateView(marked)
       /\ RollbackView(quarantined) = RollbackView(marked)
       /\ LifeView(quarantined) = LifeView(marked)
  BY <1>5, EmitToType, EmitToFrame, EmitToLife DEF NodeNotice
<1> HIDE DEF quarantined
<1>11. Evaluable(quarantined) /\ quarantined.state = r.state
  <2>1. /\ quarantined.state = marked.state
        /\ quarantined.thresholdMetAt = marked.thresholdMetAt
        /\ quarantined.planned = marked.planned /\ quarantined.restored = marked.restored
    BY <1>10 DEF RollbackView
  <2> QED BY <1>4, <1>6, <1>7, <1>10, <2>1, EvaluableFrame DEF Withdrawn
<1>12. Ordered(quarantined) /\ Life(quarantined) = Life(marked)
  BY <1>9, <1>10, ViewsOrdered, LifeFrame
<1>13. Life(quarantined) = Life(r)
  BY <1>6, <1>12 DEF Life
<1>14. Ordered(x) /\ GateMoves(Life(quarantined), Life(x))
  BY <1>3, <1>10, <1>11, <1>12, EvaluateHealthLockedWaves
<1>15. Moves(Life(releases[id]), Life(x))
  <2>1. CASE r.state = "active"
    BY <1>1, <1>13, <1>14, <2>1, SettledMove
  <2>2. CASE r.state = "paused"
    <3>1. x = quarantined
      BY <1>11, <2>2 DEF EvaluateHealthLocked
    <3> QED BY <1>1, <1>13, <3>1, SingleMove
  <2> QED BY <1>2, <2>1, <2>2
<1> HIDE DEF x
<1> QED BY <1>2, <1>14, <1>15, CommitTransacts

LEMMA ConfirmRollbackTransacts ==
    ASSUME WaveInv, NEW id \in Created, NEW n \in Node, ConfirmRollback(id, n)
    PROVE  Transacts(id)
<1> DEFINE r == releases[id]
           marked == [r EXCEPT !.restored = @ \cup {n}]
           confirmed == EmitTo(marked, "node.restored", {n})
           done == [confirmed EXCEPT !.state = "rolled_back"]
           ended == Emit(done, "release.rolledback")
           x == IF confirmed.restored = confirmed.planned
                THEN CompleteRollbackLocked(confirmed) ELSE confirmed
<1>1. r \in Release /\ Ordered(r) /\ r.state = "rolling_back" /\ Commit(id, x)
  BY DEF WaveInv, Inv, TypeOK, ConfirmRollback
<1>2. n \in Node /\ n \in r.planned
  BY DEF ConfirmRollback
<1> HIDE DEF r
<1>3. marked \in Release
  BY <1>1 DEF Release
<1>4. GateView(marked) = GateView(r) /\ LifeView(marked) = LifeView(r)
  BY <1>1 DEF GateView, LifeView, Release
<1> HIDE DEF marked
<1>5. /\ confirmed \in Release /\ GateView(confirmed) = GateView(r)
      /\ LifeView(confirmed) = LifeView(r)
  BY <1>3, <1>4, EmitToType, EmitToFrame, EmitToLife DEF NodeNotice
<1>6. x = ended \/ x = confirmed
  BY DEF CompleteRollbackLocked
<1> HIDE DEF confirmed
<1>7. /\ done \in Release /\ GateView(done) = GateView(r)
      /\ done.state = "rolled_back" /\ done.lastWave = r.lastWave
      /\ done.currentWave = r.currentWave
  BY <1>5 DEF GateView, LifeView, Release, ReleaseState
<1> HIDE DEF done
<1>8. GateView(ended) = GateView(done) /\ LifeView(ended) = LifeView(done)
  BY <1>7, EmitFrame, EmitLife
<1> HIDE DEF ended
<1>9. Ordered(ended) /\ Ordered(confirmed) /\ Life(confirmed) = Life(r)
  BY <1>1, <1>5, <1>7, <1>8, OrderedFrame, ViewsOrdered, LifeFrame
<1>10. Lives!Restores(Life(r), Life(ended))
  <2>1. Lives!Restores(Life(r), Life(done))
    BY <1>1, <1>7 DEF Lives!Restores, Lives!To, Life
  <2> QED BY <1>8, <2>1, LifeFrame
<1>11. Ordered(x) /\ Moves(Life(r), Life(x))
  BY <1>6, <1>9, <1>10 DEF Moves, Lives!Migrates
<1> HIDE DEF x
<1> QED BY <1>1, <1>11, CommitTransacts DEF r

-----------------------------------------------------------------------------
(* The other steps, and the theorem *)

LEMMA CreateReleaseWaves ==
    ASSUME WaveInv, NEW id \in ReleaseId, NEW in \in Inputs, CreateRelease(id, in)
    PROVE  /\ Created' = Created \cup {id}
           /\ \A i \in Created' : Ordered(releases'[i])
           /\ \A i \in Created : releases'[i] = releases[i]
           /\ Life(releases'[id]) = [ state |-> "active", wave |-> 0,
                                     last |-> (Len(in.targets) - 1) \div in.waveSize ]
<1> DEFINE new == NewRelease(nextSeq + 1, in, now)
<1>1. in \in Input /\ ValidInput(in) /\ nextSeq + 1 \in Nat /\ id \notin Created
  BY InputsAssumption DEF CreateRelease, WaveInv, Inv, TypeOK
<1>2. /\ Ordered(new)
      /\ Life(new) = [ state |-> "active", wave |-> 0,
                       last |-> (Len(in.targets) - 1) \div in.waveSize ]
  BY <1>1, NewReleaseWaves
<1>3. releases' = [i \in Created \cup {id} |-> IF i = id THEN new ELSE releases[i]]
  BY DEF CreateRelease
<1> HIDE DEF new
<1>4. Created' = Created \cup {id} /\ releases'[id] = new
  BY <1>3 DEF Created
<1>5. \A i \in Created : releases'[i] = releases[i]
  BY <1>1, <1>3
<1> QED BY <1>2, <1>4, <1>5 DEF WaveInv

LEMMA RestartWaves ==
    ASSUME WaveInv, Restart
    PROVE  /\ Created' = Created
           /\ \A i \in Created : /\ Ordered(releases'[i])
                                 /\ Life(releases'[i]) = Life(releases[i])
<1>1. releases' = [i \in Created |-> Reloaded(releases[i])]
  BY DEF Restart
<1>2. ASSUME NEW r \in Release, Ordered(r)
      PROVE  Ordered(Reloaded(r)) /\ Life(Reloaded(r)) = Life(r)
  <2>1. GateView(Reloaded(r)) = GateView(r) /\ LifeView(Reloaded(r)) = LifeView(r)
    BY DEF Reloaded, GateView, LifeView, Release
  <2> QED BY <1>2, <2>1, ViewsOrdered, LifeFrame
<1>3. \A i \in Created : releases[i] \in Release /\ Ordered(releases[i])
  BY DEF WaveInv, Inv, TypeOK
<1>4. Created' = Created
  BY <1>1 DEF Created
<1> QED BY <1>1, <1>2, <1>3, <1>4

\* Every step of the service is a transaction of one release, creates one, or leaves
\* all lives as they are.
LEMMA StepWaves ==
    ASSUME WaveInv, [Next]_vars
    PROVE  \/ \E id \in Created : Transacts(id)
           \/ \E id \in ReleaseId, in \in Inputs : CreateRelease(id, in)
           \/ /\ Created' = Created
              /\ \A i \in Created : /\ Ordered(releases'[i])
                                    /\ Life(releases'[i]) = Life(releases[i])
<1>1. CASE UNCHANGED vars \/ ClockTick
  BY <1>1 DEF vars, ClockTick, Created, WaveInv
<1>2. ASSUME NEW id \in Created,
             TickTimeout(id) \/ Pause(id) \/ Resume(id) \/ Cancel(id)
      PROVE  Transacts(id)
  BY <1>2, TickTimeoutTransacts, PauseTransacts, ResumeTransacts, CancelTransacts
<1>3. ASSUME NEW id \in Created, NEW n \in Node,
             \/ AckReceipt(id, n) \/ QuarantineNode(id, n)
             \/ QuarantineAgain(id, n) \/ ConfirmRollback(id, n)
      PROVE  Transacts(id)
  BY <1>3, AckReceiptTransacts, QuarantineNodeTransacts, TickTimeoutTransacts,
     ConfirmRollbackTransacts DEF QuarantineAgain
<1>4. ASSUME NEW id \in Created, NEW n \in Node, NEW event \in SampleId,
             NEW healthy \in BOOLEAN, ReportHealth(id, n, event, healthy)
      PROVE  Transacts(id)
  BY <1>4, ReportHealthTransacts
<1>5. CASE Restart
  BY <1>5, RestartWaves
<1> QED BY <1>1, <1>2, <1>3, <1>4, <1>5 DEF Next

LEMMA NextWaveInv == WaveInv /\ [Next]_vars => WaveInv'
<1> SUFFICES ASSUME WaveInv, [Next]_vars PROVE WaveInv'
  OBVIOUS
<1>1. Inv'
  BY NextInv DEF WaveInv
<1>2. \A id \in Created' : Ordered(releases'[id])
  <2>1. CASE \E id \in Created : Transacts(id)
    BY <2>1 DEF Transacts
  <2>2. CASE \E id \in ReleaseId, in \in Inputs : CreateRelease(id, in)
    BY <2>2, CreateReleaseWaves
  <2> QED BY <2>1, <2>2, StepWaves
<1> QED BY <1>1, <1>2 DEF WaveInv

\* For any number of releases, nodes and waves, and any limits: waves open whole and
\* in order, each after the one before it met its threshold, and a release completes
\* only when all of them did.
THEOREM WavesOrdered == Spec => []WavesInOrder
<1>1. Init => WaveInv
  BY InitInv DEF Init, WaveInv, Created
<1>2. WaveInv => WavesInOrder
  BY DEF WaveInv, Ordered, WavesInOrder
<1> QED BY <1>1, <1>2, NextWaveInv, PTL DEF Spec

-----------------------------------------------------------------------------
(* The refinement *)

LEMMA CreateReleaseCreates ==
    ASSUME WaveInv, NEW id \in ReleaseId, NEW in \in Inputs, CreateRelease(id, in)
    PROVE  Lives!Create(id)
<1> DEFINE last == (Len(in.targets) - 1) \div in.waveSize
           new == [state |-> "active", wave |-> 0, last |-> last]
<1>1. /\ Created' = Created \cup {id} /\ id \notin Created
      /\ \A i \in Created : releases'[i] = releases[i]
      /\ Life(releases'[id]) = new
  BY CreateReleaseWaves DEF CreateRelease
<1>2. DOMAIN lives = Created /\ \A i \in Created : lives[i] = Life(releases[i])
  BY DEF lives, Life
<1>3. lives' = [i \in DOMAIN lives \cup {id} |-> IF i = id THEN new ELSE lives[i]]
  <2>1. lives' = [i \in Created' |-> Life(releases'[i])]
    BY DEF lives, Life
  <2>2. \A i \in Created' : Life(releases'[i]) = IF i = id THEN new ELSE lives[i]
    BY <1>1, <1>2
  <2> HIDE DEF new
  <2> QED BY <1>1, <1>2, <2>1, <2>2
<1>4. last \in {(Len(other.targets) - 1) \div other.waveSize : other \in Inputs}
  OBVIOUS
<1> HIDE DEF last
<1> QED BY <1>1, <1>2, <1>3, <1>4 DEF Lives!Create

LEMMA TransactsTransacts ==
    ASSUME NEW id \in Created, Transacts(id)
    PROVE  Lives!Transact(id) \/ lives' = lives
<1>1. /\ Created' = Created
      /\ \A i \in Created \ {id} : Life(releases'[i]) = Life(releases[i])
      /\ Moves(Life(releases[id]), Life(releases'[id]))
  BY DEF Transacts
<1>2. CASE Life(releases'[id]) = Life(releases[id])
  BY <1>1, <1>2 DEF lives, Life
<1>3. CASE Life(releases'[id]) # Life(releases[id])
  <2>1. \/ Lives!Migrates(Life(releases[id]), Life(releases'[id]))
        \/ Lives!MigratesTwice(Life(releases[id]), Life(releases'[id]))
    BY <1>1, <1>3 DEF Moves
  <2> QED BY <1>1, <2>1 DEF Lives!Transact, lives, Life
<1> QED BY <1>2, <1>3

\* For any constants: whatever the receipts, samples, timeouts, limits and restarts,
\* a transaction makes only the migrations that model.go lists, at most two of them,
\* and of one release.
THEOREM LifecycleImplemented == Spec => ImplementsLifecycle
<1>1. Init => WaveInv
  BY InitInv DEF Init, WaveInv, Created
<1>2. Init => Lives!Init
  BY DEF Init, Lives!Init, lives, Created
<1>3. WaveInv /\ [Next]_vars => [Lives!Next]_lives
  <2> SUFFICES ASSUME WaveInv, [Next]_vars PROVE Lives!Next \/ lives' = lives
    OBVIOUS
  <2>1. DOMAIN lives = Created
    BY DEF lives
  <2>2. CASE \E id \in Created : Transacts(id)
    BY <2>1, <2>2, TransactsTransacts DEF Lives!Next
  <2>3. CASE \E id \in ReleaseId, in \in Inputs : CreateRelease(id, in)
    BY <2>3, CreateReleaseCreates DEF Lives!Next
  <2>4. CASE /\ Created' = Created
             /\ \A i \in Created : Life(releases'[i]) = Life(releases[i])
    BY <2>4 DEF lives, Life
  <2> QED BY <2>2, <2>3, <2>4, StepWaves
<1> QED BY <1>1, <1>2, <1>3, NextWaveInv, PTL DEF Spec, ImplementsLifecycle, Lives!Spec
=============================================================================
