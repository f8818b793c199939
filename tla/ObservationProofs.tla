-------------------------- MODULE ObservationProofs --------------------------
(***************************************************************************)
(* Promotion only after observation (PromotionPassedObservation), proved   *)
(* of every step of Rollout.  A transaction may evaluate a release twice,  *)
(* before and after the receipt or the decision it is about; the proof     *)
(* follows what the first evaluation left to the second.  That a wave is   *)
(* not opened and promoted in one transaction needs a window longer than   *)
(* zero, which CreateRelease sees to.                                      *)
(***************************************************************************)
EXTENDS WaveProofs

\* Releases keep the input they were created with, and CreateRelease checked it.
Watchable(r) == HealthEnabled(r) => r.input.health.window > 0

ObservationInv == WaveInv /\ \A id \in Created : Watchable(releases[id])

-----------------------------------------------------------------------------
(* What a helper keeps of the evidence, and what it needs to promote *)

\* The evidence about the nodes of wave w is the same.
SameEvidence(r, x, w) ==
    /\ x.input = r.input /\ x.wave = r.wave /\ x.samples = r.samples
    /\ x.quarantined = r.quarantined
    /\ \A n \in Node : r.wave[n] = w => x.result[n] = r.result[n]

\* Evidence on the waves opened so far is kept.
KeepsEvidence(r, x) ==
    /\ x.currentWave \in Nat /\ x.currentWave >= r.currentWave
    /\ \A w \in 0 .. r.currentWave : SameEvidence(r, x, w)

Passes(r, x) == Promotes(r, x) /\ HealthEnabled(r) => PassedObservation(r, x)

\* What an evaluation does: a promotion has passed observation, and without one the
\* window is what it was, or starts now; nothing of a wave just opened has succeeded.
Gated(r, x) ==
    /\ x \in Release
    /\ KeepsEvidence(r, x)
    /\ Passes(r, x)
    /\ x.currentWave > r.currentWave => InWave(x, x.currentWave, "succeeded") = {}
    /\ \/ Promotes(r, x)
       \/ x.thresholdMetAt = r.thresholdMetAt
       \/ r.thresholdMetAt = NotMet /\ x.thresholdMetAt = now

LEMMA EvidenceFrame ==
    ASSUME NEW r, NEW x, NEW w, SameEvidence(r, x, w)
    PROVE  /\ Covered(x, w) = Covered(r, w) /\ Unhealthy(x, w) = Unhealthy(r, w)
           /\ \A n : SamplesOf(x, n) = SamplesOf(r, n)
           /\ HealthEnabled(x) = HealthEnabled(r)
<1>1. WaveNodes(x, w) = WaveNodes(r, w)
  BY DEF SameEvidence, WaveNodes
<1>2. InWave(x, w, "succeeded") = InWave(r, w, "succeeded")
  BY <1>1 DEF SameEvidence, InWave, WaveNodes
<1>3. Covered(x, w) = Covered(r, w)
  BY <1>2 DEF SameEvidence, Covered, InWave, WaveNodes
<1>4. \A n : SamplesOf(x, n) = SamplesOf(r, n)
  BY DEF SameEvidence, SamplesOf
<1>5. Unhealthy(x, w) = Unhealthy(r, w)
  BY <1>3, <1>4 DEF Unhealthy
<1>6. HealthEnabled(x) = HealthEnabled(r)
  BY DEF SameEvidence, HealthEnabled
<1> QED BY <1>3, <1>4, <1>5, <1>6

\* The limits of wave w are judged by the evidence about it.
LEMMA EvidenceBreach ==
    ASSUME NEW r \in Release, NEW x \in Release, NEW w \in Nat, SameEvidence(r, x, w)
    PROVE  Breach([x EXCEPT !.currentWave = w]) = Breach([r EXCEPT !.currentWave = w])
<1> DEFINE q == [r EXCEPT !.currentWave = w]
           y == [x EXCEPT !.currentWave = w]
<1>1. /\ q.input = r.input /\ q.wave = r.wave /\ q.samples = r.samples
      /\ q.quarantined = r.quarantined /\ q.result = r.result /\ q.currentWave = w
  BY DEF Release
<1>2. /\ y.input = x.input /\ y.wave = x.wave /\ y.samples = x.samples
      /\ y.quarantined = x.quarantined /\ y.result = x.result /\ y.currentWave = w
  BY DEF Release
<1> HIDE DEF q, y
<1>3. SameEvidence(q, y, w) /\ y.quarantined = q.quarantined /\ y.input = q.input
  BY <1>1, <1>2 DEF SameEvidence
<1>4. Covered(y, w) = Covered(q, w) /\ Unhealthy(y, w) = Unhealthy(q, w)
  BY <1>3, EvidenceFrame
<1>5. InWave(y, w, "succeeded") = InWave(q, w, "succeeded")
  BY <1>3 DEF SameEvidence, InWave, WaveNodes
<1>6. TooManyUnhealthy(y) = TooManyUnhealthy(q)
  BY <1>1, <1>2, <1>3, <1>4 DEF TooManyUnhealthy
<1>7. QuarantineLimitBreached(y) = QuarantineLimitBreached(q)
  BY <1>1, <1>2, <1>3, <1>4, <1>5
     DEF QuarantineLimitBreached, QuarantineEnabled, CoverageTooLow
<1>8. Breach(y) = Breach(q)
  BY <1>6, <1>7 DEF Breach
<1> QED BY <1>8 DEF q, y

\* What counts in a wave is the same whichever wave the release is in by now.
LEMMA LeftFrame ==
    ASSUME NEW x \in Release, NEW w \in Nat
    PROVE  LET left == [x EXCEPT !.currentWave = w]
           IN  /\ left.currentWave = w /\ Covered(left, w) = Covered(x, w)
               /\ \A n : SamplesOf(left, n) = SamplesOf(x, n)
<1> DEFINE left == [x EXCEPT !.currentWave = w]
<1>1. SameEvidence(x, left, w) /\ left.currentWave = w
  BY DEF SameEvidence, Release
<1> HIDE DEF left
<1>2. Covered(left, w) = Covered(x, w) /\ \A n : SamplesOf(left, n) = SamplesOf(x, n)
  BY <1>1, EvidenceFrame
<1> QED BY <1>1, <1>2 DEF left

\* A wave that passed has passed whatever happens to the waves after it.
LEMMA PassedFrame ==
    ASSUME NEW b \in Release, NEW r \in Release, NEW x \in Release,
           PassedObservation(b, r), SameEvidence(r, x, b.currentWave)
    PROVE  PassedObservation(b, x)
<1> DEFINE w == b.currentWave
           q == [r EXCEPT !.currentWave = w]
           y == [x EXCEPT !.currentWave = w]
<1>1. w \in Nat
  BY DEF Release
<1>2. Breach(y) = Breach(q)
  BY <1>1, EvidenceBreach
<1>3. /\ q.currentWave = w /\ Covered(q, w) = Covered(r, w)
      /\ \A n : SamplesOf(q, n) = SamplesOf(r, n)
      /\ y.currentWave = w /\ Covered(y, w) = Covered(x, w)
      /\ \A n : SamplesOf(y, n) = SamplesOf(x, n)
  BY <1>1, LeftFrame
<1>4. Covered(x, w) = Covered(r, w) /\ \A n : SamplesOf(x, n) = SamplesOf(r, n)
  BY EvidenceFrame
<1>5. /\ b.thresholdMetAt # NotMet
      /\ now - b.thresholdMetAt >= b.input.health.window
      /\ Breach(q) = "none"
      /\ \A n \in Covered(q, q.currentWave) :
             Cardinality(SamplesOf(q, n)) >= b.input.health.minSamples
  BY DEF PassedObservation
<1> HIDE DEF q, y
<1>6. \A n \in Covered(y, y.currentWave) :
         Cardinality(SamplesOf(y, n)) >= b.input.health.minSamples
  BY <1>3, <1>4, <1>5
<1> QED BY <1>2, <1>5, <1>6 DEF PassedObservation, q, y

\* A release that looks the same to the gate keeps all evidence.
LEMMA ViewKeeps ==
    ASSUME NEW r \in Release, NEW x, GateView(x) = GateView(r)
    PROVE  KeepsEvidence(r, x)
<1>1. /\ x.input = r.input /\ x.wave = r.wave /\ x.currentWave = r.currentWave
      /\ x.result = r.result /\ x.samples = r.samples /\ x.quarantined = r.quarantined
  BY DEF GateView
<1>2. r.currentWave \in Nat
  BY DEF Release
<1> QED BY <1>1, <1>2 DEF KeepsEvidence, SameEvidence

\* A change that neither the gate sees nor completes the release promotes nothing.
LEMMA QuietGated ==
    ASSUME NEW r \in Release, NEW x \in Release, GateView(x) = GateView(r),
           x.thresholdMetAt = r.thresholdMetAt,
           x.state = "completed" => r.state = "completed"
    PROVE  Gated(r, x) /\ ~Promotes(r, x) /\ x.input = r.input
<1>1. x.currentWave = r.currentWave /\ x.input = r.input /\ r.currentWave \in Nat
  BY DEF GateView, Release
<1>2. ~Promotes(r, x) /\ ~(x.currentWave > r.currentWave)
  BY <1>1 DEF Promotes
<1> QED BY <1>1, <1>2, ViewKeeps DEF Gated, Passes

LEMMA AdvanceWaveLockedKeeps ==
    ASSUME NEW r \in Release
    PROVE  KeepsEvidence(r, AdvanceWaveLocked(r, now))
<1> DEFINE w == r.currentWave + 1
           result == [n \in Node |-> IF r.wave[n] = w THEN "in_progress" ELSE r.result[n]]
           opened == [r EXCEPT !.currentWave = w, !.waveOpenedAt = now,
                               !.thresholdMetAt = NotMet, !.result = result]
           s == OpenWave(r, w, now)
           c == [r EXCEPT !.state = "completed"]
<1>1. s = [opened EXCEPT !.sent["wave.opened"] = @ + 1]
  BY DEF OpenWave, Emit
<1>2. r.currentWave \in Nat /\ r.wave \in [Node -> Int]
  BY DEF Release
<1> HIDE DEF result
<1>3. /\ s.input = r.input /\ s.wave = r.wave /\ s.samples = r.samples
      /\ s.quarantined = r.quarantined /\ s.currentWave = w /\ s.result = result
  BY <1>1 DEF Release
<1> HIDE DEF s
<1>4. \A v \in 0 .. r.currentWave : v # w
  BY <1>2
<1>5. KeepsEvidence(r, s)
  BY <1>2, <1>3, <1>4 DEF KeepsEvidence, SameEvidence, result
<1>6. GateView(c) = GateView(r) /\ c \in Release
  BY DEF GateView, Release, ReleaseState
<1> HIDE DEF c
<1>7. KeepsEvidence(r, Emit(c, "release.completed"))
  BY <1>6, EmitFrame, ViewKeeps
<1> QED BY <1>5, <1>7 DEF AdvanceWaveLocked, s, c

\* The evaluation promotes a wave only when it was observed, for the whole window.
LEMMA EvaluateHealthLockedGated ==
    ASSUME NEW r \in Release, Evaluable(r), Ordered(r), Watchable(r), now \in Nat
    PROVE  LET x == EvaluateHealthLocked(r, now)
           IN  Gated(r, x) /\ (Promotes(r, x) => PassedObservation(r, x))
<1> DEFINE o == Observe(r, now)
           w == r.currentWave
           x == EvaluateHealthLocked(r, now)
<1>0. x \in Release
  BY EvaluateHealthLockedType
<1>1. r.currentWave \in Nat /\ r.thresholdMetAt \in Int
  BY DEF Release
<1>2. CASE x = r
  <2>1. ~Promotes(r, x) /\ ~(x.currentWave > r.currentWave)
    BY <1>1, <1>2 DEF Promotes
  <2>2. KeepsEvidence(r, x)
    BY <1>2, ViewKeeps
  <2> QED BY <1>0, <1>2, <2>1, <2>2 DEF Gated, Passes
<1>3. CASE x # r
  <2>1. /\ r.state = "active" /\ HealthEnabled(r)
        /\ r.thresholdMetAt # NotMet \/ ThresholdReached(r)
    BY <1>3 DEF EvaluateHealthLocked
  <2>2. x = IF Breach(o) # "none" THEN StartRollbackLocked(o, Breach(o))
            ELSE IF ObservationPassed(o, now) THEN AdvanceWaveLocked(o, now)
            ELSE o
    BY <2>1 DEF EvaluateHealthLocked
  <2>3. /\ GateView(o) = GateView(r) /\ LifeView(o) = LifeView(r) /\ o \in Release
        /\ o.thresholdMetAt = IF r.thresholdMetAt = NotMet THEN now ELSE r.thresholdMetAt
    <3> DEFINE met == IF r.thresholdMetAt = NotMet THEN now ELSE r.thresholdMetAt
    <3>1. o = [r EXCEPT !.thresholdMetAt = met]
      BY DEF Observe
    <3> HIDE DEF met
    <3>2. o \in Release
      BY ObserveType
    <3>3. GateView(o) = GateView(r) /\ LifeView(o) = LifeView(r) /\ o.thresholdMetAt = met
      BY <3>1, <3>2 DEF GateView, LifeView, Release
    <3> QED BY <3>2, <3>3 DEF met
  <2> HIDE DEF o, x
  <2>4. Ordered(o) /\ o.state = "active" /\ o.currentWave = w /\ o.input = r.input
    BY <2>1, <2>3, ViewsOrdered DEF LifeView, GateView
  <2>5. KeepsEvidence(r, o)
    BY <2>3, ViewKeeps
  <2>6. CASE Breach(o) # "none"
    <3>1. /\ GateView(x) = GateView(o) /\ x.state = "rolling_back"
          /\ x.thresholdMetAt = o.thresholdMetAt
      BY <2>2, <2>3, <2>4, <2>6, StartRollbackLockedFrame
    <3>2. GateView(x) = GateView(r) /\ x.currentWave = w
      BY <2>3, <3>1 DEF GateView
    <3>3. ~Promotes(r, x) /\ ~(x.currentWave > r.currentWave)
      BY <1>1, <3>1, <3>2 DEF Promotes
    <3>4. KeepsEvidence(r, x)
      BY <3>2, ViewKeeps
    <3> QED BY <1>0, <2>3, <3>1, <3>3, <3>4 DEF Gated, Passes, x
  <2>7. CASE Breach(o) = "none" /\ ~ObservationPassed(o, now)
    <3>1. x = o
      BY <2>2, <2>7
    <3>2. ~Promotes(r, x) /\ ~(x.currentWave > r.currentWave)
      BY <1>1, <2>4, <3>1 DEF Promotes
    <3> QED BY <1>0, <2>3, <2>5, <3>1, <3>2 DEF Gated, Passes, x
  <2>8. CASE Breach(o) = "none" /\ ObservationPassed(o, now)
    <3>1. KeepsEvidence(o, x)
      BY <2>2, <2>3, <2>8, AdvanceWaveLockedKeeps
    <3>2. KeepsEvidence(r, x)
      BY <1>1, <2>4, <2>5, <3>1 DEF KeepsEvidence, SameEvidence
    <3>3. r.input.health.window \in Nat /\ r.input.health.window > 0
      <4>1. r.input.health \in HealthPolicy
        BY DEF Release, Input
      <4> QED BY <2>1, <4>1 DEF HealthPolicy, Watchable
    <3>4. r.thresholdMetAt # NotMet /\ now - r.thresholdMetAt >= r.input.health.window
      <4>1. now - o.thresholdMetAt >= r.input.health.window
        BY <2>4, <2>8 DEF ObservationPassed
      <4> QED BY <1>1, <2>3, <3>3, <4>1
    <3>5. \A n \in Covered(o, w) :
             Cardinality(SamplesOf(o, n)) >= r.input.health.minSamples
      BY <2>4, <2>8 DEF ObservationPassed
    <3>6. PassedObservation(r, o)
      <4> DEFINE left == [o EXCEPT !.currentWave = w]
      <4>1. left = o
        BY <2>3, <2>4 DEF Release
      <4> HIDE DEF left
      <4> QED BY <2>4, <2>8, <3>4, <3>5, <4>1 DEF PassedObservation, left
    <3>7. SameEvidence(o, x, w)
      BY <1>1, <2>4, <3>1 DEF KeepsEvidence
    <3>8. PassedObservation(r, x)
      BY <1>0, <2>3, <3>6, <3>7, PassedFrame DEF x
    <3>9. /\ Promotes(r, x)
          /\ x.currentWave > r.currentWave =>
                 InWave(x, x.currentWave, "succeeded") = {}
      <4>1. \/ x.state = "completed" /\ x.currentWave = w
            \/ /\ x.currentWave = w + 1
               /\ InWave(x, x.currentWave, "succeeded") = {}
        <5>1. x = AdvanceWaveLocked(o, now)
          BY <2>2, <2>8
        <5> DEFINE s == OpenWave(o, w + 1, now)
                   c == Emit([o EXCEPT !.state = "completed"], "release.completed")
        <5>2. /\ s.currentWave = w + 1 /\ s.wave = o.wave
              /\ \A n \in Node : s.result[n] =
                     IF o.wave[n] = w + 1 THEN "in_progress" ELSE o.result[n]
              /\ c.state = "completed" /\ c.currentWave = w
          BY <2>3, <2>4 DEF OpenWave, Emit, Release
        <5>3. x = s \/ x = c
          BY <2>4, <5>1 DEF AdvanceWaveLocked
        <5> HIDE DEF s, c
        <5>4. InWave(s, s.currentWave, "succeeded") = {}
          BY <5>2 DEF InWave, WaveNodes
        <5> QED BY <5>2, <5>3, <5>4
      <4> QED BY <1>1, <2>1, <4>1 DEF Promotes
    <3> QED BY <1>0, <3>2, <3>8, <3>9 DEF Gated, Passes, x
  <2> QED BY <2>6, <2>7, <2>8
<1> QED BY <1>2, <1>3

\* The timer promotes nothing; then the gate judges.
LEMMA EvaluateLockedGated ==
    ASSUME NEW r \in Release, Coherent(r), Ordered(r), Watchable(r), now \in Nat
    PROVE  Gated(r, EvaluateLocked(r, now))
<1> DEFINE t == EvaluateTimeoutLocked(r, now)
           x == EvaluateLocked(r, now)
<1>1. x = EvaluateHealthLocked(t, now)
  BY DEF EvaluateLocked
<1>2. CASE t = r
  BY <1>1, <1>2, CoherentEvaluable, EvaluateHealthLockedGated
<1>3. CASE t # r
  <2>1. t = PauseLocked(r, "timeout")
    BY <1>3 DEF EvaluateTimeoutLocked
  <2>2. /\ t.state = "paused" /\ GateView(t) = GateView(r)
        /\ t.thresholdMetAt = r.thresholdMetAt
    BY <2>1 DEF PauseLocked, GateView, Release
  <2>3. x = t
    BY <1>1, <2>2 DEF EvaluateHealthLocked
  <2>4. t \in Release
    BY <2>1, PauseLockedType DEF PauseReason
  <2> HIDE DEF t, x
  <2>5. Gated(r, t)
    BY <2>2, <2>4, QuietGated
  <2> QED BY <2>3, <2>5 DEF x
<1> QED BY <1>2, <1>3

\* A success on a release with health observation only lets the gate judge.
LEMMA AfterSuccessGated ==
    ASSUME NEW r \in Release, Evaluable(r), Ordered(r), Watchable(r), HealthEnabled(r),
           r.state = "active", now \in Nat
    PROVE  Gated(r, AfterSuccess(r))
<1>1. CASE ~ThresholdReached(r)
  <2>1. AfterSuccess(r) = r
    BY <1>1 DEF AfterSuccess
  <2> QED BY <2>1, QuietGated
<1>2. CASE ThresholdReached(r)
  BY <1>2, EvaluateHealthLockedGated DEF AfterSuccess
<1> QED BY <1>1, <1>2

\* A handler settles release b to r, marks it to s, and lets s be judged: whichever of
\* the two evaluations promotes, the wave that b was in has passed its observation.
LEMMA SettledPasses ==
    ASSUME NEW b \in Release, NEW r \in Release, NEW s \in Release, NEW x, now \in Nat,
           Watchable(b), Gated(b, r), Gated(s, x),
           r.state \in {"active", "paused"}, s.state = r.state,
           s.thresholdMetAt = r.thresholdMetAt, s.currentWave = r.currentWave,
           s.input = r.input,
           r.currentWave > b.currentWave => SameEvidence(r, s, b.currentWave)
    PROVE  Passes(b, x) /\ x.input = b.input
<1> DEFINE w == b.currentWave
<1>0. x \in Release
  BY DEF Gated
<1>1. /\ b.currentWave \in Nat /\ r.currentWave \in Nat /\ s.currentWave \in Nat
      /\ b.thresholdMetAt \in Int
  BY DEF Release
<1>2. r.input = b.input /\ r.currentWave >= w /\ SameEvidence(b, r, w)
  BY <1>1 DEF Gated, KeepsEvidence, SameEvidence
<1>3. x.input = s.input /\ x.currentWave \in Nat /\ x.currentWave >= s.currentWave
  BY <1>1 DEF Gated, KeepsEvidence, SameEvidence
<1>4. SUFFICES ASSUME Promotes(b, x), HealthEnabled(b) PROVE PassedObservation(b, x)
  BY <1>2, <1>3 DEF Passes
<1>5. HealthEnabled(s)
  BY <1>2, <1>4 DEF HealthEnabled
<1>6. CASE Promotes(b, r)
  <2>1. r.currentWave > w
    BY <1>6 DEF Promotes
  <2>2. PassedObservation(b, r)
    BY <1>4, <1>6 DEF Gated, Passes
  <2>3. SameEvidence(r, s, w) /\ SameEvidence(s, x, w)
    BY <1>1, <2>1 DEF Gated, KeepsEvidence
  <2>4. SameEvidence(r, x, w)
    BY <2>3 DEF SameEvidence
  <2> QED BY <2>2, <2>4, <1>0, PassedFrame
<1>7. CASE ~Promotes(b, r)
  <2>1. s.currentWave = w
    BY <1>1, <1>2, <1>7 DEF Promotes
  <2>2. Promotes(s, x)
    BY <1>1, <1>3, <1>4, <2>1 DEF Promotes
  <2>3. PassedObservation(s, x)
    BY <1>5, <2>2 DEF Gated, Passes
  <2>4. s.input.health.window \in Nat /\ s.input.health.window > 0
    <3>1. s.input.health \in HealthPolicy
      BY DEF Release, Input
    <3> QED BY <1>2, <1>4, <3>1 DEF HealthPolicy, Watchable
  <2>5. s.thresholdMetAt # now
    <3>1. now - s.thresholdMetAt >= s.input.health.window
      BY <2>3 DEF PassedObservation
    <3> QED BY <2>4, <3>1
  <2>6. s.thresholdMetAt = b.thresholdMetAt
    BY <1>7, <2>5 DEF Gated
  <2> QED BY <1>2, <2>1, <2>3, <2>6 DEF PassedObservation
<1> QED BY <1>6, <1>7

\* A handler that does not settle the release first: what it has changed before the
\* gate judges is no part of what the observation starts from.
LEMMA MarkedPasses ==
    ASSUME NEW b, NEW s, NEW x, Passes(s, x), b.state # "completed",
           s.state # "completed", s.input = b.input, s.currentWave = b.currentWave,
           s.thresholdMetAt = b.thresholdMetAt
    PROVE  Passes(b, x)
BY DEF Passes, Promotes, PassedObservation, HealthEnabled

-----------------------------------------------------------------------------
(* Handlers *)

\* A handler of release id promotes no other release, and this one if it passed.
Observes(id) ==
    /\ Created' = Created
    /\ \A i \in Created : releases'[i].input = releases[i].input
    /\ \A i \in Created \ {id} : ~Promotes(releases[i], releases'[i])
    /\ Passes(releases[id], releases'[id])

LEMMA CommitObserves ==
    ASSUME Inv, NEW id \in Created, NEW x, Commit(id, x),
           Passes(releases[id], x), x.input = releases[id].input
    PROVE  Observes(id)
<1>1. releases' = [releases EXCEPT ![id] = x]
  BY DEF Commit
<1>2. Created' = Created /\ releases'[id] = x
  BY <1>1 DEF Created
<1>3. \A i \in Created \ {id} : releases'[i] = releases[i]
  BY <1>1 DEF Created
<1>4. \A i \in Created : releases[i].currentWave \in Nat
  BY DEF Inv, TypeOK, Release
<1>5. \A i \in Created \ {id} : ~Promotes(releases[i], releases'[i])
  BY <1>3, <1>4 DEF Promotes
<1> QED BY <1>2, <1>3, <1>5 DEF Observes

\* The release a handler settles first.
LEMMA SettledGated ==
    ASSUME ObservationInv, NEW id \in Created
    PROVE  LET r == EvaluateLocked(releases[id], now)
           IN  /\ releases[id] \in Release /\ Watchable(releases[id]) /\ now \in Nat
               /\ r \in Release /\ Coherent(r) /\ Ordered(r) /\ Watchable(r)
               /\ r.input = releases[id].input
               /\ Gated(releases[id], r)
<1> DEFINE b == releases[id]
           r == EvaluateLocked(b, now)
<1>1. /\ b \in Release /\ Coherent(b) /\ Ordered(b) /\ Watchable(b) /\ now \in Nat
  BY NowType DEF ObservationInv, WaveInv, Inv, TypeOK
<1>2. r \in Release /\ Coherent(r) /\ Ordered(r)
  BY SettledWaves DEF ObservationInv
<1>3. Gated(b, r)
  BY <1>1, EvaluateLockedGated
<1> HIDE DEF b, r
<1>4. r.input = b.input
  BY <1>1, <1>3 DEF Gated, KeepsEvidence, SameEvidence, Release
<1>5. Watchable(r)
  BY <1>1, <1>4 DEF Watchable, HealthEnabled
<1> QED BY <1>1, <1>2, <1>3, <1>4, <1>5 DEF b, r

LEMMA TickTimeoutObserves ==
    ASSUME ObservationInv, NEW id \in Created, TickTimeout(id)
    PROVE  Observes(id)
<1> DEFINE r == EvaluateLocked(releases[id], now)
<1>1. Passes(releases[id], r) /\ r.input = releases[id].input /\ Commit(id, r)
  BY SettledGated DEF Gated, TickTimeout
<1> HIDE DEF r
<1> QED BY <1>1, CommitObserves DEF ObservationInv, WaveInv

\* What a handler commits that only withdraws the release or holds it up.
LEMMA QuietObserves ==
    ASSUME ObservationInv, NEW id \in Created, NEW x, Commit(id, x),
           GateView(x) = GateView(releases[id]), x.state # "completed"
    PROVE  Observes(id)
<1>1. releases[id] \in Release
  BY DEF ObservationInv, WaveInv, Inv, TypeOK
<1>2. x.currentWave = releases[id].currentWave /\ x.input = releases[id].input
  BY DEF GateView
<1>3. Passes(releases[id], x)
  BY <1>1, <1>2 DEF Passes, Promotes, Release
<1> QED BY <1>2, <1>3, CommitObserves DEF ObservationInv, WaveInv

LEMMA PauseObserves ==
    ASSUME ObservationInv, NEW id \in Created, Pause(id)
    PROVE  Observes(id)
<1> DEFINE x == PauseLocked(releases[id], "manual")
<1>1. releases[id] \in Release /\ Commit(id, x)
  BY DEF ObservationInv, WaveInv, Inv, TypeOK, Pause
<1>2. GateView(x) = GateView(releases[id]) /\ x.state = "paused"
  BY <1>1 DEF PauseLocked, GateView, Release
<1> HIDE DEF x
<1> QED BY <1>1, <1>2, QuietObserves

LEMMA CancelObserves ==
    ASSUME ObservationInv, NEW id \in Created, Cancel(id)
    PROVE  Observes(id)
<1> DEFINE r == releases[id]
           stopped == [r EXCEPT !.state = "cancelled", !.pauseReason = "none"]
           announced == Emit(stopped, "release.cancelled")
           cancelled == AbortCatchupLocked(announced)
           x == EmitTo(cancelled, "node.compensation", Succeeded(r))
<1>1. r \in Release /\ Commit(id, x)
  BY DEF ObservationInv, WaveInv, Inv, TypeOK, Cancel
<1> HIDE DEF r
<1>2. stopped \in Release
  BY <1>1 DEF Release, ReleaseState, PauseReason
<1>3. GateView(stopped) = GateView(r) /\ stopped.state = "cancelled"
  BY <1>1 DEF GateView, Release
<1> HIDE DEF stopped
<1>4. /\ announced \in Release /\ GateView(announced) = GateView(stopped)
      /\ LifeView(announced) = LifeView(stopped)
  BY <1>2, EmitType, EmitFrame, EmitLife DEF ReleaseNotice
<1> HIDE DEF announced
<1>5. /\ cancelled \in Release /\ GateView(cancelled) = GateView(stopped)
      /\ LifeView(cancelled) = LifeView(stopped)
  BY <1>4, AbortCatchupLockedType, AbortCatchupLockedFrame, AbortCatchupLockedLife
<1> HIDE DEF cancelled
<1>6. GateView(x) = GateView(stopped) /\ LifeView(x) = LifeView(stopped)
  BY <1>5, EmitToFrame, EmitToLife
<1> HIDE DEF x
<1>7. GateView(x) = GateView(r) /\ x.state = "cancelled"
  BY <1>3, <1>6 DEF LifeView
<1> QED BY <1>1, <1>7, QuietObserves DEF r

LEMMA ConfirmRollbackObserves ==
    ASSUME ObservationInv, NEW id \in Created, NEW n \in Node, ConfirmRollback(id, n)
    PROVE  Observes(id)
<1> DEFINE r == releases[id]
           marked == [r EXCEPT !.restored = @ \cup {n}]
           confirmed == EmitTo(marked, "node.restored", {n})
           done == [confirmed EXCEPT !.state = "rolled_back"]
           ended == Emit(done, "release.rolledback")
           x == IF confirmed.restored = confirmed.planned
                THEN CompleteRollbackLocked(confirmed) ELSE confirmed
<1>1. r \in Release /\ r.state = "rolling_back" /\ Commit(id, x)
  BY DEF ObservationInv, WaveInv, Inv, TypeOK, ConfirmRollback
<1> HIDE DEF r
<1>2. marked \in Release /\ GateView(marked) = GateView(r) /\ marked.state = r.state
  BY <1>1 DEF GateView, Release
<1> HIDE DEF marked
<1>3. /\ confirmed \in Release /\ GateView(confirmed) = GateView(r)
      /\ confirmed.state = r.state
  BY <1>2, EmitToType, EmitToFrame, EmitToLife DEF NodeNotice, LifeView
<1>4. x = ended \/ x = confirmed
  BY DEF CompleteRollbackLocked
<1> HIDE DEF confirmed
<1>5. /\ done \in Release /\ GateView(done) = GateView(r)
      /\ done.state = "rolled_back"
  BY <1>3 DEF GateView, Release, ReleaseState
<1> HIDE DEF done
<1>6. GateView(ended) = GateView(r) /\ ended.state = "rolled_back"
  BY <1>5, EmitFrame, EmitLife DEF LifeView
<1> HIDE DEF ended, x
<1> QED BY <1>1, <1>3, <1>4, <1>6, QuietObserves DEF r

LEMMA ResumeObserves ==
    ASSUME ObservationInv, NEW id \in Created, Resume(id)
    PROVE  Observes(id)
<1> DEFINE r == releases[id]
           resumed == [r EXCEPT !.state = "active", !.pauseReason = "none",
                                !.waveOpenedAt = now]
           x == EvaluateHealthLocked(resumed, now)
<1>1. /\ r \in Release /\ Coherent(r) /\ Ordered(r) /\ Watchable(r)
      /\ r.state = "paused" /\ Commit(id, x) /\ now \in Nat /\ now \in Int
  BY NowType DEF ObservationInv, WaveInv, Inv, TypeOK, Resume
<1>2. Evaluable(r) /\ ~Withdrawn(r)
  BY <1>1, CoherentEvaluable DEF Withdrawn
<1> HIDE DEF r
<1>3. resumed \in Release
  BY <1>1 DEF Release, ReleaseState, PauseReason
<1>4. /\ GateView(resumed) = GateView(r) /\ resumed.state = "active"
      /\ resumed.currentWave = r.currentWave /\ resumed.lastWave = r.lastWave
      /\ resumed.thresholdMetAt = r.thresholdMetAt /\ resumed.input = r.input
      /\ resumed.planned = r.planned /\ resumed.restored = r.restored
  BY <1>1 DEF GateView, Release
<1> HIDE DEF resumed
<1>5. Evaluable(resumed) /\ Ordered(resumed)
  BY <1>1, <1>2, <1>4, EvaluableFrame, OrderedFrame DEF Withdrawn
<1>6. Watchable(resumed)
  BY <1>1, <1>4 DEF Watchable, HealthEnabled
<1>7. Gated(resumed, x)
  BY <1>1, <1>3, <1>5, <1>6, EvaluateHealthLockedGated
<1>8. x.input = r.input
  BY <1>3, <1>4, <1>7 DEF Gated, KeepsEvidence, SameEvidence, Release
<1> HIDE DEF x
<1>9. Passes(r, x)
  BY <1>1, <1>4, <1>7, MarkedPasses DEF Gated
<1> QED BY <1>1, <1>8, <1>9, CommitObserves DEF r, ObservationInv, WaveInv

LEMMA ReportHealthObserves ==
    ASSUME ObservationInv, NEW id \in Created, NEW n \in Node, NEW event \in SampleId,
           NEW healthy \in BOOLEAN, ReportHealth(id, n, event, healthy)
    PROVE  Observes(id)
<1> DEFINE r == releases[id]
           sample == [id |-> event, node |-> n, healthy |-> healthy,
                      receivedAt |-> IF KeepReceivedAt THEN now ELSE 0]
           reported == [r EXCEPT !.samples = @ \cup {sample}]
           x == EvaluateHealthLocked(reported, now)
<1>1. /\ r \in Release /\ Coherent(r) /\ Ordered(r) /\ Watchable(r)
      /\ r.state \in {"active", "paused"} /\ Commit(id, x)
  BY DEF ObservationInv, WaveInv, Inv, TypeOK, ReportHealth
<1>2. Evaluable(r) /\ ~Withdrawn(r)
  BY <1>1, CoherentEvaluable DEF Withdrawn
<1>3. sample \in Sample /\ now \in Nat
  BY NowType DEF ObservationInv, WaveInv, Inv, Sample
<1> HIDE DEF r, sample
<1>4. reported \in Release
  BY <1>1, <1>3 DEF Release
<1>5. /\ reported.input = r.input /\ reported.wave = r.wave
      /\ reported.currentWave = r.currentWave /\ reported.result = r.result
      /\ reported.thresholdMetAt = r.thresholdMetAt /\ reported.state = r.state
      /\ reported.planned = r.planned /\ reported.restored = r.restored
      /\ reported.lastWave = r.lastWave /\ reported.quarantined = r.quarantined
  BY <1>1 DEF Release
<1> HIDE DEF reported
<1>6. Evaluable(reported)
  BY <1>1, <1>2, <1>5, EvidenceEvaluable
<1>7. Ordered(reported)
  BY <1>1, <1>5, EvidenceOrdered DEF Ordered
<1>8. Watchable(reported)
  BY <1>1, <1>5 DEF Watchable, HealthEnabled
<1>9. Gated(reported, x)
  BY <1>3, <1>4, <1>6, <1>7, <1>8, EvaluateHealthLockedGated
<1>10. x.input = r.input
  BY <1>4, <1>5, <1>9 DEF Gated, KeepsEvidence, SameEvidence, Release
<1> HIDE DEF x
<1>11. Passes(r, x)
  BY <1>1, <1>5, <1>9, MarkedPasses DEF Gated
<1> QED BY <1>1, <1>10, <1>11, CommitObserves DEF r, ObservationInv, WaveInv

LEMMA AckFailedObserves ==
    ASSUME ObservationInv, NEW id \in Created, NEW n \in Node, AckFailed(id, n)
    PROVE  Observes(id)
<1> DEFINE b == releases[id]
           r == EvaluateLocked(b, now)
           marked == [r EXCEPT !.result[n] = "failed"]
           failed == EmitTo(marked, "node.failed", {n})
           tooMany == Cardinality(InWave(failed, r.currentWave, "failed"))
                          > r.input.maxFailures
           x == IF tooMany THEN PauseLocked(failed, "failure_threshold") ELSE failed
<1>1. /\ b \in Release /\ Watchable(b) /\ r \in Release /\ Gated(b, r) /\ now \in Nat
  BY SettledGated
<1>2. ReceiptAccepted(r, n) /\ Commit(id, x)
  BY DEF AckFailed
<1> HIDE DEF b, r
<1>3. r.state = "active" /\ r.wave[n] = r.currentWave
  BY <1>2 DEF ReceiptAccepted
<1>4. marked \in Release
  BY <1>1 DEF Release, NodeResult
<1>5. /\ marked.input = r.input /\ marked.wave = r.wave /\ marked.samples = r.samples
      /\ marked.currentWave = r.currentWave /\ marked.state = r.state
      /\ marked.quarantined = r.quarantined
      /\ marked.thresholdMetAt = r.thresholdMetAt
      /\ \A m \in Node : m # n => marked.result[m] = r.result[m]
  BY <1>1 DEF Release
<1> HIDE DEF marked
<1>6. /\ failed \in Release /\ GateView(failed) = GateView(marked)
      /\ RollbackView(failed) = RollbackView(marked)
  BY <1>4, EmitToType, EmitToFrame DEF NodeNotice
<1> HIDE DEF failed, tooMany
<1>7. /\ failed.input = r.input /\ failed.wave = r.wave /\ failed.samples = r.samples
      /\ failed.currentWave = r.currentWave /\ failed.state = r.state
      /\ failed.quarantined = r.quarantined /\ failed.result = marked.result
      /\ failed.thresholdMetAt = r.thresholdMetAt
  BY <1>5, <1>6 DEF GateView, RollbackView
<1>8. r.currentWave > b.currentWave => SameEvidence(r, failed, b.currentWave)
  <2>1. r.currentWave \in Nat /\ b.currentWave \in Nat
    BY <1>1 DEF Release
  <2> QED BY <1>3, <1>5, <1>7, <2>1 DEF SameEvidence
<1>9. Gated(failed, x)
  <2> DEFINE p == PauseLocked(failed, "failure_threshold")
  <2>1. /\ GateView(p) = GateView(failed) /\ p.state = "paused"
        /\ p.thresholdMetAt = failed.thresholdMetAt
    BY <1>6 DEF PauseLocked, GateView, Release
  <2>2. p \in Release
    BY <1>6, PauseLockedType DEF PauseReason
  <2> HIDE DEF p
  <2>3. Gated(failed, p) /\ Gated(failed, failed)
    BY <1>6, <2>1, <2>2, QuietGated
  <2> QED BY <2>3 DEF p
<1> HIDE DEF x
<1>10. Passes(b, x) /\ x.input = b.input
  BY <1>1, <1>3, <1>6, <1>7, <1>8, <1>9, SettledPasses
<1> QED BY <1>2, <1>10, CommitObserves DEF b, ObservationInv, WaveInv

LEMMA QuarantineNodeObserves ==
    ASSUME ObservationInv, NEW id \in Created, NEW n \in Node, QuarantineNode(id, n)
    PROVE  Observes(id)
<1> DEFINE b == releases[id]
           r == EvaluateLocked(b, now)
           marked == [r EXCEPT !.quarantined = @ \cup {n}]
           quarantined == EmitTo(marked, "node.quarantined", {n})
           x == EvaluateHealthLocked(quarantined, now)
<1>1. /\ b \in Release /\ Watchable(b) /\ Gated(b, r) /\ now \in Nat
      /\ r \in Release /\ Coherent(r) /\ Ordered(r) /\ Watchable(r)
  BY SettledGated
<1>2. /\ Commit(id, x) /\ r.state \in {"active", "paused"}
      /\ n \in InWave(r, r.currentWave, "succeeded")
  BY DEF QuarantineNode
<1> HIDE DEF b, r
<1>3. Evaluable(r) /\ ~Withdrawn(r)
  BY <1>1, <1>2, CoherentEvaluable DEF Withdrawn
<1>4. marked \in Release
  BY <1>1 DEF Release
<1>5. /\ marked.input = r.input /\ marked.wave = r.wave /\ marked.samples = r.samples
      /\ marked.currentWave = r.currentWave /\ marked.result = r.result
      /\ marked.thresholdMetAt = r.thresholdMetAt /\ marked.state = r.state
      /\ marked.planned = r.planned /\ marked.restored = r.restored
      /\ marked.lastWave = r.lastWave /\ marked.quarantined = r.quarantined \cup {n}
  BY <1>1 DEF Release
<1> HIDE DEF marked
<1>6. Evaluable(marked)
  BY <1>3, <1>5, EvidenceEvaluable
<1>7. n \in Succeeded(r) /\ r.wave[n] = r.currentWave
  BY <1>2 DEF InWave, WaveNodes, Succeeded
<1>8. Ordered(marked)
  BY <1>1, <1>5, <1>7, EvidenceOrdered DEF Ordered
<1>9. /\ quarantined \in Release /\ GateView(quarantined) = GateView(marked)
      /\ RollbackView(quarantined) = RollbackView(marked)
      /\ LifeView(quarantined) = LifeView(marked)
  BY <1>4, EmitToType, EmitToFrame, EmitToLife DEF NodeNotice
<1> HIDE DEF quarantined
<1>10. /\ quarantined.input = r.input /\ quarantined.wave = r.wave
       /\ quarantined.samples = r.samples /\ quarantined.result = r.result
       /\ quarantined.currentWave = r.currentWave /\ quarantined.state = r.state
       /\ quarantined.quarantined = r.quarantined \cup {n}
       /\ quarantined.thresholdMetAt = r.thresholdMetAt
       /\ quarantined.planned = r.planned /\ quarantined.restored = r.restored
  BY <1>5, <1>9 DEF GateView, RollbackView
<1>11. Evaluable(quarantined)
  BY <1>3, <1>5, <1>6, <1>9, <1>10, EvaluableFrame DEF Withdrawn
<1>12. Ordered(quarantined) /\ Watchable(quarantined)
  <2>1. Watchable(quarantined)
    BY <1>1, <1>10 DEF Watchable, HealthEnabled
  <2> QED BY <1>8, <1>9, <2>1, ViewsOrdered
<1>13. Gated(quarantined, x)
  BY <1>1, <1>9, <1>11, <1>12, EvaluateHealthLockedGated
<1>14. ~(r.currentWave > b.currentWave)
  BY <1>1, <1>2 DEF Gated
<1> HIDE DEF x
<1>15. Passes(b, x) /\ x.input = b.input
  BY <1>1, <1>2, <1>9, <1>10, <1>13, <1>14, SettledPasses
<1> QED BY <1>2, <1>15, CommitObserves DEF b, ObservationInv, WaveInv

LEMMA AckSucceededObserves ==
    ASSUME ObservationInv, NEW id \in Created, NEW n \in Node, AckSucceeded(id, n)
    PROVE  Observes(id)
<1> DEFINE b == releases[id]
           r == EvaluateLocked(b, now)
           d == nodes[n].digest
           result == [r.result EXCEPT ![n] = "succeeded"]
           prev == [r.prev EXCEPT ![n] = d]
           marked == [r EXCEPT !.result = result, !.prev = prev]
           s == EmitTo(marked, "node.succeeded", {n})
           others == AbortSupersededCatchupLocked(id, n)
           x == AfterSuccess(s)
<1>1. /\ b \in Release /\ Watchable(b) /\ Gated(b, r) /\ now \in Nat /\ r.input = b.input
      /\ r \in Release /\ Coherent(r) /\ Ordered(r) /\ Watchable(r)
  BY SettledGated
<1>2. ReceiptAccepted(r, n) /\ releases' = [others EXCEPT ![id] = x]
  BY DEF AckSucceeded
<1>3. d \in Digest \cup {NoDigest}
  BY DEF ObservationInv, WaveInv, Inv, TypeOK, NodeState
<1> HIDE DEF b, r, d
<1>4. /\ r.state = "active" /\ r.result[n] # "succeeded" /\ r.wave[n] = r.currentWave
  BY <1>2 DEF ReceiptAccepted
<1>5. s \in Release /\ Evaluable(s) /\ s.state = "active"
  <2>1. s = EmitTo([r EXCEPT !.result[n] = "succeeded", !.prev[n] = d],
                   "node.succeeded", {n})
    OBVIOUS
  <2> HIDE DEF s
  <2> QED BY <1>1, <1>3, <1>4, <2>1, SuccessEvaluable
<1>6. /\ result \in [Node -> NodeResult] /\ prev \in [Node -> Digest \cup {NoDigest}]
      /\ result[n] = "succeeded" /\ \A m \in Node : m # n => result[m] = r.result[m]
  BY <1>1, <1>3 DEF Release, NodeResult
<1> HIDE DEF result, prev
<1>7. marked \in Release
  BY <1>1, <1>6 DEF Release
<1>8. /\ marked.input = r.input /\ marked.wave = r.wave /\ marked.samples = r.samples
      /\ marked.currentWave = r.currentWave /\ marked.lastWave = r.lastWave
      /\ marked.state = r.state /\ marked.quarantined = r.quarantined
      /\ marked.thresholdMetAt = r.thresholdMetAt /\ marked.result = result
  BY <1>1 DEF Release
<1> HIDE DEF marked
<1>9. Ordered(marked)
  BY <1>1, <1>4, <1>6, <1>8, ResultOrdered
<1>10. /\ GateView(s) = GateView(marked) /\ LifeView(s) = LifeView(marked)
       /\ RollbackView(s) = RollbackView(marked)
  BY <1>7, EmitToFrame, EmitToLife
<1> HIDE DEF s
<1>11. /\ s.input = r.input /\ s.wave = r.wave /\ s.samples = r.samples
       /\ s.currentWave = r.currentWave /\ s.state = r.state
       /\ s.quarantined = r.quarantined /\ s.result = result
       /\ s.thresholdMetAt = r.thresholdMetAt
  BY <1>8, <1>10 DEF GateView, RollbackView
<1>12. Ordered(s) /\ Watchable(s)
  <2>1. Watchable(s)
    BY <1>1, <1>11 DEF Watchable, HealthEnabled
  <2> QED BY <1>9, <1>10, <2>1, ViewsOrdered
<1>13. r.currentWave > b.currentWave => SameEvidence(r, s, b.currentWave)
  <2>1. r.currentWave \in Nat /\ b.currentWave \in Nat
    BY <1>1 DEF Release
  <2> QED BY <1>4, <1>6, <1>11, <2>1 DEF SameEvidence
<1>14. Passes(b, x) /\ x.input = b.input
  <2>1. CASE HealthEnabled(s)
    <3>1. Gated(s, x)
      BY <1>1, <1>5, <1>12, <2>1, AfterSuccessGated
    <3> HIDE DEF x
    <3> QED BY <1>1, <1>4, <1>5, <1>11, <1>13, <3>1, SettledPasses
  <2>2. CASE ~HealthEnabled(s)
    <3>1. x = s \/ x = AdvanceWaveLocked(s, now)
      BY <2>2 DEF AfterSuccess
    <3>2. KeepsEvidence(s, s) /\ KeepsEvidence(s, AdvanceWaveLocked(s, now))
      BY <1>5, ViewKeeps, AdvanceWaveLockedKeeps
    <3> HIDE DEF x
    <3>3. KeepsEvidence(s, x)
      BY <3>1, <3>2
    <3>4. x.input = b.input
      BY <1>1, <1>5, <1>11, <3>3 DEF KeepsEvidence, SameEvidence, Release
    <3> QED BY <1>1, <1>11, <2>2, <3>4 DEF Passes, HealthEnabled
  <2> QED BY <2>1, <2>2
<1> HIDE DEF x
<1>15. ASSUME NEW i \in Created
       PROVE  others[i].input = releases[i].input /\ ~Promotes(releases[i], others[i])
  <2>1. releases[i] \in Release
    BY DEF ObservationInv, WaveInv, Inv, TypeOK
  <2>2. LET a == AbortCatchupLocked(releases[i])
        IN  /\ GateView(a) = GateView(releases[i])
            /\ LifeView(a) = LifeView(releases[i])
    BY <2>1, AbortCatchupLockedFrame, AbortCatchupLockedLife
  <2>3. others[i] \in {releases[i], AbortCatchupLocked(releases[i])}
    BY DEF AbortSupersededCatchupLocked
  <2>4. /\ GateView(others[i]) = GateView(releases[i])
        /\ LifeView(others[i]) = LifeView(releases[i])
    BY <2>2, <2>3
  <2> HIDE DEF others
  <2> QED BY <2>1, <2>4 DEF GateView, LifeView, Promotes, Release
<1>16. DOMAIN others = Created
  BY DEF AbortSupersededCatchupLocked
<1> HIDE DEF others
<1>17. /\ Created' = Created /\ releases'[id] = x
       /\ \A i \in Created \ {id} : releases'[i] = others[i]
  BY <1>2, <1>16 DEF Created
<1> QED BY <1>14, <1>15, <1>17 DEF Observes, b

-----------------------------------------------------------------------------
(* The theorem *)

\* Every step of the service is a transaction of one release or promotes nothing.
LEMMA StepObserves ==
    ASSUME ObservationInv, [Next]_vars
    PROVE  \/ \E id \in Created : Observes(id)
           \/ /\ \A i \in Created : /\ i \in Created'
                                    /\ releases'[i].input = releases[i].input
                                    /\ ~Promotes(releases[i], releases'[i])
              /\ \A i \in Created' \ Created : Watchable(releases'[i])
<1>1. \A i \in Created : releases[i] \in Release /\ releases[i].currentWave \in Nat
  BY DEF ObservationInv, WaveInv, Inv, TypeOK, Release
<1>2. CASE UNCHANGED vars \/ ClockTick
  BY <1>1, <1>2 DEF vars, ClockTick, Created, Promotes
<1>3. ASSUME NEW id \in Created,
             TickTimeout(id) \/ Pause(id) \/ Resume(id) \/ Cancel(id)
      PROVE  Observes(id)
  BY <1>3, TickTimeoutObserves, PauseObserves, ResumeObserves, CancelObserves
<1>4. ASSUME NEW id \in Created, NEW n \in Node,
             \/ AckReceipt(id, n) \/ QuarantineNode(id, n)
             \/ QuarantineAgain(id, n) \/ ConfirmRollback(id, n)
      PROVE  Observes(id)
  BY <1>4, TickTimeoutObserves, AckFailedObserves, AckSucceededObserves,
     QuarantineNodeObserves, ConfirmRollbackObserves
     DEF AckReceipt, AckIgnored, QuarantineAgain
<1>5. ASSUME NEW id \in Created, NEW n \in Node, NEW event \in SampleId,
             NEW healthy \in BOOLEAN, ReportHealth(id, n, event, healthy)
      PROVE  Observes(id)
  BY <1>5, ReportHealthObserves
<1>6. ASSUME NEW id \in ReleaseId, NEW in \in Inputs, CreateRelease(id, in)
      PROVE  /\ Created' = Created \cup {id}
             /\ \A i \in Created : releases'[i] = releases[i]
             /\ Watchable(releases'[id])
  <2> DEFINE new == NewRelease(nextSeq + 1, in, now)
  <2>1. releases' = [i \in Created \cup {id} |-> IF i = id THEN new ELSE releases[i]]
    BY <1>6 DEF CreateRelease
  <2>2. new.input = in
    BY DEF NewRelease, OpenWave, Emit, EmptyRelease
  <2> HIDE DEF new
  <2>3. Watchable(new)
    BY <1>6, <2>2 DEF CreateRelease, ValidInput, Watchable, HealthEnabled
  <2> QED BY <1>6, <2>1, <2>3 DEF Created, CreateRelease
<1>7. CASE Restart
  <2>1. releases' = [i \in Created |-> Reloaded(releases[i])]
    BY <1>7 DEF Restart
  <2>2. ASSUME NEW r \in Release
        PROVE  Reloaded(r).input = r.input /\ ~Promotes(r, Reloaded(r))
    BY DEF Reloaded, Promotes, Release
  <2> QED BY <1>1, <2>1, <2>2 DEF Created
<1>8. CASE \E id \in ReleaseId, in \in Inputs : CreateRelease(id, in)
  BY <1>1, <1>6, <1>8 DEF Promotes
<1> QED BY <1>2, <1>3, <1>4, <1>5, <1>7, <1>8 DEF Next

LEMMA NextObservationInv == ObservationInv /\ [Next]_vars => ObservationInv'
<1> SUFFICES ASSUME ObservationInv, [Next]_vars PROVE ObservationInv'
  OBVIOUS
<1>1. WaveInv'
  BY NextWaveInv DEF ObservationInv
<1>2. \A i \in Created : releases'[i].input = releases[i].input
  BY StepObserves DEF Observes
<1>3. \A i \in Created : Watchable(releases'[i])
  BY <1>2 DEF ObservationInv, Watchable, HealthEnabled
<1>4. \A i \in Created' \ Created : Watchable(releases'[i])
  BY StepObserves DEF Observes
<1> QED BY <1>1, <1>3, <1>4 DEF ObservationInv

\* For any number of releases, nodes and samples, any limits, and a clock that may
\* step back: with health observation a wave is left only after it was observed for
\* the whole window, with enough samples of every node that counts, and with neither
\* too many unhealthy nodes, nor too many quarantined ones, nor too low a coverage,
\* whichever handler evaluated it (health.go 158-197).
THEOREM PromotionSafe == Spec => PromotionPassedObservation
<1> DEFINE A == \A id \in Created :
                   Promotes(releases[id], releases'[id]) /\ HealthEnabled(releases[id]) =>
                       PassedObservation(releases[id], releases'[id])
<1>1. Init => ObservationInv
  BY InitInv DEF Init, WaveInv, ObservationInv, Created
<1>2. ObservationInv /\ [Next]_vars => A
  BY StepObserves DEF Observes, Passes
<1>3. ObservationInv /\ [Next]_vars => [A]_vars
  BY <1>2
<1> HIDE DEF A
<1>4. Spec => [][A]_vars
  BY <1>1, <1>3, NextObservationInv, PTL DEF Spec
<1> QED BY <1>4 DEF PromotionPassedObservation, A
=============================================================================
