----------------------------- MODULE RecordProofs -----------------------------
(***************************************************************************)
(* What the record of a release says of itself, proved of Rollout: the     *)
(* reason of a pause is true, a wave at its threshold has its window, each *)
(* notice is in the outbox once per cause, and a closed release stays as   *)
(* it is.  From them follows that the two queries of Views answer what the *)
(* handlers would do.                                                      *)
(* Two facts carry the induction that no property states: every wave has a *)
(* node and asks for at least one success, so a wave that has just opened  *)
(* is below its threshold; and without health observation a wave at its    *)
(* threshold has been left in the transaction that met it.                 *)
(***************************************************************************)
EXTENDS ObservationProofs, Views

\* Every wave that the release may open has a node and asks for a success, and the
\* samples can be counted.
Sized(r) ==
    /\ IsFiniteSet(r.samples)
    /\ Proper(r.input.minSuccess)
    /\ \A w \in 0 .. r.lastWave : WaveNodes(r, w) # {}

\* PauseReasonTruthful and ThresholdStartsWindow, said of one release.
TruePause(r) ==
    /\ r.state = "paused" <=> r.pauseReason # "none"
    /\ r.pauseReason = "timeout" => ~ThresholdReached(r)
    /\ r.pauseReason = "failure_threshold" =>
           Cardinality(InWave(r, r.currentWave, "failed")) > r.input.maxFailures

Met(r) ==
    r.state = "active" /\ HealthEnabled(r) /\ ThresholdReached(r) =>
        r.thresholdMetAt # NotMet

\* Without observation nothing waits at the threshold.
Below(r) ==
    r.state \in {"active", "paused"} /\ ~HealthEnabled(r) => ~ThresholdReached(r)

\* What every helper keeps, and what the evaluation at the end of a handler adds.
Recorded(r) ==
    /\ Sized(r) /\ TruePause(r) /\ NoticeCounts(r)
    /\ Withdrawn(r) => HealthEnabled(r)

Sound(r) == Recorded(r) /\ Below(r) /\ Met(r)

RecordInv == ObservationInv /\ \A id \in Created : Sound(releases[id])

-----------------------------------------------------------------------------
(* Counting events *)

\* The notices of a release that NoticesExactlyOnce counts.
Counted == {"release.created", "wave.opened", "release.cancelled",
            "release.completed", "rollback.started", "release.rolledback"}

\* From r to s the outbox gained the notices of a set, and one about each node of
\* another set.
Sends(r, s, notices) ==
    \A k \in Counted : s.sent[k] = r.sent[k] + Once(k \in notices)

SendsTo(r, s, notice, S) ==
    \A k \in NodeNotice, n \in Node :
        s.sentTo[k][n] = r.sentTo[k][n] + Once(k = notice /\ n \in S)

SendsToNone(r, s) == s.sentTo = r.sentTo

RecordView(r) == <<r.pauseReason, r.lastWave>>

LEMMA CountTypes ==
    ASSUME NEW r \in Release
    PROVE  /\ \A k \in Counted : r.sent[k] \in Nat
           /\ \A k \in NodeNotice, n \in Node : r.sentTo[k][n] \in Nat
BY DEF Release, Counted, ReleaseNotice

LEMMA EmitRecord ==
    ASSUME NEW r \in Release, NEW k \in ReleaseNotice
    PROVE  LET s == Emit(r, k)
           IN  /\ s \in Release /\ RecordView(s) = RecordView(r)
               /\ Sends(r, s, {k}) /\ SendsToNone(r, s)
<1> DEFINE s == Emit(r, k)
           sent == [r.sent EXCEPT ![k] = @ + 1]
<1>1. r.sent \in [ReleaseNotice -> Nat]
  BY DEF Release
<1>2. \A j \in Counted : sent[j] = r.sent[j] + Once(j \in {k})
  <2>1. ASSUME NEW j \in Counted PROVE sent[j] = r.sent[j] + Once(j \in {k})
    <3>1. j \in ReleaseNotice /\ r.sent[j] \in Nat
      BY <1>1 DEF Counted, ReleaseNotice
    <3> QED BY <1>1, <3>1 DEF Once
  <2> QED BY <2>1
<1>3. s = [r EXCEPT !.sent = sent]
  BY DEF Emit
<1> HIDE DEF sent
<1>4. s.sent = sent /\ s.sentTo = r.sentTo /\ RecordView(s) = RecordView(r)
  BY <1>3 DEF RecordView, Release
<1>5. s \in Release
  BY EmitType
<1> HIDE DEF s
<1>6. Sends(r, s, {k}) /\ SendsToNone(r, s)
  BY <1>2, <1>4 DEF Sends, SendsToNone
<1> QED BY <1>4, <1>5, <1>6 DEF s

LEMMA EmitToRecord ==
    ASSUME NEW r \in Release, NEW k \in NodeNotice, NEW S
    PROVE  LET s == EmitTo(r, k, S)
           IN  /\ s \in Release /\ RecordView(s) = RecordView(r)
               /\ Sends(r, s, {}) /\ SendsTo(r, s, k, S)
<1> DEFINE s == EmitTo(r, k, S)
           row == [n \in Node |-> IF n \in S THEN r.sentTo[k][n] + 1 ELSE r.sentTo[k][n]]
           sentTo == [r.sentTo EXCEPT ![k] = row]
<1>1. r.sentTo \in [NodeNotice -> [Node -> Nat]]
  BY DEF Release
<1>2. \A j \in NodeNotice, n \in Node :
          sentTo[j][n] = r.sentTo[j][n] + Once(j = k /\ n \in S)
  <2>1. ASSUME NEW j \in NodeNotice, NEW n \in Node
        PROVE  sentTo[j][n] = r.sentTo[j][n] + Once(j = k /\ n \in S)
    <3>1. r.sentTo[j][n] \in Nat
      BY <1>1
    <3>2. CASE j = k
      <4>1. sentTo[j] = row
        BY <1>1, <3>2
      <4> QED BY <3>1, <3>2, <4>1 DEF Once
    <3>3. CASE j # k
      <4>1. sentTo[j] = r.sentTo[j]
        BY <1>1, <3>3
      <4> HIDE DEF sentTo
      <4> QED BY <3>1, <3>3, <4>1 DEF Once
    <3> QED BY <3>2, <3>3
  <2> QED BY <2>1
<1>3. s = [r EXCEPT !.sentTo = sentTo]
  BY DEF EmitTo
<1> HIDE DEF sentTo
<1>4. s.sent = r.sent /\ s.sentTo = sentTo /\ RecordView(s) = RecordView(r)
  BY <1>3 DEF RecordView, Release
<1>5. s \in Release
  BY EmitToType
<1> HIDE DEF s
<1>6. Sends(r, s, {})
  BY <1>4, CountTypes DEF Sends, Once
<1>7. SendsTo(r, s, k, S)
  BY <1>2, <1>4 DEF SendsTo
<1> QED BY <1>4, <1>5, <1>6, <1>7 DEF s

\* Aborting a plan announces only that.
LEMMA AbortCatchupLockedRecord ==
    ASSUME NEW r \in Release
    PROVE  LET s == AbortCatchupLocked(r)
           IN  /\ s \in Release /\ RecordView(s) = RecordView(r)
               /\ Sends(r, s, {}) /\ SendsToNone(r, s)
<1> DEFINE s == AbortCatchupLocked(r)
<1>1. s \in Release
  BY AbortCatchupLockedType
<1>2. CASE r.plan.state \notin LiveCatchup
  <2>1. s = r
    BY <1>2 DEF AbortCatchupLocked
  <2>2. Sends(r, r, {})
    BY CountTypes DEF Sends, Once
  <2> QED BY <1>1, <2>1, <2>2 DEF SendsToNone
<1>3. CASE r.plan.state \in LiveCatchup
  <2> DEFINE plan == [state |-> "aborted",
                      entry |-> [n \in Node |->
                          IF r.plan.entry[n].state \in LiveCatchup
                          THEN [r.plan.entry[n] EXCEPT !.state = "aborted"]
                          ELSE r.plan.entry[n]]]
             sent == [r.sent EXCEPT !["catchup.aborted"] = @ + 1]
  <2>1. s = [[r EXCEPT !.plan = plan] EXCEPT !.sent["catchup.aborted"] = @ + 1]
    BY <1>3 DEF AbortCatchupLocked, Emit
  <2> HIDE DEF plan
  <2>2. s.sent = sent /\ s.sentTo = r.sentTo /\ RecordView(s) = RecordView(r)
    BY <2>1 DEF RecordView, Release
  <2>3. \A k \in Counted : sent[k] = r.sent[k]
    BY DEF Counted, Release, ReleaseNotice
  <2> HIDE DEF s, sent
  <2>4. Sends(r, s, {}) /\ SendsToNone(r, s)
    BY <2>2, <2>3, CountTypes DEF Sends, SendsToNone, Once
  <2> QED BY <1>1, <2>2, <2>4 DEF s
<1> QED BY <1>2, <1>3

-----------------------------------------------------------------------------
(* Frames *)

\* Nothing of the record depends on more than the views and the events counted.
LEMMA SoundFrame ==
    ASSUME NEW r \in Release, NEW s, Sound(r), GateView(s) = GateView(r),
           RollbackView(s) = RollbackView(r), RecordView(s) = RecordView(r),
           Sends(r, s, {}), SendsToNone(r, s)
    PROVE  Sound(s)
<1>1. /\ s.input = r.input /\ s.wave = r.wave /\ s.currentWave = r.currentWave
      /\ s.result = r.result /\ s.quarantined = r.quarantined
      /\ s.samples = r.samples
  BY DEF GateView
<1>2. /\ s.state = r.state /\ s.thresholdMetAt = r.thresholdMetAt
      /\ s.planned = r.planned /\ s.restored = r.restored
  BY DEF RollbackView
<1>3. s.pauseReason = r.pauseReason /\ s.lastWave = r.lastWave
  BY DEF RecordView
<1>4. ThresholdReached(s) = ThresholdReached(r) /\ HealthEnabled(s) = HealthEnabled(r)
  BY GateFrame
<1>5. \A w : WaveNodes(s, w) = WaveNodes(r, w)
  BY <1>1 DEF WaveNodes
<1>6. \A w, result : InWave(s, w, result) = InWave(r, w, result)
  BY <1>1, <1>5 DEF InWave
<1>7. Sized(s)
  BY <1>1, <1>3, <1>5 DEF Sized, Sound, Recorded
<1>8. TruePause(s)
  BY <1>1, <1>2, <1>3, <1>4, <1>6 DEF TruePause, Sound, Recorded
<1>9. NoticeCounts(s)
  <2>1. \A k \in Counted : s.sent[k] = r.sent[k]
    BY CountTypes DEF Sends, Once
  <2>2. s.sentTo = r.sentTo
    BY DEF SendsToNone
  <2>3. Withdrawn(s) = Withdrawn(r) /\ NoticeCounts(r)
    BY <1>2 DEF Withdrawn, Sound, Recorded
  <2> QED BY <1>1, <1>2, <2>1, <2>2, <2>3 DEF NoticeCounts, Counted
<1>10. Withdrawn(s) => HealthEnabled(s)
  BY <1>2, <1>4 DEF Withdrawn, Sound, Recorded
<1> QED BY <1>2, <1>4, <1>7, <1>8, <1>9, <1>10 DEF Sound, Recorded, Below, Met

\* The wave, the results and the limits are as they were: what then matters is the
\* state, the reason and the counts.
LEMMA RecordedFrame ==
    ASSUME NEW r, NEW s, Recorded(r), GateView(s) = GateView(r),
           s.lastWave = r.lastWave,
           NoticeCounts(s), Withdrawn(s) => HealthEnabled(r),
           \/ s.state # "paused" /\ s.pauseReason = "none"
           \/ s.state = "paused" /\ s.pauseReason = "manual"
           \/ s.state = r.state /\ s.pauseReason = r.pauseReason
    PROVE  Recorded(s)
<1>1. /\ s.input = r.input /\ s.wave = r.wave /\ s.currentWave = r.currentWave
      /\ s.result = r.result /\ s.samples = r.samples
  BY DEF GateView
<1>2. ThresholdReached(s) = ThresholdReached(r) /\ HealthEnabled(s) = HealthEnabled(r)
  BY GateFrame
<1>3. \A w : WaveNodes(s, w) = WaveNodes(r, w)
  BY <1>1 DEF WaveNodes
<1>4. \A w, result : InWave(s, w, result) = InWave(r, w, result)
  BY <1>1, <1>3 DEF InWave
<1>5. Sized(s)
  BY <1>1, <1>3 DEF Sized, Recorded
<1>6. TruePause(s)
  BY <1>1, <1>2, <1>4 DEF TruePause, Recorded
<1> QED BY <1>2, <1>5, <1>6 DEF Recorded

\* Pausing, resuming and observing announce nothing that is counted.
LEMMA IdleCounts ==
    ASSUME NEW r, NEW s, NoticeCounts(r), GateView(s) = GateView(r),
           s.planned = r.planned, s.restored = r.restored,
           s.sent = r.sent, s.sentTo = r.sentTo,
           r.state \in {"active", "paused"}, s.state \in {"active", "paused"}
    PROVE  NoticeCounts(s)
BY DEF GateView, NoticeCounts, Withdrawn, Once

LEMMA PauseLockedSound ==
    ASSUME NEW r \in Release, r.state = "active", Recorded(r), Below(r), NEW reason,
           \/ reason = "manual"
           \/ reason = "timeout" /\ ~ThresholdReached(r)
           \/ /\ reason = "failure_threshold"
              /\ Cardinality(InWave(r, r.currentWave, "failed")) > r.input.maxFailures
    PROVE  Sound(PauseLocked(r, reason))
<1> DEFINE s == PauseLocked(r, reason)
<1>1. /\ GateView(s) = GateView(r) /\ s.lastWave = r.lastWave /\ s.state = "paused"
      /\ s.pauseReason = reason /\ s.planned = r.planned /\ s.restored = r.restored
      /\ s.sent = r.sent /\ s.sentTo = r.sentTo
  BY DEF PauseLocked, GateView, Release
<1> HIDE DEF s
<1>2. /\ s.input = r.input /\ s.wave = r.wave /\ s.currentWave = r.currentWave
      /\ s.result = r.result /\ s.samples = r.samples
  BY <1>1 DEF GateView
<1>3. ThresholdReached(s) = ThresholdReached(r) /\ HealthEnabled(s) = HealthEnabled(r)
  BY <1>1, GateFrame
<1>4. \A w : WaveNodes(s, w) = WaveNodes(r, w)
  BY <1>2 DEF WaveNodes
<1>5. \A w, result : InWave(s, w, result) = InWave(r, w, result)
  BY <1>2, <1>4 DEF InWave
<1>6. Sized(s)
  BY <1>1, <1>2, <1>4 DEF Sized, Recorded
<1>7. TruePause(s)
  BY <1>1, <1>2, <1>3, <1>5 DEF TruePause
<1>8. NoticeCounts(s)
  BY <1>1, IdleCounts DEF Recorded
<1>9. Below(s) /\ Met(s) /\ ~Withdrawn(s)
  BY <1>1, <1>3 DEF Below, Met, Withdrawn
<1>10. Sound(s)
  BY <1>6, <1>7, <1>8, <1>9 DEF Sound, Recorded
<1> QED BY <1>10 DEF s

-----------------------------------------------------------------------------
(* A wave that has just opened *)

LEMMA QuotientPositive ==
    ASSUME NEW a \in Nat, NEW b \in Nat, b > 0, a >= b
    PROVE  a \div b >= 1
OBVIOUS

LEMMA RequiredPositive ==
    ASSUME NEW ratio \in Ratio, Proper(ratio), NEW size \in Nat, size > 0
    PROVE  RequiredSuccess(ratio, size) \in Int /\ RequiredSuccess(ratio, size) >= 1
<1> DEFINE p == ratio[1]
           q == ratio[2]
           a == p * size + q - 1
<1>1. p \in Nat /\ q \in Nat /\ q > 0 /\ p > 0
  BY DEF Ratio, Proper
<1>2. RequiredSuccess(ratio, size) = a \div q
  BY DEF RequiredSuccess
<1> HIDE DEF p, q
<1>3. p * size \in Nat /\ p * size >= 1
  BY <1>1
<1>4. a \in Nat /\ a >= q
  BY <1>1, <1>3
<1> HIDE DEF a
<1>5. a \div q >= 1 /\ a \div q \in Int
  BY <1>1, <1>4, QuotientPositive, QuotientIntType
<1> QED BY <1>2, <1>5

\* It has no success yet and needs one.
LEMMA FreshBelow ==
    ASSUME NEW r \in Release, Sized(r), r.currentWave \in 0 .. r.lastWave,
           \A n \in WaveNodes(r, r.currentWave) : r.result[n] # "succeeded"
    PROVE  ~ThresholdReached(r)
<1> DEFINE w == r.currentWave
           size == Cardinality(WaveNodes(r, w))
           ratio == r.input.minSuccess
<1>1. InWave(r, w, "succeeded") = {}
  BY DEF InWave
<1>2. Cardinality(InWave(r, w, "succeeded")) = 0
  BY <1>1, FS_EmptySet
<1>3. size \in Nat /\ size > 0
  <2>1. WaveNodes(r, w) # {} /\ WaveNodes(r, w) \subseteq Node
    BY DEF Sized, WaveNodes
  <2>2. IsFiniteSet(WaveNodes(r, w))
    BY <2>1, NodeAssumption, FS_Subset
  <2>3. size \in Nat /\ size # 0
    BY <2>1, <2>2, FS_CardinalityType, FS_EmptySet
  <2> HIDE DEF size
  <2> QED BY <2>3
<1>4. ratio \in Ratio /\ Proper(ratio)
  BY DEF Sized, Release, Input
<1> HIDE DEF size, ratio
<1>5. RequiredSuccess(ratio, size) \in Int /\ RequiredSuccess(ratio, size) >= 1
  BY <1>3, <1>4, RequiredPositive
<1>6. ThresholdReached(r) <=> 0 >= RequiredSuccess(ratio, size)
  BY <1>2 DEF ThresholdReached, ThresholdReachedIn, size, ratio
<1> QED BY <1>5, <1>6

\* What AdvanceWaveLocked opens.
OpensNext(r, s) ==
    /\ s.input = r.input /\ s.wave = r.wave /\ s.lastWave = r.lastWave
    /\ s.state = r.state /\ s.pauseReason = r.pauseReason
    /\ s.currentWave = r.currentWave + 1 /\ s.thresholdMetAt = NotMet
    /\ s.planned = r.planned /\ s.restored = r.restored
    /\ s.quarantined = r.quarantined /\ s.samples = r.samples
    /\ \A n \in Node : IF r.wave[n] = s.currentWave
                       THEN s.result[n] = "in_progress" /\ r.result[n] = "pending"
                       ELSE s.result[n] = r.result[n]
    /\ Sends(r, s, {"wave.opened"}) /\ SendsToNone(r, s)

LEMMA OpenWaveRecord ==
    ASSUME NEW r \in Release, Ordered(r), now \in Int
    PROVE  LET s == OpenWave(r, r.currentWave + 1, now)
           IN  s \in Release /\ OpensNext(r, s) /\ s.waveOpenedAt = now
<1> DEFINE w == r.currentWave + 1
           result == [n \in Node |-> IF r.wave[n] = w THEN "in_progress" ELSE r.result[n]]
           opened == [r EXCEPT !.currentWave = w, !.waveOpenedAt = now,
                               !.thresholdMetAt = NotMet, !.result = result]
           s == OpenWave(r, w, now)
<1>1. w \in Nat
  BY DEF Release
<1>2. result \in [Node -> NodeResult]
  BY DEF Release, NodeResult
<1>3. s = Emit(opened, "wave.opened")
  BY DEF OpenWave
<1>4. s \in Release
  BY <1>1, OpenWaveType
<1>5. \A n \in Node : IF r.wave[n] = w
                      THEN result[n] = "in_progress" /\ r.result[n] = "pending"
                      ELSE result[n] = r.result[n]
  <2>1. ASSUME NEW n \in Node, r.wave[n] = w PROVE r.result[n] = "pending"
    <3>1. n \in Targets(r) /\ r.wave[n] > r.currentWave
      BY <2>1 DEF Targets, NoWave, Release
    <3> QED BY <3>1 DEF Ordered, WaveOrder
  <2> QED BY <2>1
<1> HIDE DEF result, w
<1>6. opened \in Release
  <2>1. NotMet \in Int
    BY DEF NotMet
  <2> QED BY <1>1, <1>2, <2>1 DEF Release
<1>7. /\ opened.input = r.input /\ opened.wave = r.wave /\ opened.lastWave = r.lastWave
      /\ opened.state = r.state /\ opened.pauseReason = r.pauseReason
      /\ opened.currentWave = w /\ opened.thresholdMetAt = NotMet
      /\ opened.planned = r.planned /\ opened.restored = r.restored
      /\ opened.quarantined = r.quarantined /\ opened.result = result
      /\ opened.samples = r.samples
      /\ opened.sent = r.sent /\ opened.sentTo = r.sentTo /\ opened.waveOpenedAt = now
  BY DEF Release
<1>8. s.waveOpenedAt = opened.waveOpenedAt
  BY <1>3, <1>6 DEF Emit, Release
<1> HIDE DEF opened
<1>9. /\ GateView(s) = GateView(opened) /\ RollbackView(s) = RollbackView(opened)
      /\ RecordView(s) = RecordView(opened) /\ SendsToNone(opened, s)
      /\ Sends(opened, s, {"wave.opened"})
  BY <1>3, <1>6, EmitFrame, EmitRecord DEF ReleaseNotice
<1> HIDE DEF s
<1>10. Sends(r, s, {"wave.opened"}) /\ SendsToNone(r, s)
  BY <1>7, <1>9 DEF Sends, SendsToNone
<1>11. /\ s.input = r.input /\ s.wave = r.wave /\ s.lastWave = r.lastWave
       /\ s.state = r.state /\ s.pauseReason = r.pauseReason
       /\ s.currentWave = w /\ s.thresholdMetAt = NotMet
       /\ s.planned = r.planned /\ s.restored = r.restored
       /\ s.quarantined = r.quarantined /\ s.result = result
       /\ s.samples = r.samples
  BY <1>7, <1>9 DEF GateView, RollbackView, RecordView
<1>12. OpensNext(r, s)
  BY <1>5, <1>10, <1>11 DEF OpensNext, w
<1> QED BY <1>4, <1>7, <1>8, <1>12 DEF s, w

LEMMA OpenWaveSound ==
    ASSUME NEW r \in Release, Ordered(r), Recorded(r), r.state = "active",
           r.currentWave < r.lastWave, now \in Int
    PROVE  /\ Sound(OpenWave(r, r.currentWave + 1, now))
           /\ ~ThresholdReached(OpenWave(r, r.currentWave + 1, now))
<1> DEFINE s == OpenWave(r, r.currentWave + 1, now)
<1>1. s \in Release /\ OpensNext(r, s)
  BY OpenWaveRecord
<1> HIDE DEF s
<1>2. r.currentWave \in Nat /\ r.lastWave \in Nat
  BY DEF Release
<1>3. /\ s.currentWave \in 0 .. s.lastWave /\ s.state = "active"
      /\ s.pauseReason = "none"
  BY <1>1, <1>2 DEF OpensNext, Recorded, TruePause
<1>4. Sized(s)
  BY <1>1 DEF OpensNext, Sized, Recorded, WaveNodes
<1>5. ~ThresholdReached(s)
  <2>1. \A n \in WaveNodes(s, s.currentWave) : s.result[n] # "succeeded"
    BY <1>1 DEF OpensNext, WaveNodes
  <2> QED BY <1>1, <1>3, <1>4, <2>1, FreshBelow
<1>6. NoticeCounts(s)
  <2>1. /\ s.sent["release.created"] = r.sent["release.created"]
        /\ s.sent["wave.opened"] = r.sent["wave.opened"] + 1
        /\ s.sent["release.cancelled"] = r.sent["release.cancelled"]
        /\ s.sent["release.completed"] = r.sent["release.completed"]
        /\ s.sent["rollback.started"] = r.sent["rollback.started"]
        /\ s.sent["release.rolledback"] = r.sent["release.rolledback"]
    BY <1>1, CountTypes DEF OpensNext, Sends, Counted, Once
  <2>2. Withdrawn(s) = Withdrawn(r) /\ s.state = r.state
    BY <1>1 DEF OpensNext, Withdrawn
  <2>3. \A n \in Node : /\ s.result[n] = "succeeded" <=> r.result[n] = "succeeded"
                        /\ s.result[n] = "failed" <=> r.result[n] = "failed"
    BY <1>1 DEF OpensNext
  <2>4. s.sentTo = r.sentTo /\ NoticeCounts(r)
    BY <1>1 DEF OpensNext, SendsToNone, Recorded
  <2>5. \A n \in Node :
          /\ s.sentTo["node.succeeded"][n] = Once(s.result[n] = "succeeded")
          /\ s.sentTo["node.failed"][n] = Once(s.result[n] = "failed")
          /\ s.sentTo["node.compensation"][n] =
                 Once(s.state = "cancelled" /\ s.result[n] = "succeeded")
    BY <1>3, <2>2, <2>3, <2>4 DEF NoticeCounts, Once
  <2>6. \A n \in Node :
          /\ s.sentTo["node.rollback"][n] = Once(n \in s.planned)
          /\ s.sentTo["node.restored"][n] = Once(n \in s.restored)
          /\ s.sentTo["node.quarantined"][n] = Once(n \in s.quarantined)
    BY <1>1, <2>4 DEF NoticeCounts, OpensNext
  <2>7. s.sent["wave.opened"] = s.currentWave + 1
    BY <1>1, <2>1, <2>4 DEF NoticeCounts, OpensNext
  <2> QED BY <2>1, <2>2, <2>4, <2>5, <2>6, <2>7 DEF NoticeCounts
<1>7. Sound(s)
  BY <1>3, <1>4, <1>5, <1>6 DEF Sound, Recorded, TruePause, Below, Met, Withdrawn
<1> QED BY <1>5, <1>7 DEF s

LEMMA AdvanceWaveLockedSound ==
    ASSUME NEW r \in Release, Ordered(r), Recorded(r), r.state = "active", now \in Int
    PROVE  Sound(AdvanceWaveLocked(r, now))
<1>1. CASE r.currentWave # r.lastWave
  <2>1. r.currentWave < r.lastWave
    BY <1>1 DEF Ordered, WaveOrder, Release
  <2> QED BY <1>1, <2>1, OpenWaveSound DEF AdvanceWaveLocked
<1>2. CASE r.currentWave = r.lastWave
  <2> DEFINE c == [r EXCEPT !.state = "completed"]
             s == Emit(c, "release.completed")
  <2>1. /\ c \in Release /\ GateView(c) = GateView(r) /\ c.lastWave = r.lastWave
        /\ c.state = "completed" /\ c.pauseReason = r.pauseReason
        /\ c.planned = r.planned /\ c.restored = r.restored
        /\ c.sent = r.sent /\ c.sentTo = r.sentTo
    BY DEF GateView, Release, ReleaseState
  <2> HIDE DEF c
  <2>2. /\ GateView(s) = GateView(c) /\ RollbackView(s) = RollbackView(c)
        /\ RecordView(s) = RecordView(c) /\ SendsToNone(c, s)
        /\ Sends(c, s, {"release.completed"})
    BY <2>1, EmitFrame, EmitRecord DEF ReleaseNotice
  <2> HIDE DEF s
  <2>3. /\ s.state = "completed" /\ s.pauseReason = r.pauseReason
        /\ s.lastWave = r.lastWave /\ GateView(s) = GateView(r)
        /\ s.planned = r.planned /\ s.restored = r.restored
    BY <2>1, <2>2 DEF RollbackView, RecordView
  <2>4. NoticeCounts(s)
    <3>1. /\ s.sent["release.created"] = r.sent["release.created"]
          /\ s.sent["wave.opened"] = r.sent["wave.opened"]
          /\ s.sent["release.cancelled"] = r.sent["release.cancelled"]
          /\ s.sent["release.completed"] = r.sent["release.completed"] + 1
          /\ s.sent["rollback.started"] = r.sent["rollback.started"]
          /\ s.sent["release.rolledback"] = r.sent["release.rolledback"]
      BY <2>1, <2>2, CountTypes DEF Sends, Counted, Once
    <3>2. s.sentTo = r.sentTo /\ NoticeCounts(r)
      BY <2>1, <2>2 DEF SendsToNone, Recorded
    <3> QED BY <2>3, <3>1, <3>2 DEF NoticeCounts, Once, Withdrawn, GateView
  <2>5. Recorded(s)
    <3>1. s.pauseReason = "none"
      BY <2>3 DEF Recorded, TruePause
    <3> QED BY <2>3, <2>4, <3>1, RecordedFrame DEF Withdrawn
  <2>6. Sound(s)
    BY <2>3, <2>5 DEF Sound, Below, Met
  <2> QED BY <1>2, <2>6 DEF AdvanceWaveLocked, s, c
<1> QED BY <1>1, <1>2

LEMMA StartRollbackLockedSound ==
    ASSUME NEW r \in Release, Ordered(r), Recorded(r), RollbackCoherent(r),
           r.state = "active", HealthEnabled(r), Breach(r) # "none"
    PROVE  Sound(StartRollbackLocked(r, Breach(r)))
<1> DEFINE reason == Breach(r)
           started == [r EXCEPT !.state = "rolling_back", !.pauseReason = "none",
                                !.rollbackReason = reason, !.planned = Succeeded(r)]
           announced == Emit(started, "rollback.started")
           notified == EmitTo(announced, "node.rollback", Succeeded(r))
           aborted == AbortCatchupLocked(notified)
<1>1. StartRollbackLocked(r, reason) = aborted
  BY BreachHasSuccess DEF StartRollbackLocked
<1>2. reason \in RollbackReason
  BY DEF Breach, RollbackReason
<1>3. Succeeded(r) \in SUBSET Node
  BY DEF Succeeded
<1> HIDE DEF reason
<1>4. started \in Release
  BY <1>2, <1>3 DEF Release, ReleaseState, PauseReason
<1>5. /\ GateView(started) = GateView(r) /\ started.state = "rolling_back"
      /\ started.pauseReason = "none" /\ started.lastWave = r.lastWave
      /\ started.planned = Succeeded(r) /\ started.restored = r.restored
      /\ started.sent = r.sent /\ started.sentTo = r.sentTo
  BY DEF GateView, Release
<1> HIDE DEF started
<1>6. /\ announced \in Release /\ GateView(announced) = GateView(started)
      /\ RollbackView(announced) = RollbackView(started)
      /\ RecordView(announced) = RecordView(started)
      /\ Sends(started, announced, {"rollback.started"})
      /\ SendsToNone(started, announced)
  BY <1>4, EmitFrame, EmitRecord DEF ReleaseNotice
<1> HIDE DEF announced
<1>7. /\ notified \in Release /\ GateView(notified) = GateView(announced)
      /\ RollbackView(notified) = RollbackView(announced)
      /\ RecordView(notified) = RecordView(announced)
      /\ Sends(announced, notified, {})
      /\ SendsTo(announced, notified, "node.rollback", Succeeded(r))
  BY <1>6, EmitToFrame, EmitToRecord DEF NodeNotice
<1> HIDE DEF notified
<1>8. /\ aborted \in Release /\ GateView(aborted) = GateView(notified)
      /\ RollbackView(aborted) = RollbackView(notified)
      /\ RecordView(aborted) = RecordView(notified)
      /\ Sends(notified, aborted, {}) /\ SendsToNone(notified, aborted)
  BY <1>7, AbortCatchupLockedFrame, AbortCatchupLockedRecord
<1> HIDE DEF aborted
<1>9. /\ GateView(aborted) = GateView(r) /\ aborted.state = "rolling_back"
      /\ aborted.pauseReason = "none" /\ aborted.lastWave = r.lastWave
      /\ aborted.planned = Succeeded(r) /\ aborted.restored = r.restored
  BY <1>5, <1>6, <1>7, <1>8 DEF RollbackView, RecordView
<1>10. /\ \A k \in Counted :
              aborted.sent[k] = r.sent[k] + Once(k \in {"rollback.started"})
       /\ \A k \in NodeNotice, n \in Node :
              aborted.sentTo[k][n] =
                  r.sentTo[k][n] + Once(k = "node.rollback" /\ n \in Succeeded(r))
  <2>1. ASSUME NEW k \in Counted
        PROVE  aborted.sent[k] = r.sent[k] + Once(k \in {"rollback.started"})
    <3>1. /\ announced.sent[k] = r.sent[k] + Once(k \in {"rollback.started"})
          /\ notified.sent[k] = announced.sent[k] + Once(k \in {})
          /\ aborted.sent[k] = notified.sent[k] + Once(k \in {})
      BY <1>5, <1>6, <1>7, <1>8 DEF Sends
    <3>2. announced.sent[k] \in Nat
      BY <1>6, CountTypes
    <3> QED BY <3>1, <3>2 DEF Once
  <2>2. ASSUME NEW k \in NodeNotice, NEW n \in Node
        PROVE  aborted.sentTo[k][n] =
                   r.sentTo[k][n] + Once(k = "node.rollback" /\ n \in Succeeded(r))
    BY <1>5, <1>6, <1>7, <1>8 DEF SendsTo, SendsToNone
  <2> QED BY <2>1, <2>2
<1>11. NoticeCounts(aborted)
  <2>1. /\ aborted.sent["release.created"] = r.sent["release.created"]
        /\ aborted.sent["wave.opened"] = r.sent["wave.opened"]
        /\ aborted.sent["release.cancelled"] = r.sent["release.cancelled"]
        /\ aborted.sent["release.completed"] = r.sent["release.completed"]
        /\ aborted.sent["rollback.started"] = r.sent["rollback.started"] + 1
        /\ aborted.sent["release.rolledback"] = r.sent["release.rolledback"]
    BY <1>10, CountTypes DEF Counted, Once
  <2>2. r.planned = {} /\ NoticeCounts(r)
    BY DEF RollbackCoherent, Withdrawn, Recorded
  <2>3. ASSUME NEW n \in Node
        PROVE  /\ aborted.sentTo["node.rollback"][n] = Once(n \in aborted.planned)
               /\ \A k \in NodeNotice \ {"node.rollback"} :
                      aborted.sentTo[k][n] = r.sentTo[k][n]
    <3>1. r.sentTo["node.rollback"][n] = 0
      BY <2>2 DEF NoticeCounts, Once
    <3>2. aborted.sentTo["node.rollback"][n] = 0 + Once(n \in Succeeded(r))
      BY <1>10, <3>1 DEF NodeNotice
    <3>3. \A k \in NodeNotice \ {"node.rollback"} :
              aborted.sentTo[k][n] = r.sentTo[k][n]
      BY <1>10, CountTypes DEF Once
    <3> QED BY <1>9, <3>2, <3>3 DEF Once
  <2>4. ASSUME NEW n \in Node
        PROVE  /\ aborted.sentTo["node.succeeded"][n] = r.sentTo["node.succeeded"][n]
               /\ aborted.sentTo["node.failed"][n] = r.sentTo["node.failed"][n]
               /\ aborted.sentTo["node.compensation"][n] =
                      r.sentTo["node.compensation"][n]
               /\ aborted.sentTo["node.restored"][n] = r.sentTo["node.restored"][n]
               /\ aborted.sentTo["node.quarantined"][n] = r.sentTo["node.quarantined"][n]
    BY <2>3 DEF NodeNotice
  <2>5. aborted.result = r.result /\ aborted.quarantined = r.quarantined
        /\ aborted.currentWave = r.currentWave
    BY <1>9 DEF GateView
  <2> QED BY <1>9, <2>1, <2>2, <2>3, <2>4, <2>5 DEF NoticeCounts, Once, Withdrawn
<1>12. Recorded(aborted)
  BY <1>9, <1>11, RecordedFrame
<1>13. Sound(aborted)
  BY <1>9, <1>12 DEF Sound, Below, Met
<1> QED BY <1>1, <1>13 DEF reason

LEMMA EvaluateHealthLockedSound ==
    ASSUME NEW r \in Release, Evaluable(r), Ordered(r), Recorded(r), Below(r),
           now \in Nat, now \in Int
    PROVE  Sound(EvaluateHealthLocked(r, now))
<1> DEFINE o == Observe(r, now)
           x == EvaluateHealthLocked(r, now)
<1>1. CASE \/ r.state # "active" \/ ~HealthEnabled(r)
           \/ r.thresholdMetAt = NotMet /\ ~ThresholdReached(r)
  <2>1. x = r
    BY <1>1 DEF EvaluateHealthLocked
  <2>2. Sound(r)
    BY <1>1 DEF Sound, Met
  <2> QED BY <2>1, <2>2
<1>2. CASE /\ r.state = "active" /\ HealthEnabled(r)
           /\ r.thresholdMetAt # NotMet \/ ThresholdReached(r)
  <2>1. x = IF Breach(o) # "none" THEN StartRollbackLocked(o, Breach(o))
            ELSE IF ObservationPassed(o, now) THEN AdvanceWaveLocked(o, now)
            ELSE o
    BY <1>2 DEF EvaluateHealthLocked
  <2>2. /\ o \in Release /\ GateView(o) = GateView(r) /\ LifeView(o) = LifeView(r)
        /\ o.pauseReason = r.pauseReason /\ o.thresholdMetAt # NotMet
        /\ o.planned = r.planned /\ o.restored = r.restored
        /\ o.sent = r.sent /\ o.sentTo = r.sentTo
    <3> DEFINE met == IF r.thresholdMetAt = NotMet THEN now ELSE r.thresholdMetAt
    <3>1. o = [r EXCEPT !.thresholdMetAt = met]
      BY DEF Observe
    <3>2. met # NotMet
      BY DEF NotMet
    <3> HIDE DEF met
    <3>3. o \in Release
      BY ObserveType
    <3> QED BY <3>1, <3>2, <3>3 DEF GateView, LifeView, Release
  <2> HIDE DEF o, x
  <2>3. o.state = "active" /\ o.lastWave = r.lastWave /\ HealthEnabled(o)
    BY <1>2, <2>2, GateFrame DEF LifeView
  <2>4. Ordered(o)
    BY <2>2, ViewsOrdered
  <2>5. RollbackCoherent(o)
    BY <1>2, <2>2, <2>3 DEF RollbackCoherent, Evaluable, Withdrawn
  <2>6. Recorded(o)
    <3>1. NoticeCounts(o)
      BY <1>2, <2>2, <2>3, IdleCounts DEF Recorded
    <3> QED BY <1>2, <2>2, <2>3, <3>1, RecordedFrame DEF Withdrawn
  <2>7. Sound(o)
    BY <2>2, <2>3, <2>6 DEF Sound, Below, Met
  <2>8. Breach(o) # "none" => Sound(StartRollbackLocked(o, Breach(o)))
    BY <2>2, <2>3, <2>4, <2>5, <2>6, StartRollbackLockedSound
  <2>9. Sound(AdvanceWaveLocked(o, now))
    BY <2>2, <2>3, <2>4, <2>6, AdvanceWaveLockedSound
  <2>10. Sound(x)
    BY <2>1, <2>7, <2>8, <2>9
  <2> QED BY <2>10 DEF x
<1> QED BY <1>1, <1>2

LEMMA EvaluateLockedSound ==
    ASSUME NEW r \in Release, Coherent(r), Ordered(r), Sound(r), now \in Nat, now \in Int
    PROVE  Sound(EvaluateLocked(r, now))
<1> DEFINE t == EvaluateTimeoutLocked(r, now)
<1>1. CASE t = r
  <2>1. EvaluateLocked(r, now) = EvaluateHealthLocked(r, now)
    BY <1>1 DEF EvaluateLocked
  <2> QED BY <2>1, CoherentEvaluable, EvaluateHealthLockedSound DEF Sound
<1>2. CASE t # r
  <2>1. /\ r.state = "active" /\ ~ThresholdReached(r)
        /\ t = PauseLocked(r, "timeout")
    BY <1>2 DEF EvaluateTimeoutLocked
  <2>2. t.state = "paused"
    BY <2>1 DEF PauseLocked, Release
  <2>3. EvaluateLocked(r, now) = t
    BY <2>2 DEF EvaluateLocked, EvaluateHealthLocked
  <2>4. Sound(t)
    BY <2>1, PauseLockedSound DEF Sound
  <2> QED BY <2>3, <2>4
<1> QED BY <1>1, <1>2

LEMMA AfterSuccessSound ==
    ASSUME NEW r \in Release, Evaluable(r), Ordered(r), Recorded(r), r.state = "active",
           now \in Nat, now \in Int
    PROVE  Sound(AfterSuccess(r))
<1>1. CASE ~ThresholdReached(r)
  BY <1>1 DEF AfterSuccess, Sound, Below, Met
<1>2. CASE ThresholdReached(r) /\ HealthEnabled(r)
  <2>1. Below(r)
    BY <1>2 DEF Below
  <2> QED BY <1>2, <2>1, EvaluateHealthLockedSound DEF AfterSuccess
<1>3. CASE ThresholdReached(r) /\ ~HealthEnabled(r)
  BY <1>3, AdvanceWaveLockedSound DEF AfterSuccess
<1> QED BY <1>1, <1>2, <1>3

-----------------------------------------------------------------------------
(* CreateRelease cuts the targets into waves, none of them empty *)

LEMMA QuotientBelow ==
    ASSUME NEW a \in Nat, NEW b \in Nat, b > 0, NEW w \in Nat, w <= a \div b
    PROVE  w * b \in Nat /\ w * b <= a
<1> DEFINE q == a \div b
<1>1. q \in Nat /\ q * b <= a
  BY QuotientType
<1> HIDE DEF q
<1>2. w * b <= q * b
  BY <1>1 DEF q
<1> QED BY <1>1, <1>2

LEMMA QuotientExact ==
    ASSUME NEW w \in Nat, NEW b \in Nat, b > 0
    PROVE  (w * b) \div b = w
OBVIOUS

LEMMA WavesFilled ==
    ASSUME NEW in \in Input, ValidInput(in),
           NEW w \in 0 .. (Len(in.targets) - 1) \div in.waveSize
    PROVE  \E n \in Node : WaveOf(in, n) = w
<1> DEFINE last == Len(in.targets) - 1
           size == in.waveSize
           i == w * size + 1
           n == in.targets[i]
<1>1. in.targets \in Seq(Node) /\ in.targets # <<>> /\ size \in Nat /\ size > 0
  BY DEF Input, ValidInput
<1>2. last \in Nat
  BY <1>1
<1>3. w \in Nat /\ w <= last \div size
  BY <1>1, <1>2, QuotientType
<1>4. w * size \in Nat /\ w * size <= last
  BY <1>1, <1>2, <1>3, QuotientBelow
<1>5. i \in DOMAIN in.targets
  BY <1>1, <1>4
<1>6. n \in Node
  BY <1>1, <1>5
<1>7. (i - 1) \div size = w
  BY <1>1, <1>3, <1>4, QuotientExact
<1> HIDE DEF i, size
<1>8. (CHOOSE j \in DOMAIN in.targets : in.targets[j] = n) = i
  BY <1>5 DEF ValidInput
<1>9. WaveOf(in, n) = w
  BY <1>5, <1>7, <1>8 DEF WaveOf, size
<1> QED BY <1>6, <1>9

LEMMA NewReleaseSound ==
    ASSUME NEW in \in Input, ValidInput(in), NEW seq \in Nat, now \in Int
    PROVE  Sound(NewRelease(seq, in, now))
<1> DEFINE empty == EmptyRelease(seq, in)
           created == Emit(empty, "release.created")
           result == [n \in Node |-> IF created.wave[n] = 0 THEN "in_progress"
                                     ELSE created.result[n]]
           opened == [created EXCEPT !.currentWave = 0, !.waveOpenedAt = now,
                                     !.thresholdMetAt = NotMet, !.result = result]
           x == Emit(opened, "wave.opened")
           last == (Len(in.targets) - 1) \div in.waveSize
<1>1. empty \in Release
  BY EmptyReleaseType
<1>2. /\ empty.input = in /\ empty.state = "active" /\ empty.pauseReason = "none"
      /\ empty.lastWave = last /\ empty.planned = {} /\ empty.restored = {}
      /\ empty.quarantined = {} /\ empty.samples = {}
      /\ empty.wave = [n \in Node |-> WaveOf(in, n)]
      /\ empty.result = [n \in Node |-> "pending"]
      /\ \A k \in Counted : empty.sent[k] = 0
      /\ \A k \in NodeNotice, n \in Node : empty.sentTo[k][n] = 0
  BY DEF EmptyRelease, Counted, ReleaseNotice
<1> HIDE DEF empty, last
<1>3. /\ created \in Release /\ GateView(created) = GateView(empty)
      /\ RollbackView(created) = RollbackView(empty)
      /\ RecordView(created) = RecordView(empty)
      /\ Sends(empty, created, {"release.created"}) /\ SendsToNone(empty, created)
  BY <1>1, EmitFrame, EmitRecord DEF ReleaseNotice
<1> HIDE DEF created
<1>4. result \in [Node -> NodeResult]
  BY <1>3 DEF Release, NodeResult
<1>5. \A n \in Node : result[n] \in {"in_progress", "pending"}
  <2>1. created.result = empty.result
    BY <1>3 DEF GateView
  <2> QED BY <1>2, <2>1
<1> HIDE DEF result
<1>6. opened \in Release
  <2>1. NotMet \in Int
    BY DEF NotMet
  <2> QED BY <1>3, <1>4, <2>1 DEF Release
<1>7. /\ opened.input = created.input /\ opened.wave = created.wave
      /\ opened.lastWave = created.lastWave /\ opened.state = created.state
      /\ opened.pauseReason = created.pauseReason /\ opened.currentWave = 0
      /\ opened.planned = created.planned /\ opened.restored = created.restored
      /\ opened.quarantined = created.quarantined /\ opened.result = result
      /\ opened.samples = created.samples
      /\ opened.sent = created.sent /\ opened.sentTo = created.sentTo
  BY <1>3 DEF Release
<1>8. NewRelease(seq, in, now) = x
  BY DEF NewRelease, OpenWave, created, empty, result
<1> HIDE DEF opened
<1>9. /\ x \in Release /\ GateView(x) = GateView(opened)
      /\ RollbackView(x) = RollbackView(opened) /\ RecordView(x) = RecordView(opened)
      /\ Sends(opened, x, {"wave.opened"}) /\ SendsToNone(opened, x)
  BY <1>6, EmitFrame, EmitRecord DEF ReleaseNotice
<1> HIDE DEF x
<1>10. /\ x.input = in /\ x.state = "active" /\ x.pauseReason = "none"
       /\ x.lastWave = last /\ x.planned = {} /\ x.restored = {}
       /\ x.quarantined = {} /\ x.samples = {}
       /\ x.wave = [n \in Node |-> WaveOf(in, n)]
       /\ x.result = result /\ x.currentWave = 0
  BY <1>2, <1>3, <1>7, <1>9 DEF GateView, RollbackView, RecordView
<1>11. /\ \A k \in Counted :
              x.sent[k] = 0 + Once(k \in {"release.created"}) + Once(k \in {"wave.opened"})
       /\ \A k \in NodeNotice, n \in Node : x.sentTo[k][n] = 0
  BY <1>2, <1>3, <1>7, <1>9 DEF Sends, SendsToNone
<1>12. Sized(x)
  <2>1. Proper(x.input.minSuccess)
    BY <1>10 DEF ValidInput
  <2>2. ASSUME NEW w \in 0 .. x.lastWave PROVE WaveNodes(x, w) # {}
    <3>1. PICK n \in Node : WaveOf(in, n) = w
      BY <1>10, <2>2, WavesFilled DEF last
    <3>2. n \in WaveNodes(x, w)
      BY <1>10, <3>1 DEF WaveNodes
    <3> QED BY <3>2
  <2> QED BY <1>10, <2>1, <2>2, FS_EmptySet DEF Sized
<1>13. ~ThresholdReached(x)
  <2>1. x.currentWave \in 0 .. x.lastWave
    BY <1>9, <1>10 DEF Release
  <2>2. \A n \in WaveNodes(x, x.currentWave) : x.result[n] # "succeeded"
    BY <1>5, <1>10 DEF WaveNodes
  <2> QED BY <1>9, <1>12, <2>1, <2>2, FreshBelow
<1>14. NoticeCounts(x)
  <2>1. /\ x.sent["release.created"] = 1 /\ x.sent["wave.opened"] = 1
        /\ x.sent["release.cancelled"] = 0 /\ x.sent["release.completed"] = 0
        /\ x.sent["rollback.started"] = 0 /\ x.sent["release.rolledback"] = 0
    BY <1>11 DEF Counted, Once
  <2>2. \A n \in Node : x.result[n] # "succeeded" /\ x.result[n] # "failed"
    BY <1>5, <1>10
  <2>3. \A n \in Node :
          /\ x.sentTo["node.succeeded"][n] = 0 /\ x.sentTo["node.failed"][n] = 0
          /\ x.sentTo["node.compensation"][n] = 0 /\ x.sentTo["node.rollback"][n] = 0
          /\ x.sentTo["node.restored"][n] = 0 /\ x.sentTo["node.quarantined"][n] = 0
    BY <1>11 DEF NodeNotice
  <2> QED BY <1>10, <2>1, <2>2, <2>3 DEF NoticeCounts, Once, Withdrawn
<1>15. Sound(x)
  BY <1>10, <1>12, <1>13, <1>14 DEF Sound, Recorded, TruePause, Below, Met, Withdrawn
<1> QED BY <1>8, <1>15

-----------------------------------------------------------------------------
(* Results and evidence *)

\* A receipt gives a node of an active release its one result, and announces it.
LEMMA ResultRecorded ==
    ASSUME NEW r \in Release, Recorded(r), r.state = "active", NEW n \in Node,
           NEW s \in Release, NEW result \in {"succeeded", "failed"}, NEW notice,
           notice = IF result = "succeeded" THEN "node.succeeded" ELSE "node.failed",
           r.result[n] \notin {"succeeded", "failed"}, s.result[n] = result,
           \A m \in Node : m # n => s.result[m] = r.result[m],
           s.input = r.input, s.wave = r.wave, s.currentWave = r.currentWave,
           s.lastWave = r.lastWave, s.state = r.state, s.pauseReason = r.pauseReason,
           s.planned = r.planned, s.restored = r.restored,
           s.quarantined = r.quarantined, s.samples = r.samples,
           Sends(r, s, {}), SendsTo(r, s, notice, {n})
    PROVE  Recorded(s)
<1>1. Sized(s)
  BY DEF Recorded, Sized, WaveNodes
<1>2. s.pauseReason = "none" /\ ~Withdrawn(s)
  BY DEF Recorded, TruePause, Withdrawn
<1>3. TruePause(s)
  BY <1>2 DEF TruePause
<1>4. NoticeCounts(s)
  <2>1. NoticeCounts(r)
    BY DEF Recorded
  <2>2. \A k \in Counted : s.sent[k] = r.sent[k]
    BY CountTypes DEF Sends, Once
  <2>3. ASSUME NEW m \in Node
        PROVE  /\ s.sentTo["node.succeeded"][m] = Once(s.result[m] = "succeeded")
               /\ s.sentTo["node.failed"][m] = Once(s.result[m] = "failed")
    <3>1. /\ r.sentTo["node.succeeded"][m] = Once(r.result[m] = "succeeded")
          /\ r.sentTo["node.failed"][m] = Once(r.result[m] = "failed")
      BY <2>1 DEF NoticeCounts
    <3>2. /\ s.sentTo["node.succeeded"][m] =
                 r.sentTo["node.succeeded"][m] + Once(notice = "node.succeeded" /\ m = n)
          /\ s.sentTo["node.failed"][m] =
                 r.sentTo["node.failed"][m] + Once(notice = "node.failed" /\ m = n)
      BY DEF SendsTo, NodeNotice, Once
    <3> QED BY <3>1, <3>2 DEF Once
  <2>4. ASSUME NEW m \in Node
        PROVE  /\ s.sentTo["node.compensation"][m] = r.sentTo["node.compensation"][m]
               /\ s.sentTo["node.rollback"][m] = r.sentTo["node.rollback"][m]
               /\ s.sentTo["node.restored"][m] = r.sentTo["node.restored"][m]
               /\ s.sentTo["node.quarantined"][m] = r.sentTo["node.quarantined"][m]
    BY CountTypes DEF SendsTo, NodeNotice, Once
  <2> QED BY <2>1, <2>2, <2>3, <2>4 DEF NoticeCounts, Counted, Withdrawn, Once
<1> QED BY <1>1, <1>2, <1>3, <1>4 DEF Recorded

\* Samples and quarantine decisions are no part of the record.
LEMMA EvidenceRecorded ==
    ASSUME NEW r, NEW s, Recorded(r), Below(r), NoticeCounts(s),
           IsFiniteSet(s.samples),
           s.input = r.input, s.wave = r.wave, s.currentWave = r.currentWave,
           s.result = r.result, s.lastWave = r.lastWave,
           s.state = r.state, s.pauseReason = r.pauseReason
    PROVE  /\ Recorded(s) /\ Below(s)
           /\ ThresholdReached(s) = ThresholdReached(r)
<1>1. \A w : WaveNodes(s, w) = WaveNodes(r, w)
  BY DEF WaveNodes
<1>2. \A w, result : InWave(s, w, result) = InWave(r, w, result)
  BY <1>1 DEF InWave
<1>3. ThresholdReached(s) = ThresholdReached(r) /\ HealthEnabled(s) = HealthEnabled(r)
  BY <1>1, <1>2 DEF ThresholdReached, ThresholdReachedIn, HealthEnabled
<1>4. Sized(s)
  BY <1>1 DEF Sized, Recorded
<1>5. TruePause(s)
  BY <1>2, <1>3 DEF TruePause, Recorded
<1>6. Below(s) /\ (Withdrawn(s) => HealthEnabled(s))
  BY <1>3 DEF Below, Recorded, Withdrawn
<1> QED BY <1>3, <1>4, <1>5, <1>6 DEF Recorded

-----------------------------------------------------------------------------
(* Handlers *)

Closed(r) == r.state \in Terminal \cup {"rolling_back"}

\* WithdrawalIsFinal, said of one release.
Final(before, after) ==
    Closed(before) =>
        /\ \/ after.state = before.state
           \/ before.state = "rolling_back" /\ after.state = "rolled_back"
        /\ after.result = before.result
        /\ after.currentWave = before.currentWave
        /\ after.samples = before.samples
        /\ after.quarantined = before.quarantined

\* What a handler of release id does to the records of all releases.
Records(id) ==
    /\ Created' = Created
    /\ \A i \in Created : Sound(releases'[i]) /\ Final(releases[i], releases'[i])

LEMMA CommitRecords ==
    ASSUME RecordInv, NEW id \in Created, NEW x, Sound(x), Final(releases[id], x),
           Commit(id, x)
    PROVE  Records(id)
<1>1. releases' = [releases EXCEPT ![id] = x]
  BY DEF Commit
<1>2. Created' = Created /\ releases'[id] = x
  BY <1>1 DEF Created
<1>3. \A i \in Created \ {id} : releases'[i] = releases[i]
  BY <1>1 DEF Created
<1>4. \A i \in Created : Final(releases[i], releases[i])
  BY DEF Final
<1> QED BY <1>2, <1>3, <1>4 DEF Records, RecordInv

\* Evaluation settles a release that is not closed, and leaves a closed one alone.
LEMMA SettledSound ==
    ASSUME RecordInv, NEW id \in Created
    PROVE  LET r == EvaluateLocked(releases[id], now)
           IN  /\ r \in Release /\ Coherent(r) /\ Ordered(r) /\ Sound(r)
               /\ Closed(releases[id]) => r = releases[id]
               /\ releases[id] \in Release /\ Coherent(releases[id])
               /\ Ordered(releases[id]) /\ Sound(releases[id])
               /\ now \in Nat /\ now \in Int
<1>1. /\ releases[id] \in Release /\ Coherent(releases[id]) /\ Ordered(releases[id])
      /\ Sound(releases[id]) /\ now \in Nat /\ now \in Int
  BY NowType DEF RecordInv, ObservationInv, WaveInv, Inv, TypeOK
<1>2. Sound(EvaluateLocked(releases[id], now))
  BY <1>1, EvaluateLockedSound
<1>3. Closed(releases[id]) => EvaluateLocked(releases[id], now) = releases[id]
  BY DEF Closed, Terminal, EvaluateLocked, EvaluateTimeoutLocked, EvaluateHealthLocked
<1> QED BY <1>1, <1>2, <1>3, SettledWaves DEF RecordInv, ObservationInv

LEMMA TickTimeoutRecords ==
    ASSUME RecordInv, NEW id \in Created, TickTimeout(id)
    PROVE  Records(id)
<1> DEFINE r == EvaluateLocked(releases[id], now)
<1>1. Sound(r) /\ (Closed(releases[id]) => r = releases[id]) /\ Commit(id, r)
  BY SettledSound DEF TickTimeout
<1> HIDE DEF r
<1>2. Final(releases[id], r)
  BY <1>1 DEF Final
<1> QED BY <1>1, <1>2, CommitRecords

LEMMA PauseRecords ==
    ASSUME RecordInv, NEW id \in Created, Pause(id)
    PROVE  Records(id)
<1> DEFINE x == PauseLocked(releases[id], "manual")
<1>1. releases[id] \in Release /\ Sound(releases[id]) /\ releases[id].state = "active"
  BY SettledSound DEF Pause
<1>2. Sound(x) /\ Commit(id, x)
  BY <1>1, PauseLockedSound DEF Pause, Sound
<1> HIDE DEF x
<1>3. Final(releases[id], x)
  BY <1>1 DEF Final, Closed, Terminal
<1> QED BY <1>2, <1>3, CommitRecords

LEMMA ResumeRecords ==
    ASSUME RecordInv, NEW id \in Created, Resume(id)
    PROVE  Records(id)
<1> DEFINE r == releases[id]
           resumed == [r EXCEPT !.state = "active", !.pauseReason = "none",
                                !.waveOpenedAt = now]
           x == EvaluateHealthLocked(resumed, now)
<1>1. /\ r \in Release /\ Coherent(r) /\ Ordered(r) /\ Sound(r) /\ r.state = "paused"
      /\ now \in Nat /\ now \in Int
  BY SettledSound DEF Resume
<1>2. Evaluable(r) /\ ~Withdrawn(r)
  BY <1>1, CoherentEvaluable DEF Withdrawn
<1>3. Commit(id, x)
  BY DEF Resume
<1>4. Final(r, x)
  BY <1>1 DEF Final, Closed, Terminal
<1> HIDE DEF r
<1>5. resumed \in Release
  BY <1>1 DEF Release, ReleaseState, PauseReason
<1>6. /\ GateView(resumed) = GateView(r) /\ resumed.state = "active"
      /\ resumed.pauseReason = "none" /\ resumed.lastWave = r.lastWave
      /\ resumed.thresholdMetAt = r.thresholdMetAt
      /\ resumed.planned = r.planned /\ resumed.restored = r.restored
      /\ resumed.sent = r.sent /\ resumed.sentTo = r.sentTo
  BY <1>1 DEF GateView, Release
<1> HIDE DEF resumed
<1>7. Evaluable(resumed) /\ Ordered(resumed)
  BY <1>1, <1>2, <1>6, EvaluableFrame, OrderedFrame DEF Withdrawn
<1>8. Recorded(resumed) /\ Below(resumed)
  <2>1. NoticeCounts(resumed)
    BY <1>1, <1>6, IdleCounts DEF Sound, Recorded
  <2>2. Recorded(resumed)
    BY <1>1, <1>6, <2>1, RecordedFrame DEF Sound, Withdrawn
  <2>3. Below(resumed)
    BY <1>1, <1>6, GateFrame DEF Sound, Below
  <2> QED BY <2>2, <2>3
<1>9. Sound(x)
  BY <1>1, <1>5, <1>7, <1>8, EvaluateHealthLockedSound
<1> HIDE DEF x
<1> QED BY <1>3, <1>4, <1>9, CommitRecords DEF r

LEMMA CancelRecords ==
    ASSUME RecordInv, NEW id \in Created, Cancel(id)
    PROVE  Records(id)
<1> DEFINE r == releases[id]
           stopped == [r EXCEPT !.state = "cancelled", !.pauseReason = "none"]
           announced == Emit(stopped, "release.cancelled")
           cancelled == AbortCatchupLocked(announced)
           x == EmitTo(cancelled, "node.compensation", Succeeded(r))
<1>1. /\ r \in Release /\ Sound(r) /\ r.state \in {"active", "paused"}
  BY SettledSound DEF Cancel
<1>2. Commit(id, x)
  BY DEF Cancel
<1>3. Final(r, x)
  BY <1>1 DEF Final, Closed, Terminal
<1> HIDE DEF r
<1>4. stopped \in Release
  BY <1>1 DEF Release, ReleaseState, PauseReason
<1>5. /\ GateView(stopped) = GateView(r) /\ stopped.state = "cancelled"
      /\ stopped.pauseReason = "none" /\ stopped.lastWave = r.lastWave
      /\ stopped.planned = r.planned /\ stopped.restored = r.restored
      /\ stopped.sent = r.sent /\ stopped.sentTo = r.sentTo
  BY <1>1 DEF GateView, Release
<1> HIDE DEF stopped
<1>6. /\ announced \in Release /\ GateView(announced) = GateView(stopped)
      /\ RollbackView(announced) = RollbackView(stopped)
      /\ RecordView(announced) = RecordView(stopped)
      /\ Sends(stopped, announced, {"release.cancelled"})
      /\ SendsToNone(stopped, announced)
  BY <1>4, EmitFrame, EmitRecord DEF ReleaseNotice
<1> HIDE DEF announced
<1>7. /\ cancelled \in Release /\ GateView(cancelled) = GateView(announced)
      /\ RollbackView(cancelled) = RollbackView(announced)
      /\ RecordView(cancelled) = RecordView(announced)
      /\ Sends(announced, cancelled, {}) /\ SendsToNone(announced, cancelled)
  BY <1>6, AbortCatchupLockedFrame, AbortCatchupLockedRecord
<1> HIDE DEF cancelled
<1>8. /\ x \in Release /\ GateView(x) = GateView(cancelled)
      /\ RollbackView(x) = RollbackView(cancelled)
      /\ RecordView(x) = RecordView(cancelled)
      /\ Sends(cancelled, x, {})
      /\ SendsTo(cancelled, x, "node.compensation", Succeeded(r))
  BY <1>7, EmitToFrame, EmitToRecord DEF NodeNotice
<1> HIDE DEF x
<1>9. /\ GateView(x) = GateView(r) /\ x.state = "cancelled"
      /\ x.pauseReason = "none" /\ x.lastWave = r.lastWave
      /\ x.planned = r.planned /\ x.restored = r.restored
  BY <1>5, <1>6, <1>7, <1>8 DEF RollbackView, RecordView
<1>10. NoticeCounts(x)
  <2>1. ASSUME NEW k \in Counted
        PROVE  x.sent[k] = r.sent[k] + Once(k \in {"release.cancelled"})
    <3>1. /\ announced.sent[k] = r.sent[k] + Once(k \in {"release.cancelled"})
          /\ cancelled.sent[k] = announced.sent[k] + Once(k \in {})
          /\ x.sent[k] = cancelled.sent[k] + Once(k \in {})
      BY <1>5, <1>6, <1>7, <1>8 DEF Sends
    <3>2. announced.sent[k] \in Nat
      BY <1>6, CountTypes
    <3> QED BY <3>1, <3>2 DEF Once
  <2>2. /\ x.sent["release.created"] = r.sent["release.created"]
        /\ x.sent["wave.opened"] = r.sent["wave.opened"]
        /\ x.sent["release.cancelled"] = r.sent["release.cancelled"] + 1
        /\ x.sent["release.completed"] = r.sent["release.completed"]
        /\ x.sent["rollback.started"] = r.sent["rollback.started"]
        /\ x.sent["release.rolledback"] = r.sent["release.rolledback"]
    BY <1>1, <2>1, CountTypes DEF Counted, Once
  <2>3. NoticeCounts(r)
    BY <1>1 DEF Sound, Recorded
  <2>4. \A k \in NodeNotice, n \in Node :
            x.sentTo[k][n] =
                r.sentTo[k][n] + Once(k = "node.compensation" /\ n \in Succeeded(r))
    BY <1>5, <1>6, <1>7, <1>8 DEF SendsTo, SendsToNone
  <2>5. ASSUME NEW n \in Node
        PROVE  /\ x.sentTo["node.succeeded"][n] = r.sentTo["node.succeeded"][n]
               /\ x.sentTo["node.failed"][n] = r.sentTo["node.failed"][n]
               /\ x.sentTo["node.rollback"][n] = r.sentTo["node.rollback"][n]
               /\ x.sentTo["node.restored"][n] = r.sentTo["node.restored"][n]
               /\ x.sentTo["node.quarantined"][n] = r.sentTo["node.quarantined"][n]
    BY <1>1, <2>4, CountTypes DEF NodeNotice, Once
  <2>6. ASSUME NEW n \in Node
        PROVE  x.sentTo["node.compensation"][n] = Once(r.result[n] = "succeeded")
    <3>1. r.sentTo["node.compensation"][n] = 0
      BY <1>1, <2>3 DEF NoticeCounts, Once
    <3>2. x.sentTo["node.compensation"][n] = 0 + Once(n \in Succeeded(r))
      BY <2>4, <3>1 DEF NodeNotice
    <3> QED BY <3>2 DEF Succeeded, Once
  <2>7. /\ x.result = r.result /\ x.quarantined = r.quarantined
        /\ x.currentWave = r.currentWave
    BY <1>9 DEF GateView
  <2> QED BY <1>1, <1>9, <2>2, <2>3, <2>5, <2>6, <2>7 DEF NoticeCounts, Once, Withdrawn
<1>11. Recorded(x)
  BY <1>1, <1>9, <1>10, RecordedFrame DEF Sound, Withdrawn
<1>12. Sound(x)
  BY <1>9, <1>11 DEF Sound, Below, Met
<1> QED BY <1>2, <1>3, <1>12, CommitRecords DEF r

LEMMA AckFailedRecords ==
    ASSUME RecordInv, NEW id \in Created, NEW n \in Node, AckFailed(id, n)
    PROVE  Records(id)
<1> DEFINE r == EvaluateLocked(releases[id], now)
           marked == [r EXCEPT !.result[n] = "failed"]
           failed == EmitTo(marked, "node.failed", {n})
           tooMany == Cardinality(InWave(failed, r.currentWave, "failed"))
                          > r.input.maxFailures
           x == IF tooMany THEN PauseLocked(failed, "failure_threshold") ELSE failed
<1>1. /\ r \in Release /\ Sound(r) /\ (Closed(releases[id]) => r = releases[id])
  BY SettledSound
<1>2. ReceiptAccepted(r, n) /\ Commit(id, x)
  BY DEF AckFailed
<1> HIDE DEF r
<1>3. r.state = "active" /\ r.result[n] \notin {"succeeded", "failed"}
  BY <1>2 DEF ReceiptAccepted
<1>4. ~Closed(releases[id])
  BY <1>1, <1>3 DEF Closed, Terminal
<1>5. marked \in Release
  BY <1>1 DEF Release, NodeResult
<1>6. /\ marked.input = r.input /\ marked.wave = r.wave
      /\ marked.currentWave = r.currentWave /\ marked.lastWave = r.lastWave
      /\ marked.state = r.state /\ marked.pauseReason = r.pauseReason
      /\ marked.thresholdMetAt = r.thresholdMetAt
      /\ marked.planned = r.planned /\ marked.restored = r.restored
      /\ marked.quarantined = r.quarantined /\ marked.samples = r.samples
      /\ marked.sent = r.sent /\ marked.sentTo = r.sentTo
      /\ marked.result = [r.result EXCEPT ![n] = "failed"]
  BY <1>1 DEF Release
<1>7. /\ marked.result[n] = "failed"
      /\ \A m \in Node : m # n => marked.result[m] = r.result[m]
  BY <1>1, <1>6 DEF Release
<1> HIDE DEF marked
<1>8. /\ failed \in Release /\ GateView(failed) = GateView(marked)
      /\ RollbackView(failed) = RollbackView(marked)
      /\ RecordView(failed) = RecordView(marked)
      /\ Sends(marked, failed, {}) /\ SendsTo(marked, failed, "node.failed", {n})
  BY <1>5, EmitToFrame, EmitToRecord DEF NodeNotice
<1> HIDE DEF failed, tooMany
<1>9. /\ failed.input = r.input /\ failed.wave = r.wave
      /\ failed.currentWave = r.currentWave /\ failed.lastWave = r.lastWave
      /\ failed.state = r.state /\ failed.pauseReason = r.pauseReason
      /\ failed.thresholdMetAt = r.thresholdMetAt
      /\ failed.planned = r.planned /\ failed.restored = r.restored
      /\ failed.quarantined = r.quarantined /\ failed.result = marked.result
      /\ failed.samples = r.samples
      /\ Sends(r, failed, {}) /\ SendsTo(r, failed, "node.failed", {n})
  BY <1>6, <1>8 DEF GateView, RollbackView, RecordView, Sends, SendsTo
<1>10. Recorded(failed)
  BY <1>1, <1>3, <1>7, <1>8, <1>9, ResultRecorded DEF Sound
<1>11. ThresholdReached(failed) = ThresholdReached(r)
       /\ HealthEnabled(failed) = HealthEnabled(r)
  <2>1. WaveNodes(failed, r.currentWave) = WaveNodes(r, r.currentWave)
    BY <1>9 DEF WaveNodes
  <2>2. InWave(failed, r.currentWave, "succeeded") = InWave(r, r.currentWave, "succeeded")
    BY <1>3, <1>7, <1>9, <2>1 DEF InWave, WaveNodes
  <2> QED BY <1>9, <2>1, <2>2 DEF ThresholdReached, ThresholdReachedIn, HealthEnabled
<1>12. Below(failed) /\ Met(failed)
  BY <1>1, <1>9, <1>11 DEF Sound, Below, Met
<1>13. Sound(x)
  <2>1. CASE tooMany
    <3>1. Cardinality(InWave(failed, failed.currentWave, "failed"))
              > failed.input.maxFailures
      BY <1>9, <2>1 DEF tooMany
    <3> QED BY <1>3, <1>8, <1>9, <1>10, <1>12, <2>1, <3>1, PauseLockedSound
  <2>2. CASE ~tooMany
    BY <1>10, <1>12, <2>2 DEF Sound
  <2> QED BY <2>1, <2>2
<1> HIDE DEF x
<1>14. Final(releases[id], x)
  BY <1>4 DEF Final
<1> QED BY <1>2, <1>13, <1>14, CommitRecords

LEMMA AckSucceededRecords ==
    ASSUME RecordInv, NEW id \in Created, NEW n \in Node, AckSucceeded(id, n)
    PROVE  Records(id)
<1> DEFINE r == EvaluateLocked(releases[id], now)
           d == nodes[n].digest
           result == [r.result EXCEPT ![n] = "succeeded"]
           prev == [r.prev EXCEPT ![n] = d]
           marked == [r EXCEPT !.result = result, !.prev = prev]
           s == EmitTo(marked, "node.succeeded", {n})
           others == AbortSupersededCatchupLocked(id, n)
           x == AfterSuccess(s)
<1>1. /\ r \in Release /\ Coherent(r) /\ Ordered(r) /\ Sound(r)
      /\ Closed(releases[id]) => r = releases[id]
      /\ now \in Nat /\ now \in Int
  BY SettledSound
<1>2. ReceiptAccepted(r, n) /\ releases' = [others EXCEPT ![id] = x]
  BY DEF AckSucceeded
<1>3. d \in Digest \cup {NoDigest}
  BY DEF RecordInv, ObservationInv, WaveInv, Inv, TypeOK, NodeState
<1> HIDE DEF r, d
<1>4. /\ r.state = "active" /\ r.result[n] \notin {"succeeded", "failed"}
      /\ r.wave[n] = r.currentWave
  BY <1>2 DEF ReceiptAccepted
<1>5. ~Closed(releases[id])
  BY <1>1, <1>4 DEF Closed, Terminal
<1>6. s \in Release /\ Evaluable(s) /\ s.state = "active"
  <2>1. s = EmitTo([r EXCEPT !.result[n] = "succeeded", !.prev[n] = d],
                   "node.succeeded", {n})
    OBVIOUS
  <2> HIDE DEF s
  <2> QED BY <1>1, <1>3, <1>4, <2>1, SuccessEvaluable
<1>7. /\ result \in [Node -> NodeResult] /\ prev \in [Node -> Digest \cup {NoDigest}]
      /\ result[n] = "succeeded" /\ \A m \in Node : m # n => result[m] = r.result[m]
  BY <1>1, <1>3 DEF Release, NodeResult
<1> HIDE DEF result, prev
<1>8. marked \in Release
  BY <1>1, <1>7 DEF Release
<1>9. /\ marked.input = r.input /\ marked.wave = r.wave
      /\ marked.currentWave = r.currentWave /\ marked.lastWave = r.lastWave
      /\ marked.state = r.state /\ marked.pauseReason = r.pauseReason
      /\ marked.planned = r.planned /\ marked.restored = r.restored
      /\ marked.quarantined = r.quarantined /\ marked.result = result
      /\ marked.samples = r.samples
      /\ marked.sent = r.sent /\ marked.sentTo = r.sentTo
  BY <1>1 DEF Release
<1> HIDE DEF marked
<1>10. Ordered(marked) /\ LifeView(marked) = LifeView(r)
  BY <1>1, <1>4, <1>7, <1>9, ResultOrdered DEF LifeView
<1>11. /\ GateView(s) = GateView(marked) /\ LifeView(s) = LifeView(marked)
       /\ RollbackView(s) = RollbackView(marked) /\ RecordView(s) = RecordView(marked)
       /\ Sends(marked, s, {}) /\ SendsTo(marked, s, "node.succeeded", {n})
  BY <1>8, EmitToFrame, EmitToLife, EmitToRecord DEF NodeNotice
<1> HIDE DEF s
<1>12. Ordered(s)
  BY <1>10, <1>11, ViewsOrdered
<1>13. /\ s.input = r.input /\ s.wave = r.wave
       /\ s.currentWave = r.currentWave /\ s.lastWave = r.lastWave
       /\ s.state = r.state /\ s.pauseReason = r.pauseReason
       /\ s.planned = r.planned /\ s.restored = r.restored
       /\ s.quarantined = r.quarantined /\ s.result = result
       /\ s.samples = r.samples
       /\ Sends(r, s, {}) /\ SendsTo(r, s, "node.succeeded", {n})
  BY <1>9, <1>11 DEF GateView, RollbackView, RecordView, Sends, SendsTo
<1>14. Recorded(s)
  BY <1>1, <1>4, <1>6, <1>7, <1>13, ResultRecorded DEF Sound
<1>15. Sound(x)
  BY <1>1, <1>6, <1>12, <1>14, AfterSuccessSound
<1> HIDE DEF x
<1>16. ASSUME NEW i \in Created
       PROVE  Sound(others[i]) /\ Final(releases[i], others[i])
  <2>1. releases[i] \in Release /\ Sound(releases[i])
    BY SettledSound
  <2>2. LET a == AbortCatchupLocked(releases[i])
        IN  Sound(a) /\ Final(releases[i], a)
    <3> DEFINE a == AbortCatchupLocked(releases[i])
    <3>1. /\ GateView(a) = GateView(releases[i])
          /\ RollbackView(a) = RollbackView(releases[i])
          /\ RecordView(a) = RecordView(releases[i])
          /\ Sends(releases[i], a, {}) /\ SendsToNone(releases[i], a)
      BY <2>1, AbortCatchupLockedFrame, AbortCatchupLockedRecord
    <3> HIDE DEF a
    <3>2. Sound(a)
      BY <2>1, <3>1, SoundFrame
    <3>3. Final(releases[i], a)
      BY <3>1 DEF Final, GateView, RollbackView
    <3> QED BY <3>2, <3>3 DEF a
  <2>3. others[i] \in {releases[i], AbortCatchupLocked(releases[i])}
    BY DEF AbortSupersededCatchupLocked
  <2> QED BY <2>1, <2>2, <2>3 DEF Final
<1>17. DOMAIN others = Created
  BY DEF AbortSupersededCatchupLocked
<1> HIDE DEF others
<1>18. /\ Created' = Created /\ releases'[id] = x
       /\ \A i \in Created \ {id} : releases'[i] = others[i]
  BY <1>2, <1>17 DEF Created
<1>19. Final(releases[id], x)
  BY <1>5 DEF Final
<1> QED BY <1>15, <1>16, <1>18, <1>19 DEF Records

LEMMA AckReceiptRecords ==
    ASSUME RecordInv, NEW id \in Created, NEW n \in Node, AckReceipt(id, n)
    PROVE  Records(id)
BY TickTimeoutRecords, AckFailedRecords, AckSucceededRecords DEF AckReceipt, AckIgnored

LEMMA ReportHealthRecords ==
    ASSUME RecordInv, NEW id \in Created, NEW n \in Node, NEW event \in SampleId,
           NEW healthy \in BOOLEAN, ReportHealth(id, n, event, healthy)
    PROVE  Records(id)
<1> DEFINE r == releases[id]
           sample == [id |-> event, node |-> n, healthy |-> healthy,
                      receivedAt |-> IF KeepReceivedAt THEN now ELSE 0]
           reported == [r EXCEPT !.samples = @ \cup {sample}]
           x == EvaluateHealthLocked(reported, now)
<1>1. /\ r \in Release /\ Coherent(r) /\ Ordered(r) /\ Sound(r)
      /\ now \in Nat /\ now \in Int /\ r.state \in {"active", "paused"}
  BY SettledSound DEF ReportHealth
<1>2. Evaluable(r) /\ ~Withdrawn(r)
  BY <1>1, CoherentEvaluable DEF Withdrawn
<1>3. Commit(id, x)
  BY DEF ReportHealth
<1>4. sample \in Sample
  BY <1>1 DEF Sample
<1>5. Final(r, x)
  BY <1>1 DEF Final, Closed, Terminal
<1> HIDE DEF r, sample
<1>6. reported \in Release
  BY <1>1, <1>4 DEF Release
<1>7. /\ reported.input = r.input /\ reported.wave = r.wave
      /\ reported.currentWave = r.currentWave /\ reported.result = r.result
      /\ reported.thresholdMetAt = r.thresholdMetAt /\ reported.state = r.state
      /\ reported.pauseReason = r.pauseReason
      /\ reported.planned = r.planned /\ reported.restored = r.restored
      /\ reported.lastWave = r.lastWave /\ reported.quarantined = r.quarantined
      /\ reported.sent = r.sent /\ reported.sentTo = r.sentTo
      /\ reported.samples = r.samples \cup {sample}
  BY <1>1 DEF Release
<1> HIDE DEF reported
<1>8. Evaluable(reported) /\ Ordered(reported)
  BY <1>1, <1>2, <1>7, EvidenceEvaluable, EvidenceOrdered DEF Ordered
<1>9. Recorded(reported) /\ Below(reported)
  <2>1. NoticeCounts(reported)
    BY <1>1, <1>7 DEF Sound, Recorded, NoticeCounts, Withdrawn
  <2>2. IsFiniteSet(reported.samples)
    <3>1. IsFiniteSet(r.samples)
      BY <1>1 DEF Sound, Recorded, Sized
    <3> QED BY <1>7, <3>1, FS_AddElement
  <2> QED BY <1>1, <1>7, <2>1, <2>2, EvidenceRecorded DEF Sound
<1>10. Sound(x)
  BY <1>1, <1>6, <1>8, <1>9, EvaluateHealthLockedSound
<1> HIDE DEF x
<1> QED BY <1>3, <1>5, <1>10, CommitRecords DEF r

LEMMA QuarantineNodeRecords ==
    ASSUME RecordInv, NEW id \in Created, NEW n \in Node, QuarantineNode(id, n)
    PROVE  Records(id)
<1> DEFINE r == EvaluateLocked(releases[id], now)
           marked == [r EXCEPT !.quarantined = @ \cup {n}]
           s == EmitTo(marked, "node.quarantined", {n})
           x == EvaluateHealthLocked(s, now)
<1>1. /\ r \in Release /\ Coherent(r) /\ Ordered(r) /\ Sound(r)
      /\ Closed(releases[id]) => r = releases[id]
      /\ now \in Nat /\ now \in Int
  BY SettledSound
<1>2. /\ Commit(id, x) /\ r.state \in {"active", "paused"}
      /\ n \in InWave(r, r.currentWave, "succeeded") /\ n \notin r.quarantined
  BY DEF QuarantineNode
<1> HIDE DEF r
<1>3. Evaluable(r) /\ ~Withdrawn(r) /\ ~Closed(releases[id])
  BY <1>1, <1>2, CoherentEvaluable DEF Withdrawn, Closed, Terminal
<1>4. marked \in Release
  BY <1>1 DEF Release
<1>5. /\ marked.input = r.input /\ marked.wave = r.wave
      /\ marked.currentWave = r.currentWave /\ marked.result = r.result
      /\ marked.thresholdMetAt = r.thresholdMetAt /\ marked.state = r.state
      /\ marked.pauseReason = r.pauseReason
      /\ marked.planned = r.planned /\ marked.restored = r.restored
      /\ marked.lastWave = r.lastWave /\ marked.quarantined = r.quarantined \cup {n}
      /\ marked.samples = r.samples
      /\ marked.sent = r.sent /\ marked.sentTo = r.sentTo
  BY <1>1 DEF Release
<1> HIDE DEF marked
<1>6. /\ s \in Release /\ GateView(s) = GateView(marked)
      /\ RollbackView(s) = RollbackView(marked) /\ RecordView(s) = RecordView(marked)
      /\ Sends(marked, s, {}) /\ SendsTo(marked, s, "node.quarantined", {n})
  BY <1>4, EmitToFrame, EmitToRecord DEF NodeNotice
<1> HIDE DEF s
<1>7. /\ s.input = r.input /\ s.wave = r.wave
      /\ s.currentWave = r.currentWave /\ s.result = r.result
      /\ s.thresholdMetAt = r.thresholdMetAt /\ s.state = r.state
      /\ s.pauseReason = r.pauseReason
      /\ s.planned = r.planned /\ s.restored = r.restored
      /\ s.lastWave = r.lastWave /\ s.quarantined = r.quarantined \cup {n}
      /\ s.samples = r.samples
      /\ Sends(r, s, {}) /\ SendsTo(r, s, "node.quarantined", {n})
  BY <1>5, <1>6 DEF GateView, RollbackView, RecordView, Sends, SendsTo
<1>8. n \in Succeeded(r)
  BY <1>2 DEF InWave, WaveNodes, Succeeded
<1>9. Evaluable(s) /\ Ordered(s)
  BY <1>1, <1>3, <1>7, <1>8, EvidenceEvaluable, EvidenceOrdered DEF Ordered
<1>10. NoticeCounts(s)
  <2>1. NoticeCounts(r)
    BY <1>1 DEF Sound, Recorded
  <2>2. \A k \in Counted : s.sent[k] = r.sent[k]
    BY <1>1, <1>7, CountTypes DEF Sends, Once
  <2>3. ASSUME NEW m \in Node
        PROVE  s.sentTo["node.quarantined"][m] = Once(m \in s.quarantined)
    <3>1. r.sentTo["node.quarantined"][m] = Once(m \in r.quarantined)
      BY <2>1 DEF NoticeCounts
    <3>2. s.sentTo["node.quarantined"][m] =
              r.sentTo["node.quarantined"][m] + Once(m = n)
      BY <1>7 DEF SendsTo, NodeNotice, Once
    <3> QED BY <1>2, <1>7, <3>1, <3>2 DEF Once
  <2>4. ASSUME NEW m \in Node
        PROVE  /\ s.sentTo["node.succeeded"][m] = r.sentTo["node.succeeded"][m]
               /\ s.sentTo["node.failed"][m] = r.sentTo["node.failed"][m]
               /\ s.sentTo["node.compensation"][m] = r.sentTo["node.compensation"][m]
               /\ s.sentTo["node.rollback"][m] = r.sentTo["node.rollback"][m]
               /\ s.sentTo["node.restored"][m] = r.sentTo["node.restored"][m]
    BY <1>1, <1>7, CountTypes DEF SendsTo, NodeNotice, Once
  <2> QED BY <1>7, <2>1, <2>2, <2>3, <2>4 DEF NoticeCounts, Counted, Withdrawn
<1>11. Recorded(s) /\ Below(s)
  <2>1. IsFiniteSet(s.samples)
    BY <1>1, <1>7 DEF Sound, Recorded, Sized
  <2> QED BY <1>1, <1>7, <1>10, <2>1, EvidenceRecorded DEF Sound
<1>12. Sound(x)
  BY <1>1, <1>6, <1>9, <1>11, EvaluateHealthLockedSound
<1> HIDE DEF x
<1>13. Final(releases[id], x)
  BY <1>3 DEF Final
<1> QED BY <1>2, <1>12, <1>13, CommitRecords

LEMMA ConfirmRollbackRecords ==
    ASSUME RecordInv, NEW id \in Created, NEW n \in Node, ConfirmRollback(id, n)
    PROVE  Records(id)
<1> DEFINE r == releases[id]
           marked == [r EXCEPT !.restored = @ \cup {n}]
           confirmed == EmitTo(marked, "node.restored", {n})
           done == [confirmed EXCEPT !.state = "rolled_back"]
           ended == Emit(done, "release.rolledback")
           x == IF confirmed.restored = confirmed.planned
                THEN CompleteRollbackLocked(confirmed) ELSE confirmed
<1>1. /\ r \in Release /\ Sound(r) /\ r.state = "rolling_back" /\ Commit(id, x)
      /\ n \notin r.restored
  BY SettledSound DEF ConfirmRollback
<1> HIDE DEF r
<1>2. marked \in Release
  <2>1. r.restored \cup {n} \in SUBSET Node
    BY <1>1 DEF Release
  <2> QED BY <1>1, <2>1 DEF Release
<1>3. /\ GateView(marked) = GateView(r) /\ marked.state = r.state
      /\ marked.pauseReason = r.pauseReason /\ marked.lastWave = r.lastWave
      /\ marked.planned = r.planned /\ marked.restored = r.restored \cup {n}
      /\ marked.sent = r.sent /\ marked.sentTo = r.sentTo
  BY <1>1 DEF GateView, Release
<1> HIDE DEF marked
<1>4. /\ confirmed \in Release /\ GateView(confirmed) = GateView(marked)
      /\ RollbackView(confirmed) = RollbackView(marked)
      /\ RecordView(confirmed) = RecordView(marked)
      /\ Sends(marked, confirmed, {}) /\ SendsTo(marked, confirmed, "node.restored", {n})
  BY <1>2, EmitToFrame, EmitToRecord DEF NodeNotice
<1>5. x = ended \/ x = confirmed
  BY DEF CompleteRollbackLocked
<1> HIDE DEF confirmed, x
<1>6. /\ GateView(confirmed) = GateView(r) /\ confirmed.state = "rolling_back"
      /\ confirmed.pauseReason = "none" /\ confirmed.lastWave = r.lastWave
      /\ confirmed.planned = r.planned /\ confirmed.restored = r.restored \cup {n}
      /\ Sends(r, confirmed, {}) /\ SendsTo(r, confirmed, "node.restored", {n})
  <2>1. r.pauseReason = "none"
    BY <1>1 DEF Sound, Recorded, TruePause
  <2> QED BY <1>1, <1>3, <1>4, <2>1 DEF RollbackView, RecordView, Sends, SendsTo
<1>7. NoticeCounts(confirmed)
  <2>1. NoticeCounts(r)
    BY <1>1 DEF Sound, Recorded
  <2>2. \A k \in Counted : confirmed.sent[k] = r.sent[k]
    BY <1>1, <1>6, CountTypes DEF Sends, Once
  <2>3. ASSUME NEW m \in Node
        PROVE  confirmed.sentTo["node.restored"][m] = Once(m \in confirmed.restored)
    <3>1. r.sentTo["node.restored"][m] = Once(m \in r.restored)
      BY <2>1 DEF NoticeCounts
    <3>2. confirmed.sentTo["node.restored"][m] =
              r.sentTo["node.restored"][m] + Once(m = n)
      BY <1>6 DEF SendsTo, NodeNotice, Once
    <3> QED BY <1>1, <1>6, <3>1, <3>2 DEF Once
  <2>4. ASSUME NEW m \in Node
        PROVE  \A k \in NodeNotice \ {"node.restored"} :
                   confirmed.sentTo[k][m] = r.sentTo[k][m]
    BY <1>1, <1>6, CountTypes DEF SendsTo, Once
  <2>5. ASSUME NEW m \in Node
        PROVE  /\ confirmed.sentTo["node.succeeded"][m] = r.sentTo["node.succeeded"][m]
               /\ confirmed.sentTo["node.failed"][m] = r.sentTo["node.failed"][m]
               /\ confirmed.sentTo["node.compensation"][m] =
                      r.sentTo["node.compensation"][m]
               /\ confirmed.sentTo["node.rollback"][m] = r.sentTo["node.rollback"][m]
               /\ confirmed.sentTo["node.quarantined"][m] =
                      r.sentTo["node.quarantined"][m]
    BY <2>4 DEF NodeNotice
  <2>6. /\ confirmed.result = r.result /\ confirmed.quarantined = r.quarantined
        /\ confirmed.currentWave = r.currentWave
    BY <1>6 DEF GateView
  <2> QED BY <1>1, <1>6, <2>1, <2>2, <2>3, <2>5, <2>6
          DEF NoticeCounts, Counted, Withdrawn
<1>8. HealthEnabled(r)
  BY <1>1 DEF Sound, Recorded, Withdrawn
<1>9. Sound(confirmed)
  <2>1. Recorded(confirmed)
    BY <1>1, <1>6, <1>7, <1>8, RecordedFrame DEF Sound
  <2> QED BY <1>6, <2>1 DEF Sound, Below, Met
<1>10. /\ done \in Release /\ GateView(done) = GateView(confirmed)
       /\ done.state = "rolled_back" /\ done.pauseReason = confirmed.pauseReason
       /\ done.lastWave = confirmed.lastWave /\ done.planned = confirmed.planned
       /\ done.restored = confirmed.restored
       /\ done.sent = confirmed.sent /\ done.sentTo = confirmed.sentTo
  BY <1>4 DEF GateView, Release, ReleaseState
<1> HIDE DEF done
<1>11. /\ GateView(ended) = GateView(done) /\ RollbackView(ended) = RollbackView(done)
       /\ RecordView(ended) = RecordView(done) /\ SendsToNone(done, ended)
       /\ Sends(done, ended, {"release.rolledback"})
  BY <1>10, EmitFrame, EmitRecord DEF ReleaseNotice
<1> HIDE DEF ended
<1>12. /\ GateView(ended) = GateView(confirmed) /\ ended.state = "rolled_back"
       /\ ended.pauseReason = "none" /\ ended.lastWave = confirmed.lastWave
       /\ ended.planned = confirmed.planned /\ ended.restored = confirmed.restored
  BY <1>6, <1>10, <1>11 DEF RollbackView, RecordView
<1>13. NoticeCounts(ended)
  <2>1. /\ ended.sent["release.created"] = confirmed.sent["release.created"]
        /\ ended.sent["wave.opened"] = confirmed.sent["wave.opened"]
        /\ ended.sent["release.cancelled"] = confirmed.sent["release.cancelled"]
        /\ ended.sent["release.completed"] = confirmed.sent["release.completed"]
        /\ ended.sent["rollback.started"] = confirmed.sent["rollback.started"]
        /\ ended.sent["release.rolledback"] = confirmed.sent["release.rolledback"] + 1
    BY <1>4, <1>10, <1>11, CountTypes DEF Sends, Counted, Once
  <2>2. ended.sentTo = confirmed.sentTo
    BY <1>10, <1>11 DEF SendsToNone
  <2>3. /\ ended.result = confirmed.result /\ ended.quarantined = confirmed.quarantined
        /\ ended.currentWave = confirmed.currentWave
    BY <1>12 DEF GateView
  <2> QED BY <1>6, <1>7, <1>12, <2>1, <2>2, <2>3 DEF NoticeCounts, Withdrawn, Once
<1>14. Sound(ended)
  <2>1. HealthEnabled(confirmed) = HealthEnabled(r)
    BY <1>6, GateFrame
  <2>2. Recorded(ended)
    BY <1>8, <1>9, <1>12, <1>13, <2>1, RecordedFrame DEF Sound
  <2> QED BY <1>12, <2>2 DEF Sound, Below, Met
<1>15. Sound(x)
  BY <1>5, <1>9, <1>14
<1>16. Final(r, x)
  BY <1>1, <1>5, <1>6, <1>12 DEF Final, GateView
<1> QED BY <1>1, <1>15, <1>16, CommitRecords DEF r

-----------------------------------------------------------------------------
(* The other steps, and the theorems *)

LEMMA CreateReleaseRecords ==
    ASSUME RecordInv, NEW id \in ReleaseId, NEW in \in Inputs, CreateRelease(id, in)
    PROVE  /\ \A i \in Created' : Sound(releases'[i])
           /\ \A i \in Created : Final(releases[i], releases'[i])
<1> DEFINE new == NewRelease(nextSeq + 1, in, now)
<1>1. /\ in \in Input /\ ValidInput(in) /\ nextSeq + 1 \in Nat /\ id \notin Created
      /\ now \in Int
  BY InputsAssumption, NowType
     DEF CreateRelease, RecordInv, ObservationInv, WaveInv, Inv, TypeOK
<1>2. Sound(new)
  BY <1>1, NewReleaseSound
<1>3. releases' = [i \in Created \cup {id} |-> IF i = id THEN new ELSE releases[i]]
  BY DEF CreateRelease
<1> HIDE DEF new
<1>4. \A i \in Created' : Sound(releases'[i])
  BY <1>2, <1>3 DEF RecordInv, Created
<1>5. \A i \in Created : releases'[i] = releases[i]
  BY <1>1, <1>3
<1> QED BY <1>4, <1>5 DEF Final

\* A restart forgets which maps were empty, which is no part of the record.
LEMMA RestartRecords ==
    ASSUME RecordInv, Restart
    PROVE  /\ \A i \in Created' : Sound(releases'[i])
           /\ \A i \in Created : Final(releases[i], releases'[i])
<1>1. releases' = [i \in Created |-> Reloaded(releases[i])]
  BY DEF Restart
<1>2. ASSUME NEW r \in Release, Sound(r)
      PROVE  Sound(Reloaded(r)) /\ Final(r, Reloaded(r))
  <2> DEFINE s == Reloaded(r)
  <2>1. /\ GateView(s) = GateView(r) /\ RollbackView(s) = RollbackView(r)
        /\ RecordView(s) = RecordView(r) /\ s.sent = r.sent /\ s.sentTo = r.sentTo
    BY DEF Reloaded, GateView, RollbackView, RecordView, Release
  <2> HIDE DEF s
  <2>2. Sends(r, s, {}) /\ SendsToNone(r, s)
    BY <2>1, CountTypes DEF Sends, SendsToNone, Once
  <2>3. Sound(s)
    BY <1>2, <2>1, <2>2, SoundFrame
  <2>4. Final(r, s)
    BY <2>1 DEF Final, GateView, RollbackView
  <2> QED BY <2>3, <2>4 DEF s
<1>3. \A i \in Created : releases[i] \in Release /\ Sound(releases[i])
  BY SettledSound
<1>4. Created' = Created
  BY <1>1 DEF Created
<1> QED BY <1>1, <1>2, <1>3, <1>4

LEMMA StepRecords ==
    ASSUME RecordInv, [Next]_vars
    PROVE  /\ \A i \in Created' : Sound(releases'[i])
           /\ \A i \in Created : Final(releases[i], releases'[i])
<1> DEFINE Recordings == /\ \A i \in Created' : Sound(releases'[i])
                         /\ \A i \in Created : Final(releases[i], releases'[i])
<1>1. ASSUME NEW id, Records(id) PROVE Recordings
  BY <1>1 DEF Records
<1>2. ASSUME UNCHANGED vars \/ ClockTick PROVE Recordings
  BY <1>2 DEF vars, ClockTick, Created, RecordInv, Final
<1> HIDE DEF Recordings
<1>3. ASSUME NEW id \in Created,
             TickTimeout(id) \/ Pause(id) \/ Resume(id) \/ Cancel(id)
      PROVE  Recordings
  BY <1>1, <1>3, TickTimeoutRecords, PauseRecords, ResumeRecords, CancelRecords
<1>4. ASSUME NEW id \in Created, NEW n \in Node,
             \/ AckReceipt(id, n) \/ QuarantineNode(id, n)
             \/ QuarantineAgain(id, n) \/ ConfirmRollback(id, n)
      PROVE  Recordings
  BY <1>1, <1>4, AckReceiptRecords, QuarantineNodeRecords, TickTimeoutRecords,
     ConfirmRollbackRecords DEF QuarantineAgain
<1>5. ASSUME NEW id \in Created, NEW n \in Node, NEW event \in SampleId,
             NEW healthy \in BOOLEAN, ReportHealth(id, n, event, healthy)
      PROVE  Recordings
  BY <1>1, <1>5, ReportHealthRecords
<1>6. ASSUME Restart PROVE Recordings
  BY <1>6, RestartRecords DEF Recordings
<1>7. ASSUME NEW id \in ReleaseId, NEW in \in Inputs, CreateRelease(id, in)
      PROVE  Recordings
  BY <1>7, CreateReleaseRecords DEF Recordings
<1>8. Recordings
  BY <1>2, <1>3, <1>4, <1>5, <1>6, <1>7 DEF Next
<1> QED BY <1>8 DEF Recordings

LEMMA InitRecordInv == Init => RecordInv
BY InitInv DEF Init, WaveInv, ObservationInv, RecordInv, Created

LEMMA NextRecordInv == RecordInv /\ [Next]_vars => RecordInv'
BY StepRecords, NextObservationInv DEF RecordInv

\* For any constants: a release with health observation that is at its threshold has
\* started its window, whichever handler brought it there and even if it was paused
\* when its last success came.
THEOREM WindowsStart == Spec => []ThresholdStartsWindow
<1>1. RecordInv => ThresholdStartsWindow
  BY DEF RecordInv, Sound, Met, ThresholdStartsWindow
<1> QED BY <1>1, InitRecordInv, NextRecordInv, PTL DEF Spec

\* For any constants: while a release is paused, the reason it gives is true of it.
THEOREM PausesTruthful == Spec => []PauseReasonTruthful
<1>1. RecordInv => PauseReasonTruthful
  BY DEF RecordInv, Sound, Recorded, TruePause, PauseReasonTruthful
<1> QED BY <1>1, InitRecordInv, NextRecordInv, PTL DEF Spec

\* For any constants: whatever is replayed, repeated or evaluated again, a notice is
\* written once when its cause holds and not at all when it does not.
THEOREM NoticesOnce == Spec => []NoticesExactlyOnce
<1>1. RecordInv => NoticesExactlyOnce
  BY DEF RecordInv, Sound, Recorded, NoticesExactlyOnce
<1> QED BY <1>1, InitRecordInv, NextRecordInv, PTL DEF Spec

\* For any constants: a closed release keeps its wave, its results and its evidence,
\* and of the closed states only a rollback has a next one.
THEOREM ClosedForever == Spec => WithdrawalIsFinal
<1> DEFINE A == \A id \in Created : Final(releases[id], releases'[id])
<1>1. RecordInv /\ [Next]_vars => [A]_vars
  BY StepRecords
<1> HIDE DEF A
<1>2. Spec => [][A]_vars
  BY <1>1, InitRecordInv, NextRecordInv, PTL DEF Spec
<1> QED BY <1>2 DEF WithdrawalIsFinal, A, Final, Closed

-----------------------------------------------------------------------------
(* The queries *)

\* An observing release is one whose observation is still going on.
Observing(r) == r.state = "active" /\ HealthEnabled(r) /\ r.thresholdMetAt # NotMet

\* A release is at rest when evaluating it again would change nothing.
AtRest(r) ==
    /\ EvaluateLocked(r, now) = r
    /\ Observing(r) => ~ObservationPassed(r, now)

\* An active release within its time, whose gate has nothing to decide.
LEMMA IdleAtRest ==
    ASSUME NEW r, r.state = "active",
           \/ ~(now - r.waveOpenedAt > r.input.waveTimeout)
           \/ ThresholdReached(r),
           \/ ~HealthEnabled(r)
           \/ r.thresholdMetAt = NotMet /\ ~ThresholdReached(r)
    PROVE  AtRest(r)
<1>1. EvaluateTimeoutLocked(r, now) = r
  BY DEF EvaluateTimeoutLocked
<1>2. EvaluateHealthLocked(r, now) = r
  BY DEF EvaluateHealthLocked
<1>3. Observing(r) => FALSE
  <2>1. SUFFICES ASSUME Observing(r) PROVE r.thresholdMetAt = NotMet
    BY DEF Observing
  <2> QED BY <2>1 DEF Observing
<1> QED BY <1>1, <1>2, <1>3 DEF AtRest, EvaluateLocked

LEMMA SettledAtRest ==
    ASSUME NEW r \in Release, Coherent(r), Ordered(r), Sound(r), now \in Nat, now \in Int
    PROVE  AtRest(EvaluateLocked(r, now))
<1> DEFINE s == EvaluateLocked(r, now)
           t == EvaluateTimeoutLocked(r, now)
           o == Observe(r, now)
<1>1. s = EvaluateHealthLocked(t, now) /\ s \in Release
  BY EvaluateLockedType DEF EvaluateLocked
<1>2. CASE s.state # "active"
  <2> HIDE DEF s
  <2>1. EvaluateLocked(s, now) = s
    BY <1>2 DEF EvaluateLocked, EvaluateTimeoutLocked, EvaluateHealthLocked
  <2> QED BY <1>2, <2>1 DEF AtRest, Observing, s
<1>3. CASE s.state = "active"
  <2>1. t = r /\ r.state = "active"
    <3>1. CASE t # r
      <4>1. t = PauseLocked(r, "timeout")
        BY <3>1 DEF EvaluateTimeoutLocked
      <4>2. t.state = "paused"
        BY <4>1 DEF PauseLocked, Release
      <4>3. s = t
        BY <1>1, <4>2 DEF EvaluateHealthLocked
      <4> QED BY <1>3, <4>2, <4>3
    <3>2. CASE t = r
      <4>1. r.state # "active" => s = r
        BY <1>1, <3>2 DEF EvaluateHealthLocked
      <4> QED BY <1>3, <3>2, <4>1
    <3> QED BY <3>1, <3>2
  <2>2. ~(now - r.waveOpenedAt > r.input.waveTimeout) \/ ThresholdReached(r)
    <3>1. t # r \/ ~(now - r.waveOpenedAt > r.input.waveTimeout) \/ ThresholdReached(r)
      <4>1. SUFFICES ASSUME now - r.waveOpenedAt > r.input.waveTimeout,
                            ~ThresholdReached(r)
                     PROVE  t # r
        OBVIOUS
      <4>2. t = PauseLocked(r, "timeout")
        BY <2>1, <4>1 DEF EvaluateTimeoutLocked
      <4>3. t.state = "paused"
        BY <4>2 DEF PauseLocked, Release
      <4> QED BY <2>1, <4>3
    <3> QED BY <2>1, <3>1
  <2>3. CASE ~HealthEnabled(r) \/ (r.thresholdMetAt = NotMet /\ ~ThresholdReached(r))
    <3>1. s = r
      BY <1>1, <2>1, <2>3 DEF EvaluateHealthLocked
    <3> QED BY <2>1, <2>2, <2>3, <3>1, IdleAtRest
  <2>4. CASE HealthEnabled(r) /\ (r.thresholdMetAt # NotMet \/ ThresholdReached(r))
    <3>1. s = IF Breach(o) # "none" THEN StartRollbackLocked(o, Breach(o))
              ELSE IF ObservationPassed(o, now) THEN AdvanceWaveLocked(o, now)
              ELSE o
      BY <1>1, <2>1, <2>4 DEF EvaluateHealthLocked
    <3>2. /\ o \in Release /\ GateView(o) = GateView(r) /\ LifeView(o) = LifeView(r)
          /\ o.pauseReason = r.pauseReason /\ o.thresholdMetAt # NotMet
          /\ o.planned = r.planned /\ o.restored = r.restored
          /\ o.sent = r.sent /\ o.sentTo = r.sentTo
          /\ o.waveOpenedAt = r.waveOpenedAt
      <4> DEFINE met == IF r.thresholdMetAt = NotMet THEN now ELSE r.thresholdMetAt
      <4>1. o = [r EXCEPT !.thresholdMetAt = met]
        BY DEF Observe
      <4>2. met # NotMet
        BY DEF NotMet
      <4> HIDE DEF met
      <4>3. o \in Release
        BY ObserveType
      <4> QED BY <4>1, <4>2, <4>3 DEF GateView, LifeView, Release
    <3>3. Observe(o, now) = o
      BY <3>2 DEF Observe, Release
    <3> HIDE DEF o, s
    <3>4. o.state = "active" /\ o.lastWave = r.lastWave
      BY <2>1, <3>2 DEF LifeView
    <3>5. Ordered(o)
      BY <3>2, ViewsOrdered
    <3>6. ThresholdReached(r) /\ ThresholdReached(o) /\ HealthEnabled(o)
      BY <2>4, <3>2, GateFrame DEF Coherent, WindowJustified
    <3>7. CASE Breach(o) # "none"
      <4>1. s.state = "rolling_back"
        BY <3>1, <3>2, <3>5, <3>7, StartRollbackLockedFrame
      <4> QED BY <1>3, <4>1
    <3>8. CASE Breach(o) = "none" /\ ObservationPassed(o, now)
      <4>1. s = AdvanceWaveLocked(o, now)
        BY <3>1, <3>8
      <4>2. CASE o.currentWave = o.lastWave
        <5>1. s.state = "completed"
          BY <3>2, <4>1, <4>2 DEF AdvanceWaveLocked, Emit, Release
        <5> QED BY <1>3, <5>1
      <4>3. CASE o.currentWave # o.lastWave
        <5>1. s = OpenWave(o, o.currentWave + 1, now)
          BY <4>1, <4>3 DEF AdvanceWaveLocked
        <5>2. o.currentWave < o.lastWave
          <6>1. o.currentWave \in Nat /\ o.lastWave \in Nat
            BY <3>2 DEF Release
          <6>2. o.currentWave <= o.lastWave
            BY <3>5 DEF Ordered, WaveOrder
          <6> QED BY <4>3, <6>1, <6>2
        <5>3. s \in Release /\ s.waveOpenedAt = now /\ s.thresholdMetAt = NotMet
          BY <3>2, <3>5, <5>1, OpenWaveRecord DEF OpensNext
        <5>4. Recorded(o)
          <6>1. NoticeCounts(o)
            BY <2>1, <3>2, <3>4, IdleCounts DEF Sound, Recorded
          <6> QED BY <2>1, <3>2, <3>4, <6>1, RecordedFrame DEF Sound, Withdrawn
        <5>5. ~ThresholdReached(s)
          BY <3>2, <3>4, <3>5, <5>1, <5>2, <5>4, OpenWaveSound
        <5>6. s.input.waveTimeout \in Nat
          BY <5>3 DEF Release, Input
        <5>7. ~(now - s.waveOpenedAt > s.input.waveTimeout)
          BY <5>3, <5>6
        <5> QED BY <1>3, <5>3, <5>5, <5>7, IdleAtRest DEF s
      <4> QED BY <4>2, <4>3
    <3>9. CASE Breach(o) = "none" /\ ~ObservationPassed(o, now)
      <4>1. s = o
        BY <3>1, <3>9
      <4>2. EvaluateTimeoutLocked(o, now) = o
        BY <3>6 DEF EvaluateTimeoutLocked
      <4>3. EvaluateHealthLocked(o, now) = o
        BY <3>2, <3>3, <3>4, <3>6, <3>9 DEF EvaluateHealthLocked
      <4>4. AtRest(o)
        BY <3>9, <4>2, <4>3 DEF AtRest, EvaluateLocked
      <4> QED BY <4>1, <4>4 DEF s
    <3> QED BY <3>7, <3>8, <3>9
  <2> QED BY <2>3, <2>4
<1> QED BY <1>2, <1>3

\* The release that a query describes.
LEMMA QuerySettled ==
    ASSUME RecordInv, NEW id \in Created
    PROVE  LET s == EvaluateLocked(releases[id], now)
           IN  /\ s \in Release /\ Coherent(s) /\ Ordered(s) /\ Sound(s) /\ AtRest(s)
               /\ s.input = releases[id].input
<1>1. /\ releases[id] \in Release /\ Coherent(releases[id]) /\ Ordered(releases[id])
      /\ Sound(releases[id]) /\ now \in Nat /\ now \in Int
  BY SettledSound
<1>2. EvaluateLocked(releases[id], now).input = releases[id].input
  BY SettledGated DEF RecordInv
<1>3. AtRest(EvaluateLocked(releases[id], now))
  BY <1>1, SettledAtRest
<1> QED BY <1>2, <1>3, SettledSound

\* Whose receipt a settled release would take: the nodes shown in progress in its open
\* wave.
LEMMA MayReport ==
    ASSUME NEW s \in Release, Ordered(s), s.state = "active",
           \A n \in Node : nodes[n].releaseSeq <= s.seq
    PROVE  {n \in Node : ReceiptAccepted(s, n)} = InWave(s, s.currentWave, "in_progress")
<1>1. ASSUME NEW n \in Node
      PROVE  ReceiptAccepted(s, n) <=>
                 s.wave[n] = s.currentWave /\ s.result[n] = "in_progress"
  <2>1. s.result[n] \in NodeResult /\ s.currentWave \in Nat
    BY DEF Release
  <2>2. s.wave[n] = s.currentWave => s.result[n] # "pending"
    <3>1. SUFFICES ASSUME s.wave[n] = s.currentWave PROVE s.result[n] # "pending"
      OBVIOUS
    <3>2. n \in Targets(s) /\ ~(s.wave[n] > s.currentWave)
      BY <2>1, <3>1 DEF Targets, NoWave
    <3> QED BY <3>2 DEF Ordered, WaveOrder
  <2> QED BY <2>1, <2>2 DEF ReceiptAccepted, NodeResult
<1> QED BY <1>1 DEF InWave, WaveNodes

\* A wave that stays open lacks successes or is observed.
LEMMA OpenWaveWaits ==
    ASSUME NEW s \in Release, Sound(s), s.state = "active"
    PROVE  \/ WaveStatus(s, s.currentWave).succeeded < WaveStatus(s, s.currentWave).required
           \/ HealthViewOf(s).observing
<1> DEFINE w == s.currentWave
           size == Cardinality(WaveNodes(s, w))
           ratio == s.input.minSuccess
<1>1. CASE ThresholdReached(s)
  <2>1. HealthEnabled(s) /\ s.thresholdMetAt # NotMet
    BY <1>1 DEF Sound, Below, Met
  <2> QED BY <2>1 DEF HealthViewOf
<1>2. CASE ~ThresholdReached(s)
  <2>1. IsFiniteSet(WaveNodes(s, w)) /\ IsFiniteSet(InWave(s, w, "succeeded"))
    <3>1. WaveNodes(s, w) \subseteq Node /\ InWave(s, w, "succeeded") \subseteq Node
      BY DEF WaveNodes, InWave
    <3> QED BY <3>1, NodeAssumption, FS_Subset
  <2>2. size \in Nat /\ Cardinality(InWave(s, w, "succeeded")) \in Nat
    BY <2>1, FS_CardinalityType
  <2>3. RequiredSuccess(ratio, size) \in Int
    <3> DEFINE p == ratio[1]
               q == ratio[2]
    <3>1. ratio \in Nat \X (Nat \ {0})
      BY DEF Release, Input, Ratio
    <3>2. p \in Nat /\ q \in Nat /\ q > 0
      BY <3>1
    <3>3. RequiredSuccess(ratio, size) = (p * size + q - 1) \div q
      BY DEF RequiredSuccess
    <3> HIDE DEF p, q, size, ratio
    <3>4. p * size + q - 1 \in Int
      BY <2>2, <3>2
    <3> QED BY <3>2, <3>3, <3>4, QuotientIntType
  <2>4. ~(Cardinality(InWave(s, w, "succeeded")) >= RequiredSuccess(ratio, size))
    BY <1>2 DEF ThresholdReached, ThresholdReachedIn
  <2>5. /\ WaveStatus(s, w).succeeded = Cardinality(InWave(s, w, "succeeded"))
        /\ WaveStatus(s, w).required = RequiredSuccess(ratio, size)
    BY DEF WaveStatus
  <2> HIDE DEF size, ratio, w
  <2>6. WaveStatus(s, w).succeeded < WaveStatus(s, w).required
    BY <2>2, <2>3, <2>4, <2>5
  <2> QED BY <2>6 DEF w
<1> QED BY <1>1, <1>2

OpenIn(r, w) == r.state = "active" /\ w = r.currentWave

LEMMA ShownOpen == ASSUME NEW r, NEW w PROVE WaveStatus(r, w).open = OpenIn(r, w)
BY Zenon DEF WaveStatus, OpenIn

LEMMA RecordInvProgress == RecordInv => ProgressShowsWhoMayReport
<1> SUFFICES ASSUME RecordInv, NEW id \in Created
             PROVE  LET s == EvaluateLocked(releases[id], now)
                        view == ProgressOf(s)
                        open == {w \in DOMAIN view.waves : view.waves[w].open}
                        mayReport == {n \in Node :
                                         ReceiptAccepted(EvaluateLocked(s, now), n)}
                    IN  /\ \A w \in open :
                              \/ view.waves[w].succeeded < view.waves[w].required
                              \/ HealthViewOf(s).observing
                        /\ (\A n \in Node : nodes[n].releaseSeq <= s.seq) =>
                              IF open = {} THEN mayReport = {}
                              ELSE \E w \in open :
                                       view.waves[w].inProgress = Cardinality(mayReport)
  BY DEF ProgressShowsWhoMayReport
<1> DEFINE s == EvaluateLocked(releases[id], now)
           view == ProgressOf(s)
           open == {w \in DOMAIN view.waves : view.waves[w].open}
           mayReport == {n \in Node : ReceiptAccepted(EvaluateLocked(s, now), n)}
<1>1. s \in Release /\ Ordered(s) /\ Sound(s) /\ EvaluateLocked(s, now) = s
  BY QuerySettled DEF AtRest
<1> HIDE DEF s
<1>2. DOMAIN view.waves = 0 .. s.lastWave
      /\ \A w \in 0 .. s.lastWave : view.waves[w] = WaveStatus(s, w)
  BY DEF ProgressOf
<1>3. s.currentWave \in 0 .. s.lastWave
  <2>1. s.currentWave \in Nat /\ s.lastWave \in Nat
    BY <1>1 DEF Release
  <2> QED BY <1>1, <2>1 DEF Ordered, WaveOrder
<1> HIDE DEF view
<1>4. open = IF s.state = "active" THEN {s.currentWave} ELSE {}
  <2>1. ASSUME NEW w \in 0 .. s.lastWave
        PROVE  view.waves[w].open <=> OpenIn(s, w)
    BY <1>2, ShownOpen
  <2>2. ASSUME NEW w PROVE w \in open <=> w \in 0 .. s.lastWave /\ OpenIn(s, w)
    BY <1>2, <2>1
  <2> QED BY <1>3, <2>2 DEF OpenIn
<1>5. mayReport = {n \in Node : ReceiptAccepted(s, n)}
  BY <1>1
<1> HIDE DEF open, mayReport
<1>6. ASSUME NEW w \in open
      PROVE  view.waves[w].succeeded < view.waves[w].required \/ HealthViewOf(s).observing
  <2>1. s.state = "active" /\ w = s.currentWave
    BY <1>4, <1>6
  <2>2. view.waves[w] = WaveStatus(s, s.currentWave)
    BY <1>2, <1>3, <2>1
  <2> QED BY <1>1, <2>1, <2>2, OpenWaveWaits
<1>7. ASSUME \A n \in Node : nodes[n].releaseSeq <= s.seq
      PROVE  IF open = {} THEN mayReport = {}
             ELSE \E w \in open : view.waves[w].inProgress = Cardinality(mayReport)
  <2>1. CASE s.state = "active"
    <3>1. mayReport = InWave(s, s.currentWave, "in_progress")
      BY <1>1, <1>5, <1>7, <2>1, MayReport
    <3>2. view.waves[s.currentWave] = WaveStatus(s, s.currentWave)
      BY <1>2, <1>3
    <3>3. WaveStatus(s, s.currentWave).inProgress
              = Cardinality(InWave(s, s.currentWave, "in_progress"))
      BY DEF WaveStatus
    <3>4. view.waves[s.currentWave].inProgress = Cardinality(mayReport)
      BY <3>1, <3>2, <3>3
    <3> QED BY <1>4, <2>1, <3>4
  <2>2. CASE s.state # "active"
    BY <1>4, <1>5, <2>2 DEF ReceiptAccepted
  <2> QED BY <2>1, <2>2
<1> QED BY <1>6, <1>7 DEF s, view, open, mayReport

\* For any constants: a wave is shown open only while it lacks successes or is observed,
\* and the nodes shown in progress there are those whose receipt would be taken now.
THEOREM ProgressTruthful == Spec => []ProgressShowsWhoMayReport
BY InitRecordInv, NextRecordInv, RecordInvProgress, PTL DEF Spec

\* What the health view shows, in the words of the gate.
LEMMA ShownObserving ==
    ASSUME NEW r
    PROVE  /\ HealthViewOf(r).observing <=> Observing(r)
           /\ HealthViewOf(r).state = r.state
           /\ HealthViewOf(r).currentWave = r.currentWave
           /\ HealthViewOf(r).windowEndsAt = r.thresholdMetAt + r.input.health.window
<1>1. HealthViewOf(r).observing = (HealthEnabled(r) /\ r.thresholdMetAt # NotMet
                                      /\ r.state = "active")
  BY Zenon DEF HealthViewOf
<1> QED BY <1>1 DEF HealthViewOf, Observing

LEMMA ShownUnhealthy ==
    ASSUME NEW r
    PROVE  HealthViewOf(r).thresholdBreached <=> HealthEnabled(r) /\ TooManyUnhealthy(r)
<1> DEFINE unhealthy == {n \in WaveNodes(r, r.currentWave) :
                             r.result[n] = "succeeded" /\ NodeHealth(r, n) = "unhealthy"}
<1>1. unhealthy = Unhealthy(r, r.currentWave)
  <2>1. ASSUME NEW n, r.result[n] = "succeeded"
        PROVE  NodeHealth(r, n) = "unhealthy" <=>
                   n \notin r.quarantined /\ \E s \in SamplesOf(r, n) : ~s.healthy
    BY <2>1 DEF NodeHealth
  <2> QED BY <2>1 DEF Unhealthy, Covered, InWave
<1>2. HealthViewOf(r).thresholdBreached =
          (HealthEnabled(r) /\ Cardinality(unhealthy) > r.input.health.maxUnhealthy)
  BY Zenon DEF HealthViewOf
<1> HIDE DEF unhealthy
<1> QED BY <1>1, <1>2 DEF TooManyUnhealthy

\* The coverage shown is 1 while nothing succeeded; the gate then asks for nothing.
LEMMA ShownLimit ==
    ASSUME NEW r \in Release
    PROVE  (\E q \in HealthViewOf(r).quarantine : q.limitBreached)
               <=> QuarantineLimitBreached(r)
<1> DEFINE succeeded == InWave(r, r.currentWave, "succeeded")
           covered == succeeded \ r.quarantined
           coverage == IF succeeded = {} THEN <<1, 1>>
                       ELSE <<Cardinality(covered), Cardinality(succeeded)>>
           min == r.input.quarantine.minCoverage
           over == Cardinality(r.quarantined) > r.input.quarantine.maxQuarantined
           low == succeeded # {} /\ coverage[1] * min[2] < min[1] * coverage[2]
<1>1. QuarantineViewOf(r).limitBreached = (over \/ low)
  BY Zenon DEF QuarantineViewOf
<1>2. HealthViewOf(r).quarantine =
          IF QuarantineEnabled(r) THEN {QuarantineViewOf(r)} ELSE {}
  BY DEF HealthViewOf
<1>3. low <=> CoverageTooLow(r)
  <2>1. min[1] \in Nat /\ min[2] \in Nat
    BY DEF Release, Input, QuarantinePolicy, Ratio
  <2>2. CASE succeeded = {}
    <3>1. Covered(r, r.currentWave) = {}
      BY <2>2 DEF Covered
    <3>2. ~(0 * min[2] < min[1] * 0)
      BY <2>1
    <3> QED BY <2>2, <3>1, <3>2, FS_EmptySet DEF CoverageTooLow
  <2>3. CASE succeeded # {}
    BY <2>3 DEF CoverageTooLow, Covered
  <2> QED BY <2>2, <2>3
<1> HIDE DEF low, over
<1> QED BY <1>1, <1>2, <1>3 DEF QuarantineLimitBreached, over

LEMMA ShownNode ==
    ASSUME NEW r, NEW n \in Targets(r)
    PROVE  /\ n \in DOMAIN HealthViewOf(r).node
           /\ HealthViewOf(r).node[n].wave = r.wave[n]
           /\ HealthViewOf(r).node[n].result = r.result[n]
           /\ HealthViewOf(r).node[n].health = NodeHealth(r, n)
           /\ HealthViewOf(r).node[n].samples = Cardinality(SamplesOf(r, n))
<1>1. HealthViewOf(r).node = [m \in Targets(r) |-> NodeHealthView(r, m)]
  BY DEF HealthViewOf
<1>2. HealthViewOf(r).node[n] = NodeHealthView(r, n)
  BY <1>1
<1> QED BY <1>1, <1>2 DEF NodeHealthView

\* Past its window a settled release is held up by a node that it lacks samples of.
LEMMA ShownLacking ==
    ASSUME NEW r \in Release, Sized(r), Observing(r), AtRest(r), now \in Int,
           now >= HealthViewOf(r).windowEndsAt
    PROVE  \E n \in DOMAIN HealthViewOf(r).node :
              /\ HealthViewOf(r).node[n].wave = HealthViewOf(r).currentWave
              /\ HealthViewOf(r).node[n].result = "succeeded"
              /\ HealthViewOf(r).node[n].health # "quarantined"
              /\ HealthViewOf(r).node[n].samples < r.input.health.minSamples
<1>1. now - r.thresholdMetAt >= r.input.health.window
  <2>1. r.thresholdMetAt \in Int /\ r.input.health.window \in Int
    BY DEF Release, Input, HealthPolicy
  <2>2. now >= r.thresholdMetAt + r.input.health.window
    BY ShownObserving
  <2> QED BY <2>1, <2>2
<1>2. PICK n \in Covered(r, r.currentWave) :
          ~(Cardinality(SamplesOf(r, n)) >= r.input.health.minSamples)
  BY <1>1 DEF AtRest, ObservationPassed
<1>3. /\ n \in Node /\ r.wave[n] = r.currentWave /\ r.result[n] = "succeeded"
      /\ n \notin r.quarantined
  BY DEF Covered, InWave, WaveNodes
<1>4. n \in Targets(r)
  BY <1>3 DEF Targets, NoWave, Release
<1>5. Cardinality(SamplesOf(r, n)) < r.input.health.minSamples
  <2>1. SamplesOf(r, n) \subseteq r.samples
    BY DEF SamplesOf
  <2>2. Cardinality(SamplesOf(r, n)) \in Nat
    BY <2>1, FS_Subset, FS_CardinalityType DEF Sized
  <2>3. r.input.health.minSamples \in Nat
    BY DEF Release, Input, HealthPolicy
  <2> QED BY <1>2, <2>2, <2>3
<1>6. NodeHealth(r, n) # "quarantined"
  BY <1>3 DEF NodeHealth
<1>7. HealthViewOf(r).currentWave = r.currentWave
  BY ShownObserving
<1> DEFINE node == HealthViewOf(r).node
<1>8. /\ n \in DOMAIN node /\ node[n].wave = r.wave[n] /\ node[n].result = r.result[n]
      /\ node[n].health = NodeHealth(r, n)
      /\ node[n].samples = Cardinality(SamplesOf(r, n))
  BY <1>4, ShownNode
<1> HIDE DEF node
<1>9. /\ n \in DOMAIN node /\ node[n].wave = r.currentWave
      /\ node[n].result = "succeeded" /\ node[n].health # "quarantined"
      /\ node[n].samples < r.input.health.minSamples
  BY <1>3, <1>5, <1>6, <1>8
<1> QED BY <1>7, <1>9 DEF node

LEMMA ShownRollback ==
    ASSUME NEW r \in Release, Coherent(r), Recorded(r),
           NEW rb \in HealthViewOf(r).rollback
    PROVE  /\ rb.reason = "health_threshold" <=> HealthViewOf(r).thresholdBreached
           /\ rb.reason = "quarantine_limit" => QuarantineLimitBreached(r)
           /\ rb.restored = rb.total <=> HealthViewOf(r).state = "rolled_back"
<1>1. Withdrawn(r) /\ rb = RollbackViewOf(r)
  BY DEF HealthViewOf
<1>2. /\ Breach(r) # "none" /\ r.rollbackReason = Breach(r)
      /\ r.planned = Succeeded(r) /\ r.restored \subseteq r.planned
      /\ r.state = "rolled_back" <=> r.restored = r.planned
      /\ HealthEnabled(r)
  BY <1>1 DEF Coherent, RollbackCoherent, Recorded
<1>3. /\ rb.reason = r.rollbackReason /\ rb.total = Cardinality(r.planned)
      /\ rb.restored = Cardinality(r.restored)
  BY <1>1 DEF RollbackViewOf
<1>4. rb.restored = rb.total <=> r.restored = r.planned
  <2>1. IsFiniteSet(r.planned)
    <3>1. r.planned \subseteq Node
      BY <1>2 DEF Succeeded
    <3> QED BY <3>1, NodeAssumption, FS_Subset
  <2> QED BY <1>2, <1>3, <2>1, FS_Subset
<1> QED BY <1>2, <1>3, <1>4, ShownObserving, ShownUnhealthy DEF Breach

LEMMA RecordInvHealth == RecordInv => HealthViewTruthful
<1> SUFFICES ASSUME RecordInv, NEW id \in Created
             PROVE  LET r == releases[id]
                        view == GetHealth(id)
                        limitBreached == \E q \in view.quarantine : q.limitBreached
                        lacking == {n \in DOMAIN view.node :
                                       /\ view.node[n].wave = view.currentWave
                                       /\ view.node[n].result = "succeeded"
                                       /\ view.node[n].health # "quarantined"
                                       /\ view.node[n].samples < r.input.health.minSamples}
                    IN  /\ view.observing => ~view.thresholdBreached /\ ~limitBreached
                        /\ view.observing /\ now >= view.windowEndsAt => lacking # {}
                        /\ \A rb \in view.rollback :
                              /\ rb.reason = "health_threshold" <=> view.thresholdBreached
                              /\ rb.reason = "quarantine_limit" => limitBreached
                              /\ rb.restored = rb.total <=> view.state = "rolled_back"
  BY DEF HealthViewTruthful
<1> DEFINE s == EvaluateLocked(releases[id], now)
           view == HealthViewOf(s)
<1>1. /\ s \in Release /\ Coherent(s) /\ Sound(s) /\ AtRest(s)
      /\ s.input = releases[id].input /\ now \in Int
  BY QuerySettled, SettledSound
<1>2. GetHealth(id) = view
  BY DEF GetHealth
<1> HIDE DEF s
<1>3. /\ view.observing <=> Observing(s)
      /\ view.thresholdBreached <=> HealthEnabled(s) /\ TooManyUnhealthy(s)
      /\ (\E q \in view.quarantine : q.limitBreached) <=> QuarantineLimitBreached(s)
  BY <1>1, ShownObserving, ShownUnhealthy, ShownLimit
<1>4. Observing(s) => ~TooManyUnhealthy(s) /\ ~QuarantineLimitBreached(s)
  BY <1>1 DEF Observing, Coherent, ObservationGate, Breach
<1>5. ASSUME Observing(s), now >= view.windowEndsAt
      PROVE  \E n \in DOMAIN view.node :
                /\ view.node[n].wave = view.currentWave
                /\ view.node[n].result = "succeeded"
                /\ view.node[n].health # "quarantined"
                /\ view.node[n].samples < releases[id].input.health.minSamples
  BY <1>1, <1>5, ShownLacking DEF Sound, Recorded
<1>6. ASSUME NEW rb \in view.rollback
      PROVE  /\ rb.reason = "health_threshold" <=> view.thresholdBreached
             /\ rb.reason = "quarantine_limit" => QuarantineLimitBreached(s)
             /\ rb.restored = rb.total <=> view.state = "rolled_back"
  BY <1>1, ShownRollback DEF Sound
<1> HIDE DEF view
<1> QED BY <1>2, <1>3, <1>4, <1>5, <1>6

\* For any constants: the health view of a release agrees with what the service did on
\* the same state.
THEOREM HealthTruthful == Spec => []HealthViewTruthful
BY InitRecordInv, NextRecordInv, RecordInvHealth, PTL DEF Spec
=============================================================================
