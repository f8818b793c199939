---------------------------- MODULE CatchupProofs ----------------------------
(***************************************************************************)
(* The versions of nodes and the catch-up plans made for them, proved of   *)
(* Catchup: the applied version of a node is explained by the newest       *)
(* release it succeeded in, a plan ends with its release, and a node that  *)
(* waits for catch-up still runs what it ran when the plan froze it.  The  *)
(* three need one another: a rollback of another release cannot move a     *)
(* waiting node because the node runs this release, which is the newest it *)
(* succeeded in; and a plan of a release under rollback waits for nobody.  *)
(*                                                                         *)
(* A handler changes one release, by several helpers in a row, and at most *)
(* one node.  Carries says what no helper changes of all this; it is       *)
(* transitive, so that a handler's helpers add up.                         *)
(***************************************************************************)
EXTENDS WaveProofs, Catchup, WellFoundedInduction

\* The states of a release that its catch-up plan survives.
Stands == {"active", "paused", "completed"}

EntryLive(r, n) == r.plan.entry[n].state \in LiveCatchup

\* An ended plan has no live entry.
EndedIsOver(r) == \A n \in Node : EntryLive(r, n) => PlanLive(r)

\* What x keeps of b: who it is, what it installed where, and no more of its plan
\* than b has.
Carries(b, x) ==
    /\ x.seq = b.seq /\ x.input = b.input /\ x.prev = b.prev /\ x.restored = b.restored
    /\ Succeeded(x) = Succeeded(b)
    /\ EndedIsOver(b) => EndedIsOver(x)
    /\ PlanLive(x) => PlanLive(b) /\ (b.state \in Stands => x.state \in Stands)
    /\ \A n \in Node : EntryLive(x, n) => /\ EntryLive(b, n)
                                          /\ x.plan.entry[n].baseline
                                                 = b.plan.entry[n].baseline

LEMMA CarriesTransitive ==
    ASSUME NEW b, NEW r, NEW x, Carries(b, r), Carries(r, x)
    PROVE  Carries(b, x)
BY DEF Carries

\* What Carries reads of a release, but its state and its plan.
RecordView(r) == <<r.seq, r.input, r.prev, r.restored, r.result>>

\* A helper that leaves the plan alone.
LEMMA PlanKeptCarries ==
    ASSUME NEW b, NEW x, RecordView(x) = RecordView(b), x.plan = b.plan,
           b.state \in Stands => x.state \in Stands
    PROVE  Carries(b, x)
<1>1. /\ x.seq = b.seq /\ x.input = b.input /\ x.prev = b.prev
      /\ x.restored = b.restored /\ x.result = b.result
  BY DEF RecordView
<1> QED BY <1>1 DEF Carries, Succeeded, EndedIsOver, PlanLive, EntryLive

LEMMA EmitCarries ==
    ASSUME NEW r \in Release, NEW k
    PROVE  Carries(r, Emit(r, k))
<1>1. /\ RecordView(Emit(r, k)) = RecordView(r) /\ Emit(r, k).plan = r.plan
      /\ Emit(r, k).state = r.state
  BY DEF Emit, RecordView, Release
<1> QED BY <1>1, PlanKeptCarries

LEMMA EmitToCarries ==
    ASSUME NEW r \in Release, NEW k, NEW S
    PROVE  Carries(r, EmitTo(r, k, S))
<1>1. /\ RecordView(EmitTo(r, k, S)) = RecordView(r) /\ EmitTo(r, k, S).plan = r.plan
      /\ EmitTo(r, k, S).state = r.state
  BY DEF EmitTo, RecordView, Release
<1> QED BY <1>1, PlanKeptCarries

LEMMA PauseLockedCarries ==
    ASSUME NEW r \in Release, NEW reason
    PROVE  Carries(r, PauseLocked(r, reason))
<1> DEFINE x == PauseLocked(r, reason)
<1>1. RecordView(x) = RecordView(r) /\ x.plan = r.plan /\ x.state = "paused"
  BY DEF PauseLocked, RecordView, Release
<1> HIDE DEF x
<1>2. Carries(r, x)
  BY <1>1, PlanKeptCarries DEF Stands
<1> QED BY <1>2 DEF x

\* Aborting leaves nothing live.
LEMMA AbortCatchupLockedCarries ==
    ASSUME NEW r \in Release
    PROVE  LET x == AbortCatchupLocked(r)
           IN  /\ Carries(r, x) /\ ~PlanLive(x)
               /\ r.plan.state \in LiveCatchup => \A n \in Node : ~EntryLive(x, n)
<1> DEFINE entry == [n \in Node |->
                        IF r.plan.entry[n].state \in LiveCatchup
                        THEN [r.plan.entry[n] EXCEPT !.state = "aborted"]
                        ELSE r.plan.entry[n]]
           plan == [state |-> "aborted", entry |-> entry]
           aborted == [r EXCEPT !.plan = plan]
           x == AbortCatchupLocked(r)
<1>1. CASE r.plan.state \notin LiveCatchup
  <2>1. x = r
    BY <1>1 DEF AbortCatchupLocked
  <2> QED BY <1>1, <2>1, PlanKeptCarries DEF PlanLive
<1>2. CASE r.plan.state \in LiveCatchup
  <2>1. x = [aborted EXCEPT !.sent["catchup.aborted"] = @ + 1]
    BY <1>2 DEF AbortCatchupLocked, Emit
  <2>2. ASSUME NEW n \in Node PROVE entry[n].state \notin LiveCatchup
    <3>1. r.plan.entry[n] \in CatchupEntry
      BY DEF Release, CatchupPlan
    <3> QED BY <3>1 DEF CatchupEntry, LiveCatchup
  <2> HIDE DEF entry
  <2>3. RecordView(x) = RecordView(r) /\ x.plan = plan
    BY <2>1 DEF RecordView, Release
  <2> HIDE DEF x
  <2>4. ~PlanLive(x) /\ \A n \in Node : ~EntryLive(x, n)
    BY <2>2, <2>3 DEF PlanLive, EntryLive, LiveCatchup
  <2>5. Carries(r, x)
    BY <2>3, <2>4 DEF Carries, RecordView, Succeeded, EndedIsOver
  <2> QED BY <2>4, <2>5 DEF x
<1> QED BY <1>1, <1>2

\* Nodes of a wave that opens had no result yet, so that no success is undone.
LEMMA AdvanceWaveLockedCarries ==
    ASSUME NEW r \in Release, Ordered(r)
    PROVE  Carries(r, AdvanceWaveLocked(r, now))
<1> DEFINE w == r.currentWave + 1
           result == [n \in Node |-> IF r.wave[n] = w THEN "in_progress" ELSE r.result[n]]
           opened == [r EXCEPT !.currentWave = w, !.waveOpenedAt = now,
                               !.thresholdMetAt = NotMet, !.result = result]
           s == OpenWave(r, w, now)
           c == [r EXCEPT !.state = "completed"]
<1>1. s = [opened EXCEPT !.sent["wave.opened"] = @ + 1]
  BY DEF OpenWave, Emit
<1>2. ASSUME NEW n \in Node
      PROVE  result[n] = "succeeded" <=> r.result[n] = "succeeded"
  <2>1. CASE r.wave[n] = w
    <3>1. r.wave[n] \in Int /\ r.currentWave \in Nat
      BY DEF Release
    <3>2. n \in Targets(r) /\ r.wave[n] > r.currentWave
      BY <2>1, <3>1 DEF Targets, NoWave
    <3>3. r.result[n] = "pending"
      BY <3>2 DEF Ordered, WaveOrder
    <3> QED BY <2>1, <3>3
  <2>2. CASE r.wave[n] # w
    BY <2>2
  <2> QED BY <2>1, <2>2
<1> HIDE DEF result
<1>3. /\ s.seq = r.seq /\ s.input = r.input /\ s.prev = r.prev /\ s.restored = r.restored
      /\ s.result = result /\ s.plan = r.plan /\ s.state = r.state
  BY <1>1, ZenonT(30) DEF Release
<1> HIDE DEF s
<1>4. Carries(r, s)
  BY <1>2, <1>3 DEF Carries, Succeeded, EndedIsOver, PlanLive, EntryLive
<1>5. /\ RecordView(c) = RecordView(r) /\ c.plan = r.plan /\ c.state = "completed"
      /\ c \in Release
  BY DEF RecordView, Release, ReleaseState
<1> HIDE DEF c
<1>6. Carries(r, Emit(c, "release.completed"))
  BY <1>5, PlanKeptCarries, EmitCarries, CarriesTransitive DEF Stands
<1> QED BY <1>4, <1>6 DEF AdvanceWaveLocked, s, c

LEMMA StartRollbackLockedCarries ==
    ASSUME NEW r \in Release, NEW reason \in RollbackReason
    PROVE  Carries(r, StartRollbackLocked(r, reason))
<1> DEFINE started == [r EXCEPT !.state = "rolling_back", !.pauseReason = "none",
                                !.rollbackReason = reason, !.planned = Succeeded(r)]
           announced == Emit(started, "rollback.started")
           notified == EmitTo(announced, "node.rollback", Succeeded(r))
           aborted == AbortCatchupLocked(notified)
           done == [aborted EXCEPT !.state = "rolled_back"]
           ended == Emit(done, "release.rolledback")
<1>1. StartRollbackLocked(r, reason) \in {aborted, ended}
  BY DEF StartRollbackLocked, CompleteRollbackLocked
<1>2. Succeeded(r) \in SUBSET Node
  BY DEF Succeeded
<1>3. started \in Release
  BY <1>2 DEF Release, ReleaseState, PauseReason
<1>4. RecordView(started) = RecordView(r) /\ started.plan = r.plan
  BY DEF RecordView, Release
<1> HIDE DEF started
<1>5. announced \in Release /\ Carries(started, announced)
  BY <1>3, EmitType, EmitCarries DEF ReleaseNotice
<1> HIDE DEF announced
<1>6. notified \in Release /\ Carries(announced, notified)
  BY <1>5, EmitToType, EmitToCarries DEF NodeNotice
<1> HIDE DEF notified
<1>7. aborted \in Release /\ Carries(notified, aborted) /\ ~PlanLive(aborted)
  BY <1>6, AbortCatchupLockedType, AbortCatchupLockedCarries
<1> HIDE DEF aborted
<1>8. Carries(started, aborted)
  BY <1>5, <1>6, <1>7, CarriesTransitive
<1>9. Carries(r, aborted)
  BY <1>4, <1>7, <1>8 DEF Carries, RecordView, Succeeded, EndedIsOver, PlanLive, EntryLive
<1>10. /\ done \in Release /\ RecordView(done) = RecordView(aborted)
       /\ done.plan = aborted.plan
  BY <1>7 DEF RecordView, Release, ReleaseState
<1> HIDE DEF done
<1>11. Carries(r, done)
  BY <1>7, <1>9, <1>10 DEF Carries, RecordView, Succeeded, EndedIsOver, PlanLive, EntryLive
<1>12. Carries(r, ended)
  BY <1>10, <1>11, EmitCarries, CarriesTransitive
<1> QED BY <1>1, <1>9, <1>12

LEMMA EvaluateHealthLockedCarries ==
    ASSUME NEW r \in Release, Ordered(r), now \in Int
    PROVE  Carries(r, EvaluateHealthLocked(r, now))
<1> DEFINE o == Observe(r, now)
           met == IF r.thresholdMetAt = NotMet THEN now ELSE r.thresholdMetAt
<1>1. o = [r EXCEPT !.thresholdMetAt = met] /\ o \in Release
  BY ObserveType DEF Observe
<1> HIDE DEF met
<1>2. /\ RecordView(o) = RecordView(r) /\ o.plan = r.plan /\ o.state = r.state
      /\ GateView(o) = GateView(r) /\ LifeView(o) = LifeView(r)
  BY <1>1 DEF RecordView, GateView, LifeView, Release
<1> HIDE DEF o
<1>3. Carries(r, o) /\ Ordered(o) /\ Carries(r, r)
  BY <1>2, PlanKeptCarries, ViewsOrdered
<1>4. Breach(o) \in RollbackReason
  BY DEF Breach, RollbackReason
<1>5. Carries(o, StartRollbackLocked(o, Breach(o))) /\ Carries(o, AdvanceWaveLocked(o, now))
  BY <1>1, <1>3, <1>4, StartRollbackLockedCarries, AdvanceWaveLockedCarries
<1>6. EvaluateHealthLocked(r, now) \in
          {r, o, StartRollbackLocked(o, Breach(o)), AdvanceWaveLocked(o, now)}
  BY DEF EvaluateHealthLocked, o
<1> QED BY <1>3, <1>5, <1>6, CarriesTransitive

LEMMA EvaluateLockedCarries ==
    ASSUME NEW r \in Release, Ordered(r), now \in Int
    PROVE  Carries(r, EvaluateLocked(r, now))
<1> DEFINE t == EvaluateTimeoutLocked(r, now)
<1>1. t \in {r, PauseLocked(r, "timeout")}
  BY DEF EvaluateTimeoutLocked
<1>2. t \in Release /\ Ordered(t) /\ Carries(r, t)
  BY <1>1, PauseLockedType, PauseLockedOrdered, PauseLockedCarries, PlanKeptCarries
     DEF PauseReason
<1> HIDE DEF t
<1>3. Carries(t, EvaluateHealthLocked(t, now))
  BY <1>2, EvaluateHealthLockedCarries
<1> QED BY <1>2, <1>3, CarriesTransitive DEF EvaluateLocked, t

LEMMA AfterSuccessCarries ==
    ASSUME NEW r \in Release, Ordered(r), now \in Int
    PROVE  Carries(r, AfterSuccess(r))
<1>1. AfterSuccess(r) \in {r, EvaluateHealthLocked(r, now), AdvanceWaveLocked(r, now)}
  BY DEF AfterSuccess
<1>2. Carries(r, r)
  BY PlanKeptCarries
<1> QED BY <1>1, <1>2, EvaluateHealthLockedCarries, AdvanceWaveLockedCarries

-----------------------------------------------------------------------------
(* What holds of nodes and plans together *)

SeqsUnique ==
    \A i, j \in Created : /\ releases[i].seq \in 1 .. nextSeq
                          /\ releases[i].seq = releases[j].seq => i = j

Standing(r) == PlanLive(r) => r.state \in Stands

\* A node of a live entry succeeded in the release and still runs it, as it did when
\* the plan was made.
Waiting(r) ==
    \A n \in Node : EntryLive(r, n) => /\ n \in Succeeded(r)
                                       /\ BaselineCurrent(r, n)
                                       /\ nodes[n].releaseSeq = r.seq

Plans ==
    /\ SeqsUnique
    /\ AppliedVersionExplained
    /\ \A i \in Created : /\ Standing(releases[i]) /\ EndedIsOver(releases[i])
                          /\ Waiting(releases[i])

\* A step that moves no node, creates no release and adds nothing to a plan.
Quiet ==
    /\ Created' = Created
    /\ UNCHANGED <<nodes, nextSeq>>
    /\ \A i \in Created : Carries(releases[i], releases'[i])

LEMMA QuietPlans ==
    ASSUME Plans, Quiet
    PROVE  Plans'
<1>1. /\ Created' = Created /\ nodes' = nodes /\ nextSeq' = nextSeq
      /\ \A i \in Created : Carries(releases[i], releases'[i])
  BY DEF Quiet
<1>2. SeqsUnique'
  BY <1>1 DEF Plans, SeqsUnique, Carries
<1>3. \A i \in Created, n \in Node :
          releases'[i].result[n] = "succeeded" <=> releases[i].result[n] = "succeeded"
  BY <1>1 DEF Carries, Succeeded
<1>4. \A i \in Created, n \in Node : Explains(releases[i], n) => Explains(releases[i], n)'
  BY <1>1, <1>3 DEF Explains, Carries
<1>5. AppliedVersionExplained'
  BY <1>1, <1>3, <1>4 DEF Plans, AppliedVersionExplained, Carries
<1>6. ASSUME NEW i \in Created
      PROVE  /\ Standing(releases'[i]) /\ EndedIsOver(releases'[i])
             /\ Waiting(releases[i])'
  <2>1. /\ Standing(releases[i]) /\ EndedIsOver(releases[i]) /\ Waiting(releases[i])
        /\ Carries(releases[i], releases'[i])
    BY <1>1 DEF Plans
  <2>2. Standing(releases'[i]) /\ EndedIsOver(releases'[i])
    BY <2>1 DEF Standing, Carries
  <2>3. Waiting(releases[i])'
    BY <1>1, <2>1 DEF Waiting, Carries, BaselineCurrent, EntryLive
  <2> QED BY <2>2, <2>3
<1> QED BY <1>1, <1>2, <1>5, <1>6 DEF Plans

LEMMA CommitQuiet ==
    ASSUME NEW id \in Created, NEW x, Carries(releases[id], x), Commit(id, x),
           UNCHANGED <<nodes, nextSeq>>
    PROVE  Quiet
<1>1. Created' = Created
  BY DEF Commit, Created
<1>2. \A i \in Created : releases'[i] = IF i = id THEN x ELSE releases[i]
  BY DEF Commit, Created
<1>3. \A i \in Created : Carries(releases[i], releases[i])
  BY PlanKeptCarries
<1> QED BY <1>1, <1>2, <1>3 DEF Quiet

-----------------------------------------------------------------------------
(* The handlers of Rollout that move no node *)

LEMMA TickTimeoutQuiet ==
    ASSUME WaveInv, NEW id \in Created, TickTimeout(id)
    PROVE  Quiet
<1>1. releases[id] \in Release /\ Ordered(releases[id]) /\ now \in Int
  BY NowType DEF WaveInv, Inv, TypeOK
<1> QED BY <1>1, EvaluateLockedCarries, CommitQuiet DEF TickTimeout

LEMMA PauseQuiet ==
    ASSUME WaveInv, NEW id \in Created, Pause(id)
    PROVE  Quiet
<1>1. releases[id] \in Release
  BY DEF WaveInv, Inv, TypeOK
<1> QED BY <1>1, PauseLockedCarries, CommitQuiet DEF Pause

LEMMA ResumeQuiet ==
    ASSUME WaveInv, NEW id \in Created, Resume(id)
    PROVE  Quiet
<1> DEFINE r == releases[id]
           resumed == [r EXCEPT !.state = "active", !.pauseReason = "none",
                                !.waveOpenedAt = now]
           x == EvaluateHealthLocked(resumed, now)
<1>1. r \in Release /\ Ordered(r) /\ now \in Int
  BY NowType DEF WaveInv, Inv, TypeOK
<1>2. r.state = "paused" /\ Commit(id, x) /\ UNCHANGED <<nodes, nextSeq>>
  BY DEF Resume
<1> HIDE DEF r
<1>3. resumed \in Release
  BY <1>1 DEF Release, ReleaseState, PauseReason
<1>4. /\ RecordView(resumed) = RecordView(r) /\ resumed.plan = r.plan
      /\ resumed.state = "active" /\ resumed.lastWave = r.lastWave
      /\ GateView(resumed) = GateView(r)
  BY <1>1 DEF RecordView, GateView, Release
<1> HIDE DEF resumed
<1>5. Carries(r, resumed) /\ Ordered(resumed)
  BY <1>1, <1>4, PlanKeptCarries, OrderedFrame DEF Stands
<1>6. Carries(r, x)
  BY <1>1, <1>3, <1>5, EvaluateHealthLockedCarries, CarriesTransitive
<1> HIDE DEF x
<1> QED BY <1>2, <1>6, CommitQuiet DEF r

LEMMA CancelQuiet ==
    ASSUME WaveInv, NEW id \in Created, Cancel(id)
    PROVE  Quiet
<1> DEFINE r == releases[id]
           stopped == [r EXCEPT !.state = "cancelled", !.pauseReason = "none"]
           announced == Emit(stopped, "release.cancelled")
           cancelled == AbortCatchupLocked(announced)
           x == EmitTo(cancelled, "node.compensation", Succeeded(r))
<1>1. r \in Release
  BY DEF WaveInv, Inv, TypeOK
<1>2. Commit(id, x) /\ UNCHANGED <<nodes, nextSeq>>
  BY DEF Cancel
<1> HIDE DEF r
<1>3. stopped \in Release
  BY <1>1 DEF Release, ReleaseState, PauseReason
<1>4. RecordView(stopped) = RecordView(r) /\ stopped.plan = r.plan
  BY <1>1 DEF RecordView, Release
<1> HIDE DEF stopped
<1>5. announced \in Release /\ Carries(stopped, announced)
  BY <1>3, EmitType, EmitCarries DEF ReleaseNotice
<1> HIDE DEF announced
<1>6. /\ cancelled \in Release /\ Carries(announced, cancelled) /\ ~PlanLive(cancelled)
  BY <1>5, AbortCatchupLockedType, AbortCatchupLockedCarries
<1> HIDE DEF cancelled
<1>7. Carries(stopped, cancelled)
  BY <1>5, <1>6, CarriesTransitive
<1>8. Carries(r, cancelled)
  BY <1>4, <1>6, <1>7 DEF Carries, RecordView, Succeeded, EndedIsOver, PlanLive, EntryLive
<1>9. Carries(r, x)
  BY <1>6, <1>8, EmitToCarries, CarriesTransitive
<1> HIDE DEF x
<1> QED BY <1>2, <1>9, CommitQuiet DEF r

\* A failure is no success.
LEMMA AckFailedQuiet ==
    ASSUME WaveInv, NEW id \in Created, NEW n \in Node, AckFailed(id, n)
    PROVE  Quiet
<1> DEFINE r == EvaluateLocked(releases[id], now)
           marked == [r EXCEPT !.result[n] = "failed"]
           failed == EmitTo(marked, "node.failed", {n})
           tooMany == Cardinality(InWave(failed, r.currentWave, "failed"))
                          > r.input.maxFailures
           x == IF tooMany THEN PauseLocked(failed, "failure_threshold") ELSE failed
<1>1. r \in Release
  BY SettledWaves
<1>2. Carries(releases[id], r)
  BY NowType, EvaluateLockedCarries DEF WaveInv, Inv, TypeOK
<1>3. /\ ReceiptAccepted(r, n) /\ Commit(id, x) /\ UNCHANGED <<nodes, nextSeq>>
  BY DEF AckFailed
<1> HIDE DEF r
<1>4. r.result[n] # "succeeded"
  BY <1>3 DEF ReceiptAccepted
<1>5. marked \in Release
  BY <1>1 DEF Release, NodeResult
<1>6. /\ marked.seq = r.seq /\ marked.input = r.input /\ marked.prev = r.prev
      /\ marked.restored = r.restored /\ marked.plan = r.plan /\ marked.state = r.state
      /\ marked.result = [r.result EXCEPT ![n] = "failed"]
  BY <1>1 DEF Release
<1>7. r.result \in [Node -> NodeResult]
  BY <1>1 DEF Release
<1> HIDE DEF marked
<1>8. Succeeded(marked) = Succeeded(r)
  BY <1>4, <1>6, <1>7 DEF Succeeded
<1>9. Carries(r, marked)
  BY <1>6, <1>8 DEF Carries, EndedIsOver, PlanLive, EntryLive
<1>10. failed \in Release /\ Carries(marked, failed)
  BY <1>5, EmitToType, EmitToCarries DEF NodeNotice
<1> HIDE DEF failed, tooMany
<1>11. Carries(failed, x)
  BY <1>10, PauseLockedCarries, PlanKeptCarries
<1> HIDE DEF x
<1>12. Carries(releases[id], x)
  BY <1>2, <1>9, <1>10, <1>11, CarriesTransitive
<1> QED BY <1>3, <1>12, CommitQuiet

LEMMA ReportHealthQuiet ==
    ASSUME WaveInv, NEW id \in Created, NEW n \in Node, NEW event \in SampleId,
           NEW healthy \in BOOLEAN, ReportHealth(id, n, event, healthy)
    PROVE  Quiet
<1> DEFINE r == releases[id]
           sample == [id |-> event, node |-> n, healthy |-> healthy,
                      receivedAt |-> IF KeepReceivedAt THEN now ELSE 0]
           reported == [r EXCEPT !.samples = @ \cup {sample}]
           x == EvaluateHealthLocked(reported, now)
<1>1. r \in Release /\ Ordered(r) /\ now \in Int
  BY NowType DEF WaveInv, Inv, TypeOK
<1>2. Commit(id, x) /\ UNCHANGED <<nodes, nextSeq>>
  BY DEF ReportHealth
<1>3. sample \in Sample
  BY <1>1 DEF Sample
<1> HIDE DEF r, sample
<1>4. reported \in Release
  BY <1>1, <1>3 DEF Release
<1>5. /\ reported.input = r.input /\ reported.wave = r.wave
      /\ reported.currentWave = r.currentWave /\ reported.result = r.result
      /\ reported.lastWave = r.lastWave /\ reported.quarantined = r.quarantined
      /\ reported.state = r.state /\ reported.plan = r.plan
      /\ RecordView(reported) = RecordView(r)
  BY <1>1 DEF Release, RecordView
<1> HIDE DEF reported
<1>6. Ordered(reported) /\ Carries(r, reported)
  BY <1>1, <1>5, EvidenceOrdered, PlanKeptCarries DEF Ordered
<1>7. Carries(r, x)
  BY <1>1, <1>4, <1>6, EvaluateHealthLockedCarries, CarriesTransitive
<1> HIDE DEF x
<1> QED BY <1>2, <1>7, CommitQuiet DEF r

LEMMA QuarantineNodeQuiet ==
    ASSUME WaveInv, NEW id \in Created, NEW n \in Node, QuarantineNode(id, n)
    PROVE  Quiet
<1> DEFINE r == EvaluateLocked(releases[id], now)
           marked == [r EXCEPT !.quarantined = @ \cup {n}]
           quarantined == EmitTo(marked, "node.quarantined", {n})
           x == EvaluateHealthLocked(quarantined, now)
<1>1. r \in Release /\ Ordered(r) /\ now \in Int
  BY SettledWaves, NowType DEF WaveInv, Inv
<1>2. Carries(releases[id], r)
  BY NowType, EvaluateLockedCarries DEF WaveInv, Inv, TypeOK
<1>3. /\ Commit(id, x) /\ UNCHANGED <<nodes, nextSeq>>
      /\ n \in InWave(r, r.currentWave, "succeeded")
  BY DEF QuarantineNode
<1> HIDE DEF r
<1>4. marked \in Release
  BY <1>1 DEF Release
<1>5. /\ marked.input = r.input /\ marked.wave = r.wave
      /\ marked.currentWave = r.currentWave /\ marked.result = r.result
      /\ marked.lastWave = r.lastWave /\ marked.quarantined = r.quarantined \cup {n}
      /\ marked.state = r.state /\ marked.plan = r.plan
      /\ RecordView(marked) = RecordView(r)
  BY <1>1 DEF Release, RecordView
<1> HIDE DEF marked
<1>6. n \in Succeeded(r)
  BY <1>3 DEF InWave, WaveNodes, Succeeded
<1>7. Ordered(marked) /\ Carries(r, marked)
  BY <1>1, <1>5, <1>6, EvidenceOrdered, PlanKeptCarries DEF Ordered
<1>8. /\ quarantined \in Release /\ GateView(quarantined) = GateView(marked)
      /\ LifeView(quarantined) = LifeView(marked) /\ Carries(marked, quarantined)
  BY <1>4, EmitToType, EmitToFrame, EmitToLife, EmitToCarries DEF NodeNotice
<1> HIDE DEF quarantined
<1>9. Ordered(quarantined)
  BY <1>7, <1>8, ViewsOrdered
<1>10. Carries(quarantined, x)
  BY <1>1, <1>8, <1>9, EvaluateHealthLockedCarries
<1> HIDE DEF x
<1>11. Carries(releases[id], x)
  BY <1>2, <1>7, <1>8, <1>10, CarriesTransitive
<1> QED BY <1>3, <1>11, CommitQuiet

LEMMA RestartQuiet ==
    ASSUME WaveInv, Restart
    PROVE  Quiet
<1>1. /\ releases' = [i \in Created |-> Reloaded(releases[i])]
      /\ UNCHANGED <<nodes, nextSeq>>
  BY DEF Restart
<1>2. ASSUME NEW r \in Release PROVE Carries(r, Reloaded(r))
  <2>1. /\ RecordView(Reloaded(r)) = RecordView(r) /\ Reloaded(r).plan = r.plan
        /\ Reloaded(r).state = r.state
    BY DEF Reloaded, RecordView, Release
  <2> QED BY <2>1, PlanKeptCarries
<1>3. \A i \in Created : releases[i] \in Release
  BY DEF WaveInv, Inv, TypeOK
<1>4. Created' = Created
  BY <1>1 DEF Created
<1> QED BY <1>1, <1>2, <1>3, <1>4 DEF Quiet

-----------------------------------------------------------------------------
(* The handlers that move a node *)

\* What x keeps of b when it moves node n to digest d: everything but the result, the
\* restored mark and the live entry of n.
MovesOn(b, x, n, d) ==
    /\ x.seq = b.seq /\ x.input = b.input
    /\ n \in Succeeded(x)
    /\ d = IF n \in x.restored THEN x.prev[n] ELSE x.input.digest
    /\ \A m \in Node \ {n} : /\ x.prev[m] = b.prev[m]
                             /\ m \in x.restored <=> m \in b.restored
                             /\ m \in Succeeded(x) <=> m \in Succeeded(b)
    /\ Standing(x) /\ EndedIsOver(x)
    /\ \A m \in Node : EntryLive(x, m) => /\ m # n /\ EntryLive(b, m)
                                          /\ x.plan.entry[m].baseline
                                                 = b.plan.entry[m].baseline

\* A release moves a node: the plans of the others that waited for the node are
\* void, unless a newer release has moved the node already.
MovesNode(id, n, d) ==
    /\ AdvanceNode(n, releases[id].seq, d)
    /\ MovesOn(releases[id], releases'[id], n, d)
    /\ Created' = Created /\ nextSeq' = nextSeq
    /\ \A i \in Created \ {id} :
          /\ Carries(releases[i], releases'[i])
          /\ releases[id].seq >= nodes[n].releaseSeq => ~EntryLive(releases'[i], n)

\* AdvanceNode as seen by everyone else.
LEMMA AdvanceNodeMoves ==
    ASSUME TypeOK, NEW n \in Node, NEW seq \in Nat, NEW d, AdvanceNode(n, seq, d)
    PROVE  /\ \A m \in Node \ {n} : nodes'[m] = nodes[m]
           /\ nodes'[n].releaseSeq >= nodes[n].releaseSeq
           /\ nodes'[n].releaseSeq >= seq
           /\ \/ /\ seq >= nodes[n].releaseSeq
                 /\ nodes'[n].releaseSeq = seq /\ nodes'[n].digest = d
              \/ ~(seq >= nodes[n].releaseSeq) /\ nodes' = nodes
<1>1. nodes \in [Node -> NodeState] /\ nodes[n].releaseSeq \in Nat
  BY DEF TypeOK, NodeState
<1>2. CASE seq >= nodes[n].releaseSeq
  <2>1. nodes' = [nodes EXCEPT ![n] =
                     [appliedSeq |-> appliedSeq + 1, releaseSeq |-> seq, digest |-> d]]
    BY <1>2 DEF AdvanceNode
  <2> QED BY <1>1, <1>2, <2>1
<1>3. CASE ~(seq >= nodes[n].releaseSeq)
  <2>1. nodes' = nodes
    BY <1>3 DEF AdvanceNode
  <2> QED BY <1>1, <1>3, <2>1
<1> QED BY <1>2, <1>3

LEMMA MovePlans ==
    ASSUME TypeOK, Plans, NEW id \in Created, NEW n \in Node, NEW d, MovesNode(id, n, d)
    PROVE  Plans'
<1> DEFINE b == releases[id]
           x == releases'[id]
<1>0. /\ AdvanceNode(n, b.seq, d) /\ MovesOn(b, x, n, d)
      /\ Created' = Created /\ nextSeq' = nextSeq
      /\ \A i \in Created \ {id} :
            /\ Carries(releases[i], releases'[i])
            /\ b.seq >= nodes[n].releaseSeq => ~EntryLive(releases'[i], n)
      /\ releases'[id] = x
  BY DEF MovesNode
<1> USE <1>0
<1>1. b.seq \in Nat /\ b.seq >= 1 /\ \A i \in Created : releases[i].seq \in Nat
  BY DEF Plans, SeqsUnique, TypeOK
<1>2. /\ \A m \in Node \ {n} : nodes'[m] = nodes[m]
      /\ nodes'[n].releaseSeq >= nodes[n].releaseSeq
      /\ nodes'[n].releaseSeq >= b.seq
      /\ \/ /\ b.seq >= nodes[n].releaseSeq
            /\ nodes'[n].releaseSeq = b.seq /\ nodes'[n].digest = d
         \/ ~(b.seq >= nodes[n].releaseSeq) /\ nodes' = nodes
  BY <1>1, AdvanceNodeMoves
<1>3. nodes[n].releaseSeq \in Nat /\ nodes'[n].releaseSeq \in Nat
  BY <1>1, <1>2 DEF TypeOK, NodeState
<1> HIDE DEF b, x
<1>4. /\ x.seq = b.seq /\ x.input = b.input /\ x.result[n] = "succeeded"
      /\ d = IF n \in x.restored THEN x.prev[n] ELSE x.input.digest
      /\ \A m \in Node \ {n} :
            /\ x.prev[m] = b.prev[m] /\ (m \in x.restored <=> m \in b.restored)
            /\ x.result[m] = "succeeded" <=> b.result[m] = "succeeded"
  BY DEF MovesOn, Succeeded, b
<1>5. ASSUME NEW i \in Created, i # id
      PROVE  /\ releases'[i].seq = releases[i].seq
             /\ releases'[i].input = releases[i].input
             /\ releases'[i].prev = releases[i].prev
             /\ releases'[i].restored = releases[i].restored
             /\ \A m \in Node : releases'[i].result[m] = "succeeded"
                                    <=> releases[i].result[m] = "succeeded"
  BY <1>5 DEF Carries, Succeeded
<1>6. \A i \in Created : releases'[i].seq = releases[i].seq
  BY <1>4, <1>5 DEF b
<1>7. SeqsUnique'
  BY <1>6 DEF Plans, SeqsUnique
<1>8. ASSUME NEW i \in Created, NEW m \in Node, releases'[i].result[m] = "succeeded"
      PROVE  nodes'[m].releaseSeq >= releases'[i].seq
  <2>1. CASE m # n
    <3>1. releases[i].result[m] = "succeeded"
      BY <1>4, <1>5, <1>8, <2>1 DEF b
    <3>2. nodes[m].releaseSeq >= releases[i].seq
      BY <3>1 DEF Plans, AppliedVersionExplained
    <3> QED BY <1>2, <1>6, <2>1, <3>2
  <2>2. CASE m = n /\ i # id
    <3>1. releases[i].result[n] = "succeeded"
      BY <1>5, <1>8, <2>2
    <3>2. nodes[n].releaseSeq >= releases[i].seq
      BY <3>1 DEF Plans, AppliedVersionExplained
    <3> QED BY <1>1, <1>2, <1>3, <1>6, <2>2, <3>2
  <2>3. CASE m = n /\ i = id
    BY <1>2, <1>6, <2>3 DEF b
  <2> QED BY <2>1, <2>2, <2>3
<1>9. ASSUME NEW m \in Node, nodes'[m].releaseSeq # 0 \/ m = n
      PROVE  nodes'[m].releaseSeq # 0 /\ \E i \in Created : Explains(releases[i], m)'
  <2>1. CASE m # n
    <3>1. nodes'[m] = nodes[m] /\ nodes[m].releaseSeq # 0
      BY <1>2, <1>9, <2>1
    <3>2. PICK i \in Created : Explains(releases[i], m)
      BY <3>1 DEF Plans, AppliedVersionExplained
    <3>3. Explains(releases[i], m)'
      <4>1. CASE i = id
        BY <1>4, <2>1, <3>1, <3>2, <4>1 DEF Explains, b
      <4>2. CASE i # id
        BY <1>5, <3>1, <3>2, <4>2 DEF Explains
      <4> QED BY <4>1, <4>2
    <3> QED BY <3>1, <3>3
  <2>2. CASE m = n /\ nodes'[n].releaseSeq = b.seq /\ nodes'[n].digest = d
    <3>1. Explains(releases[id], n)'
      BY <1>4, <2>2 DEF Explains
    <3> QED BY <1>1, <2>2, <3>1
  <2>3. CASE m = n /\ ~(b.seq >= nodes[n].releaseSeq) /\ nodes' = nodes
    <3>1. nodes[n].releaseSeq # 0
      BY <1>1, <1>3, <2>3
    <3>2. PICK i \in Created : Explains(releases[i], n)
      BY <3>1 DEF Plans, AppliedVersionExplained
    <3>3. i # id
      BY <1>1, <1>3, <2>3, <3>2 DEF Explains, b
    <3>4. Explains(releases[i], n)'
      BY <1>5, <2>3, <3>2, <3>3 DEF Explains
    <3> QED BY <2>3, <3>1, <3>4
  <2> QED BY <1>2, <2>1, <2>2, <2>3
<1>10. ASSUME NEW m \in Node, nodes'[m].releaseSeq = 0
       PROVE  nodes'[m] = NeverApplied
  <2>1. m # n
    BY <1>9, <1>10
  <2>2. nodes'[m] = nodes[m]
    BY <1>2, <2>1
  <2> QED BY <1>10, <2>2 DEF Plans, AppliedVersionExplained
<1>11. AppliedVersionExplained'
  <2>1. ASSUME NEW m \in Node
        PROVE  IF nodes'[m].releaseSeq = 0 THEN nodes'[m] = NeverApplied
               ELSE \E i \in Created' : Explains(releases[i], m)'
    BY <1>9, <1>10
  <2> QED BY <1>8, <2>1 DEF AppliedVersionExplained
<1>12. /\ Standing(x) /\ EndedIsOver(x) /\ Waiting(releases[id])'
  <2>1. Standing(x) /\ EndedIsOver(x)
    BY DEF MovesOn
  <2>2. ASSUME NEW m \in Node, EntryLive(x, m)
        PROVE  /\ m \in Succeeded(x) /\ nodes'[m].appliedSeq = x.plan.entry[m].baseline
               /\ nodes'[m].releaseSeq = x.seq
    <3>1. m # n /\ EntryLive(b, m) /\ x.plan.entry[m].baseline = b.plan.entry[m].baseline
      BY <2>2 DEF MovesOn, b
    <3>2. m \in Succeeded(b) /\ BaselineCurrent(b, m) /\ nodes[m].releaseSeq = b.seq
      BY <3>1 DEF Plans, Waiting, b
    <3> QED BY <1>2, <1>4, <3>1, <3>2 DEF BaselineCurrent, Succeeded
  <2> QED BY <2>1, <2>2 DEF Waiting, BaselineCurrent
<1>13. ASSUME NEW i \in Created, i # id
       PROVE  /\ Standing(releases'[i]) /\ EndedIsOver(releases'[i])
              /\ Waiting(releases[i])'
  <2>1. /\ Carries(releases[i], releases'[i])
        /\ Standing(releases[i]) /\ EndedIsOver(releases[i]) /\ Waiting(releases[i])
    BY <1>13 DEF Plans
  <2>2. Standing(releases'[i]) /\ EndedIsOver(releases'[i])
    BY <2>1 DEF Standing, Carries
  <2>3. ASSUME NEW m \in Node, EntryLive(releases'[i], m)
        PROVE  nodes'[m] = nodes[m]
    BY <1>2, <1>13, <2>3 DEF b
  <2>4. Waiting(releases[i])'
    BY <2>1, <2>3 DEF Waiting, Carries, BaselineCurrent, EntryLive
  <2> QED BY <2>2, <2>4
<1> QED BY <1>7, <1>11, <1>12, <1>13 DEF Plans

\* The other releases when one moves a node that they counted on.
LEMMA AbortSupersededCarries ==
    ASSUME TypeOK, Plans, NEW id, NEW n \in Node, NEW i \in Created, i # id
    PROVE  LET a == AbortSupersededCatchupLocked(id, n)[i]
           IN  Carries(releases[i], a) /\ ~EntryLive(a, n)
<1> DEFINE r == releases[i]
           a == AbortSupersededCatchupLocked(id, n)[i]
<1>1. r \in Release /\ EndedIsOver(r)
  BY DEF TypeOK, Plans
<1>2. a = IF r.plan.entry[n].state # "none" THEN AbortCatchupLocked(r) ELSE r
  BY DEF AbortSupersededCatchupLocked
<1> HIDE DEF r, a
<1>3. /\ Carries(r, AbortCatchupLocked(r))
      /\ r.plan.state \in LiveCatchup => ~EntryLive(AbortCatchupLocked(r), n)
  BY <1>1, AbortCatchupLockedCarries
<1>4. CASE r.plan.entry[n].state = "none"
  <2>1. a = r /\ ~EntryLive(r, n)
    BY <1>2, <1>4 DEF EntryLive, LiveCatchup
  <2> QED BY <2>1, PlanKeptCarries DEF r, a
<1>5. CASE r.plan.entry[n].state # "none" /\ r.plan.state \in LiveCatchup
  BY <1>2, <1>3, <1>5 DEF r, a
<1>6. CASE r.plan.entry[n].state # "none" /\ r.plan.state \notin LiveCatchup
  <2>1. a = r
    BY <1>2, <1>6 DEF AbortCatchupLocked
  <2>2. ~EntryLive(r, n)
    BY <1>1, <1>6 DEF EndedIsOver, PlanLive
  <2> QED BY <2>1, <2>2, PlanKeptCarries DEF r, a
<1> QED BY <1>4, <1>5, <1>6

\* A receipt records a new success and the digest that the node had before it.
LEMMA AckSucceededMoves ==
    ASSUME WaveInv, Plans, NEW id \in Created, NEW n \in Node, AckSucceeded(id, n)
    PROVE  /\ MovesNode(id, n, releases[id].input.digest)
           /\ nodes[n].releaseSeq <= releases[id].seq
           /\ n \notin Succeeded(releases[id]) /\ n \notin releases'[id].restored
           /\ releases'[id].prev[n] = nodes[n].digest
<1> DEFINE b == releases[id]
           r == EvaluateLocked(b, now)
           prev == [r.prev EXCEPT ![n] = nodes[n].digest]
           result == [r.result EXCEPT ![n] = "succeeded"]
           marked == [r EXCEPT !.result = result, !.prev = prev]
           s == EmitTo(marked, "node.succeeded", {n})
           others == AbortSupersededCatchupLocked(id, n)
           x == AfterSuccess(s)
<1>1. /\ r \in Release /\ Coherent(r) /\ Ordered(r) /\ Carries(b, r) /\ now \in Int
  BY SettledWaves, NowType, EvaluateLockedCarries DEF WaveInv, Inv, TypeOK
<1>2. /\ ReceiptAccepted(r, n) /\ releases' = [others EXCEPT ![id] = x]
      /\ AdvanceNode(n, r.seq, r.input.digest) /\ nextSeq' = nextSeq
      /\ nodes[n].releaseSeq <= r.seq
  BY DEF AckSucceeded, ReceiptAccepted
<1>3. EndedIsOver(b) /\ Waiting(b)
  BY DEF Plans
<1>4. nodes[n].digest \in Digest \cup {NoDigest}
  BY DEF WaveInv, Inv, TypeOK, NodeState
<1> HIDE DEF r, b
<1>5. r.state = "active" /\ r.result[n] # "succeeded" /\ r.wave[n] = r.currentWave
  BY <1>2 DEF ReceiptAccepted
<1>6. r.restored = {}
  BY <1>1, <1>5 DEF Coherent, RollbackCoherent, Withdrawn
<1>7. /\ result \in [Node -> NodeResult] /\ prev \in [Node -> Digest \cup {NoDigest}]
      /\ result[n] = "succeeded" /\ prev[n] = nodes[n].digest
      /\ \A m \in Node : m # n => result[m] = r.result[m] /\ prev[m] = r.prev[m]
  BY <1>1, <1>4 DEF Release, NodeResult
<1> HIDE DEF result, prev
<1>8. marked \in Release
  BY <1>1, <1>7 DEF Release
<1>9. /\ marked.seq = r.seq /\ marked.input = r.input /\ marked.prev = prev
      /\ marked.restored = r.restored /\ marked.result = result /\ marked.plan = r.plan
      /\ marked.state = r.state /\ marked.wave = r.wave
      /\ marked.currentWave = r.currentWave /\ marked.lastWave = r.lastWave
      /\ marked.quarantined = r.quarantined
  BY <1>1 DEF Release
<1> HIDE DEF marked
<1>10. Ordered(marked)
  BY <1>1, <1>5, <1>7, <1>9, ResultOrdered
<1>11. /\ s \in Release /\ GateView(s) = GateView(marked) /\ LifeView(s) = LifeView(marked)
       /\ Carries(marked, s)
  BY <1>8, EmitToType, EmitToFrame, EmitToLife, EmitToCarries DEF NodeNotice
<1> HIDE DEF s
<1>12. Ordered(s) /\ s.state = "active"
  BY <1>5, <1>9, <1>10, <1>11, ViewsOrdered DEF LifeView
<1>13. Carries(s, x)
  BY <1>1, <1>11, <1>12, AfterSuccessCarries
<1> HIDE DEF x
<1>14. Carries(marked, x)
  BY <1>11, <1>13, CarriesTransitive
<1>15. Succeeded(x) = Succeeded(b) \cup {n} /\ n \notin Succeeded(b)
  <2>1. Succeeded(marked) = Succeeded(r) \cup {n} /\ n \notin Succeeded(r)
    BY <1>5, <1>7, <1>9 DEF Succeeded
  <2> QED BY <1>1, <1>14, <2>1 DEF Carries
<1>16. EndedIsOver(x) /\ Standing(x)
  <2>1. EndedIsOver(marked)
    BY <1>1, <1>3, <1>9 DEF Carries, EndedIsOver, EntryLive, PlanLive
  <2> QED BY <1>5, <1>9, <1>14, <2>1 DEF Carries, Standing, Stands
<1>17. ASSUME NEW m \in Node, EntryLive(x, m)
       PROVE  /\ m # n /\ EntryLive(b, m)
              /\ x.plan.entry[m].baseline = b.plan.entry[m].baseline
  <2>1. /\ EntryLive(r, m) /\ x.plan.entry[m].baseline = r.plan.entry[m].baseline
    BY <1>9, <1>14, <1>17 DEF Carries, EntryLive
  <2>2. EntryLive(b, m) /\ x.plan.entry[m].baseline = b.plan.entry[m].baseline
    BY <1>1, <2>1 DEF Carries
  <2> QED BY <1>3, <1>15, <2>2 DEF Waiting
<1>18. /\ x.seq = b.seq /\ x.input = b.input /\ x.prev = prev /\ x.restored = {}
       /\ r.prev = b.prev /\ b.restored = {} /\ r.input = b.input /\ r.seq = b.seq
  BY <1>1, <1>6, <1>9, <1>14 DEF Carries
<1>19. DOMAIN others = Created
  BY DEF AbortSupersededCatchupLocked
<1>20. \A i \in Created \ {id} : Carries(releases[i], others[i]) /\ ~EntryLive(others[i], n)
  BY AbortSupersededCarries DEF WaveInv, Inv
<1> HIDE DEF others
<1>21. /\ Created' = Created /\ releases'[id] = x
       /\ \A i \in Created \ {id} : releases'[i] = others[i]
  BY <1>2, <1>19 DEF Created
<1>22. MovesOn(b, x, n, b.input.digest)
  BY <1>7, <1>15, <1>16, <1>17, <1>18 DEF MovesOn
<1>23. MovesNode(id, n, b.input.digest)
  BY <1>2, <1>18, <1>20, <1>21, <1>22 DEF MovesNode, b
<1> QED BY <1>2, <1>7, <1>15, <1>18, <1>21, <1>23 DEF b

\* A rollback restores the nodes that run its release, and nobody else waits for those.
LEMMA ConfirmRollbackMoves ==
    ASSUME WaveInv, Plans, NEW id \in Created, NEW n \in Node, ConfirmRollback(id, n)
    PROVE  /\ MovesNode(id, n, releases[id].prev[n])
           /\ n \in Succeeded(releases[id]) \ releases[id].restored
           /\ n \in releases'[id].restored
<1> DEFINE r == releases[id]
           restored == r.restored \cup {n}
           marked == [r EXCEPT !.restored = restored]
           confirmed == EmitTo(marked, "node.restored", {n})
           done == [confirmed EXCEPT !.state = "rolled_back"]
           ended == Emit(done, "release.rolledback")
           x == IF confirmed.restored = confirmed.planned
                THEN CompleteRollbackLocked(confirmed) ELSE confirmed
<1>1. /\ r \in Release /\ Coherent(r) /\ r.state = "rolling_back"
      /\ n \in r.planned \ r.restored /\ EndedIsOver(r) /\ Standing(r)
      /\ Commit(id, x) /\ AdvanceNode(n, r.seq, r.prev[n]) /\ nextSeq' = nextSeq
  BY DEF WaveInv, Inv, TypeOK, ConfirmRollback, Plans
<1>2. n \in Succeeded(r)
  BY <1>1 DEF Coherent, RollbackCoherent, Withdrawn
<1>3. ~PlanLive(r) /\ \A m \in Node : ~EntryLive(r, m)
  BY <1>1 DEF Standing, EndedIsOver, Stands
<1>4. \A i \in Created \ {id} : r.seq >= nodes[n].releaseSeq => ~EntryLive(releases[i], n)
  <2>1. SUFFICES ASSUME NEW i \in Created \ {id}, r.seq >= nodes[n].releaseSeq,
                        EntryLive(releases[i], n)
                 PROVE  FALSE
    OBVIOUS
  <2>2. nodes[n].releaseSeq = releases[i].seq
    BY <2>1 DEF Plans, Waiting
  <2>3. nodes[n].releaseSeq >= r.seq
    BY <1>2 DEF Plans, AppliedVersionExplained, Succeeded
  <2>4. nodes[n].releaseSeq \in Nat /\ r.seq \in Nat
    BY <1>1 DEF WaveInv, Inv, TypeOK, NodeState, Release
  <2>5. releases[i].seq = r.seq
    BY <2>1, <2>2, <2>3, <2>4
  <2> QED BY <2>5 DEF Plans, SeqsUnique
<1> HIDE DEF r
<1>5. marked \in Release
  BY <1>1 DEF Release
<1>6. /\ marked.seq = r.seq /\ marked.input = r.input /\ marked.prev = r.prev
      /\ marked.restored = restored /\ marked.result = r.result /\ marked.plan = r.plan
  BY <1>1 DEF Release
<1> HIDE DEF marked
<1>7. confirmed \in Release /\ Carries(marked, confirmed)
  BY <1>5, EmitToType, EmitToCarries DEF NodeNotice
<1>8. x = ended \/ x = confirmed
  BY DEF CompleteRollbackLocked
<1> HIDE DEF confirmed
<1>9. /\ done \in Release /\ RecordView(done) = RecordView(confirmed)
      /\ done.plan = confirmed.plan
  BY <1>7 DEF RecordView, Release, ReleaseState
<1> HIDE DEF done
<1>10. ~PlanLive(confirmed) /\ \A m \in Node : ~EntryLive(confirmed, m)
  BY <1>3, <1>6, <1>7 DEF Carries, PlanLive, EntryLive
<1>11. Carries(marked, done)
  BY <1>7, <1>9, <1>10 DEF Carries, RecordView, Succeeded, EndedIsOver, PlanLive, EntryLive
<1>12. Carries(marked, x)
  BY <1>7, <1>8, <1>9, <1>11, EmitCarries, CarriesTransitive
<1> HIDE DEF x
<1>13. /\ x.seq = r.seq /\ x.input = r.input /\ x.prev = r.prev /\ x.restored = restored
  BY <1>6, <1>12 DEF Carries
<1>14. MovesOn(r, x, n, r.prev[n])
  <2>1. Succeeded(x) = Succeeded(r)
    BY <1>6, <1>12 DEF Carries, Succeeded
  <2>2. ~PlanLive(x) /\ \A m \in Node : ~EntryLive(x, m)
    BY <1>3, <1>6, <1>12 DEF Carries, PlanLive, EntryLive
  <2> QED BY <1>2, <1>13, <2>1, <2>2 DEF MovesOn, Standing, EndedIsOver
<1>15. /\ Created' = Created /\ releases'[id] = x
       /\ \A i \in Created \ {id} : releases'[i] = releases[i]
  BY <1>1 DEF Commit, Created
<1>16. \A i \in Created : Carries(releases[i], releases[i])
  BY PlanKeptCarries
<1>17. MovesNode(id, n, r.prev[n])
  BY <1>1, <1>4, <1>14, <1>15, <1>16 DEF MovesNode, r
<1> QED BY <1>1, <1>2, <1>13, <1>15, <1>17 DEF r

-----------------------------------------------------------------------------
(* A new release, and every step of Rollout *)

LEMMA NewReleasePlans ==
    ASSUME NEW in \in Input, ValidInput(in), NEW seq \in Nat
    PROVE  LET x == NewRelease(seq, in, now)
           IN  /\ x.seq = seq /\ x.input = in /\ x.plan = NoPlan /\ ~PlanLive(x)
               /\ \A n \in Node : x.result[n] # "succeeded" /\ ~EntryLive(x, n)
<1> DEFINE empty == EmptyRelease(seq, in)
           created == Emit(empty, "release.created")
           result == [n \in Node |-> IF created.wave[n] = 0 THEN "in_progress"
                                     ELSE created.result[n]]
           opened == [created EXCEPT !.currentWave = 0, !.waveOpenedAt = now,
                                     !.thresholdMetAt = NotMet, !.result = result]
           x == NewRelease(seq, in, now)
<1>1. empty \in Release
  BY EmptyReleaseType
<1>2. /\ empty.seq = seq /\ empty.input = in /\ empty.plan = NoPlan
      /\ empty.result = [n \in Node |-> "pending"]
  BY DEF EmptyRelease
<1>3. x = [opened EXCEPT !.sent["wave.opened"] = @ + 1]
  BY DEF NewRelease, OpenWave, Emit
<1> HIDE DEF empty
<1>4. /\ created \in Release /\ created.seq = seq /\ created.input = in
      /\ created.plan = NoPlan /\ created.result = empty.result
  <2>1. created \in Release
    BY <1>1, EmitType DEF ReleaseNotice
  <2>2. /\ created.seq = empty.seq /\ created.input = empty.input
        /\ created.plan = empty.plan /\ created.result = empty.result
    BY <1>1 DEF Emit, Release
  <2> QED BY <1>2, <2>1, <2>2
<1> HIDE DEF created
<1>5. \A n \in Node : result[n] # "succeeded"
  BY <1>2, <1>4
<1> HIDE DEF result
<1>6. x.seq = seq /\ x.input = in /\ x.plan = NoPlan /\ x.result = result
  BY <1>3, <1>4 DEF Release
<1> HIDE DEF x
<1>7. ~PlanLive(x) /\ \A n \in Node : ~EntryLive(x, n)
  BY <1>6 DEF PlanLive, EntryLive, NoPlan, NoEntry, LiveCatchup
<1> QED BY <1>5, <1>6, <1>7 DEF x

LEMMA CreateReleasePlans ==
    ASSUME WaveInv, Plans, NEW id \in ReleaseId, NEW in \in Inputs, CreateRelease(id, in)
    PROVE  Plans'
<1> DEFINE new == NewRelease(nextSeq + 1, in, now)
<1>1. in \in Input /\ ValidInput(in) /\ nextSeq \in Nat /\ id \notin Created
  BY InputsAssumption DEF CreateRelease, WaveInv, Inv, TypeOK
<1>2. /\ new.seq = nextSeq + 1 /\ ~PlanLive(new)
      /\ \A n \in Node : new.result[n] # "succeeded" /\ ~EntryLive(new, n)
  BY <1>1, NewReleasePlans
<1>3. /\ releases' = [i \in Created \cup {id} |-> IF i = id THEN new ELSE releases[i]]
      /\ nodes' = nodes /\ nextSeq' = nextSeq + 1
  BY DEF CreateRelease
<1> HIDE DEF new
<1>4. /\ Created' = Created \cup {id} /\ releases'[id] = new
      /\ \A i \in Created : releases'[i] = releases[i]
  BY <1>1, <1>3 DEF Created
<1>5. SeqsUnique'
  <2>1. \A i \in Created : releases[i].seq \in 1 .. nextSeq
    BY DEF Plans, SeqsUnique
  <2>2. ASSUME NEW i \in Created' PROVE releases'[i].seq \in 1 .. nextSeq'
    BY <1>1, <1>2, <1>3, <1>4, <2>1
  <2>3. ASSUME NEW i \in Created', NEW j \in Created', releases'[i].seq = releases'[j].seq
        PROVE  i = j
    <3>1. CASE i \in Created /\ j \in Created
      BY <1>4, <2>3, <3>1 DEF Plans, SeqsUnique
    <3>2. CASE ~(i \in Created /\ j \in Created)
      BY <1>1, <1>2, <1>4, <2>1, <2>3, <3>2
    <3> QED BY <3>1, <3>2
  <2> QED BY <2>2, <2>3 DEF SeqsUnique
<1>6. AppliedVersionExplained'
  <2>1. \A i \in Created, n \in Node : Explains(releases[i], n) => Explains(releases[i], n)'
    BY <1>3, <1>4 DEF Explains
  <2> QED BY <1>2, <1>3, <1>4, <2>1 DEF Plans, AppliedVersionExplained
<1>7. ASSUME NEW i \in Created'
      PROVE  /\ Standing(releases'[i]) /\ EndedIsOver(releases'[i])
             /\ Waiting(releases[i])'
  <2>1. CASE i = id
    BY <1>2, <1>4, <2>1 DEF Standing, EndedIsOver, Waiting
  <2>2. CASE i # id
    <3>1. i \in Created /\ releases'[i] = releases[i]
      BY <1>4, <2>2
    <3> QED BY <1>3, <3>1 DEF Plans, Waiting, BaselineCurrent
  <2> QED BY <2>1, <2>2
<1> QED BY <1>5, <1>6, <1>7 DEF Plans

LEMMA NextPlans ==
    ASSUME WaveInv, Plans, [Next]_vars
    PROVE  Plans'
<1>1. CASE UNCHANGED vars \/ ClockTick
  <2>1. releases' = releases /\ nodes' = nodes /\ nextSeq' = nextSeq
    BY <1>1 DEF vars, ClockTick
  <2>2. Quiet
    BY <2>1, PlanKeptCarries DEF Quiet, Created
  <2> QED BY <2>2, QuietPlans
<1>2. ASSUME NEW id \in Created,
             TickTimeout(id) \/ Pause(id) \/ Resume(id) \/ Cancel(id)
      PROVE  Plans'
  BY <1>2, TickTimeoutQuiet, PauseQuiet, ResumeQuiet, CancelQuiet, QuietPlans
<1>3. ASSUME NEW id \in Created, NEW n \in Node,
             \/ AckReceipt(id, n) \/ QuarantineNode(id, n)
             \/ QuarantineAgain(id, n) \/ ConfirmRollback(id, n)
      PROVE  Plans'
  <2>1. CASE AckSucceeded(id, n) \/ ConfirmRollback(id, n)
    BY <2>1, AckSucceededMoves, ConfirmRollbackMoves, MovePlans DEF WaveInv, Inv
  <2>2. CASE ~(AckSucceeded(id, n) \/ ConfirmRollback(id, n))
    BY <1>3, <2>2, TickTimeoutQuiet, AckFailedQuiet, QuarantineNodeQuiet, QuietPlans
       DEF AckReceipt, AckIgnored, QuarantineAgain
  <2> QED BY <2>1, <2>2
<1>4. ASSUME NEW id \in Created, NEW n \in Node, NEW event \in SampleId,
             NEW healthy \in BOOLEAN, ReportHealth(id, n, event, healthy)
      PROVE  Plans'
  BY <1>4, ReportHealthQuiet, QuietPlans
<1>5. CASE Restart
  BY <1>5, RestartQuiet, QuietPlans
<1>6. ASSUME NEW id \in ReleaseId, NEW in \in Inputs, CreateRelease(id, in)
      PROVE  Plans'
  BY <1>6, CreateReleasePlans
<1> QED BY <1>1, <1>2, <1>3, <1>4, <1>5, <1>6 DEF Next

-----------------------------------------------------------------------------
(* The operations on plans *)

PlanInv == WaveInv /\ Plans

\* Nothing but plans, remediated nodes and events changes in these operations.
LEMMA ViewsKept ==
    ASSUME NEW r, NEW x, Coherent(r), Ordered(r), GateView(x) = GateView(r),
           RollbackView(x) = RollbackView(r), LifeView(x) = LifeView(r)
    PROVE  Coherent(x) /\ Ordered(x)
BY CoherentFrame, ViewsOrdered

LEMMA AbortCatchupKeeps ==
    ASSUME NEW r \in Release, Coherent(r), Ordered(r)
    PROVE  LET x == AbortCatchupLocked(r)
           IN  x \in Release /\ Coherent(x) /\ Ordered(x) /\ Carries(r, x)
BY AbortCatchupLockedType, AbortCatchupLockedFrame, AbortCatchupLockedLife,
   AbortCatchupLockedCarries, ViewsKept

\* The release an operation meets, as the lazy evaluation left it.
LEMMA EvaluatedKeeps ==
    ASSUME WaveInv, NEW id \in Created
    PROVE  LET r == EvaluateLocked(releases[id], now)
           IN  r \in Release /\ Coherent(r) /\ Ordered(r) /\ Carries(releases[id], r)
BY SettledWaves, NowType, EvaluateLockedCarries DEF WaveInv, Inv, TypeOK

LEMMA SettledKeeps ==
    ASSUME WaveInv, NEW id \in Created
    PROVE  LET r == Settled(id)
           IN  r \in Release /\ Coherent(r) /\ Ordered(r) /\ Carries(releases[id], r)
<1> DEFINE b == releases[id]
           e == EvaluateLocked(b, now)
<1>1. e \in Release /\ Coherent(e) /\ Ordered(e) /\ Carries(b, e)
  BY EvaluatedKeeps
<1>2. Settled(id) = e \/ Settled(id) = AbortCatchupLocked(e)
  BY DEF Settled, MaybeAbortCatchupForStateLocked
<1> HIDE DEF e
<1>3. LET x == AbortCatchupLocked(e)
      IN  x \in Release /\ Coherent(x) /\ Ordered(x) /\ Carries(b, x)
  BY <1>1, AbortCatchupKeeps, CarriesTransitive
<1> QED BY <1>1, <1>2, <1>3

LEMMA CommitWaveInv ==
    ASSUME WaveInv, NEW id \in Created, NEW x \in Release, Coherent(x), Ordered(x),
           Commit(id, x), UNCHANGED <<nodes, appliedSeq, nextSeq, now>>
    PROVE  WaveInv'
<1>1. nodes' \in [Node -> NodeState] /\ appliedSeq' \in Nat
  BY DEF WaveInv, Inv, TypeOK
<1>2. Inv'
  BY <1>1, CommitPreserves DEF WaveInv
<1>3. \A i \in Created' : Ordered(releases'[i])
  BY DEF Commit, Created, WaveInv
<1> QED BY <1>2, <1>3 DEF WaveInv

\* An operation that moves no node and adds nothing to a plan.
LEMMA CommitPlanInv ==
    ASSUME PlanInv, NEW id \in Created, NEW x \in Release, Coherent(x), Ordered(x),
           Carries(releases[id], x), Commit(id, x),
           UNCHANGED <<nodes, appliedSeq, nextSeq, now>>
    PROVE  PlanInv'
BY CommitWaveInv, CommitQuiet, QuietPlans DEF PlanInv

\* A plan for nodes that still run the release.
LEMMA NewPlanPlans ==
    ASSUME Plans, NEW id \in Created, NEW x, Commit(id, x), UNCHANGED <<nodes, nextSeq>>,
           x.seq = releases[id].seq, x.input = releases[id].input,
           x.prev = releases[id].prev, x.restored = releases[id].restored,
           Succeeded(x) = Succeeded(releases[id]),
           Standing(x), EndedIsOver(x), Waiting(x)
    PROVE  Plans'
<1>1. /\ Created' = Created /\ nodes' = nodes /\ nextSeq' = nextSeq
      /\ releases'[id] = x /\ \A i \in Created : i # id => releases'[i] = releases[i]
  BY DEF Commit, Created
<1>2. SeqsUnique'
  BY <1>1 DEF Plans, SeqsUnique
<1>3. \A i \in Created, n \in Node :
          releases'[i].result[n] = "succeeded" <=> releases[i].result[n] = "succeeded"
  BY <1>1 DEF Succeeded
<1>4. \A i \in Created : releases'[i].seq = releases[i].seq
  BY <1>1
<1>5. \A i \in Created, n \in Node : Explains(releases[i], n) => Explains(releases[i], n)'
  BY <1>1, <1>3 DEF Explains
<1>6. AppliedVersionExplained'
  BY <1>1, <1>3, <1>4, <1>5 DEF Plans, AppliedVersionExplained
<1>7. Waiting(releases[id])'
  BY <1>1 DEF Waiting, BaselineCurrent
<1>8. ASSUME NEW i \in Created, i # id
      PROVE  /\ Standing(releases'[i]) /\ EndedIsOver(releases'[i])
             /\ Waiting(releases[i])'
  BY <1>1, <1>8 DEF Plans, Waiting, BaselineCurrent
<1> QED BY <1>1, <1>2, <1>6, <1>7, <1>8 DEF Plans

\* A plan covers quarantined nodes, and only succeeded nodes are quarantined.
LEMMA CreateCatchupPreserves ==
    ASSUME PlanInv, NEW id \in Created, NEW replace, CreateCatchup(id, replace)
    PROVE  PlanInv'
<1> DEFINE b == releases[id]
           r == EvaluateLocked(b, now)
           todo == Remaining(r)
           replaced == AbortCatchupLocked(r)
           plan == NewPlan(todo)
           planned == [replaced EXCEPT !.attempt = @ + 1, !.plan = plan]
           x == Emit(planned, "catchup.created")
<1>1. r \in Release /\ Coherent(r) /\ Ordered(r) /\ Carries(b, r)
  BY EvaluatedKeeps DEF PlanInv
<1>2. /\ r.state \in Stands
      /\ Commit(id, IF todo = {} THEN replaced ELSE x)
      /\ UNCHANGED <<nodes, appliedSeq, nextSeq, now>>
  BY DEF CreateCatchup, Stands
<1>3. \A n \in Node : nodes[n].appliedSeq \in Nat /\ nodes[n].releaseSeq \in Nat
  BY DEF PlanInv, WaveInv, Inv, TypeOK, NodeState
<1>4. \A n \in todo : /\ n \in Node /\ n \in r.quarantined
                      /\ nodes[n].releaseSeq <= r.seq
  BY <1>1 DEF Remaining, Release
<1>5. /\ plan \in CatchupPlan
      /\ \A n \in Node : /\ plan.entry[n].state \in LiveCatchup => n \in todo
                         /\ n \in todo => plan.entry[n].baseline = nodes[n].appliedSeq
  <2> DEFINE entry == [n \in Node |->
                          IF n \in todo
                          THEN [NoEntry EXCEPT !.state = "pending",
                                               !.baseline = nodes[n].appliedSeq]
                          ELSE NoEntry]
  <2>1. plan = [state |-> "pending", entry |-> entry]
    BY DEF NewPlan
  <2>2. ASSUME NEW n \in Node
        PROVE  /\ entry[n] \in CatchupEntry
               /\ entry[n].state \in LiveCatchup => n \in todo
               /\ n \in todo => entry[n].baseline = nodes[n].appliedSeq
    <3>1. CASE n \in todo
      <4>1. entry[n] = [state |-> "pending", epoch |-> 0, leaseUntil |-> 0,
                        baseline |-> nodes[n].appliedSeq]
        BY <3>1 DEF NoEntry
      <4> HIDE DEF entry
      <4> QED BY <1>3, <3>1, <4>1 DEF CatchupEntry, EntryState, LiveCatchup
    <3>2. CASE n \notin todo
      <4>1. entry[n] = NoEntry
        BY <3>2
      <4> HIDE DEF entry
      <4> QED BY <3>2, <4>1 DEF NoEntry, CatchupEntry, EntryState, LiveCatchup
    <3> QED BY <3>1, <3>2
  <2>3. entry \in [Node -> CatchupEntry]
    BY <2>2
  <2> HIDE DEF entry
  <2> QED BY <2>1, <2>2, <2>3 DEF CatchupPlan, PlanState, LiveCatchup
<1>6. plan.state = "pending"
  BY DEF NewPlan
<1> HIDE DEF r, plan, todo
<1>7. /\ replaced \in Release /\ Coherent(replaced) /\ Ordered(replaced)
      /\ Carries(r, replaced)
  BY <1>1, AbortCatchupKeeps
<1>8. replaced.state = r.state
  BY <1>1, AbortCatchupLockedLife DEF LifeView
<1> HIDE DEF replaced
<1>9. CASE todo = {}
  <2>1. Carries(b, replaced)
    BY <1>1, <1>7, CarriesTransitive
  <2> QED BY <1>2, <1>7, <1>9, <2>1, CommitPlanInv
<1>10. CASE todo # {}
  <2>1. planned \in Release
    <3>1. plan \in CatchupPlan /\ replaced.attempt + 1 \in Nat
      BY <1>5, <1>7 DEF Release
    <3> QED BY <1>7, <3>1 DEF Release
  <2>2. /\ GateView(planned) = GateView(replaced) /\ LifeView(planned) = LifeView(replaced)
        /\ RollbackView(planned) = RollbackView(replaced)
        /\ RecordView(planned) = RecordView(replaced)
        /\ planned.plan = plan /\ planned.state = replaced.state
    BY <1>7 DEF GateView, LifeView, RollbackView, RecordView, Release
  <2> HIDE DEF planned
  <2>3. /\ x \in Release
        /\ GateView(x) = GateView(replaced) /\ LifeView(x) = LifeView(replaced)
        /\ RollbackView(x) = RollbackView(replaced)
    BY <2>1, <2>2, EmitType, EmitFrame, EmitLife DEF ReleaseNotice
  <2>4. RecordView(x) = RecordView(replaced) /\ x.plan = plan /\ x.state = r.state
    BY <1>8, <2>1, <2>2 DEF Emit, RecordView, Release
  <2> HIDE DEF x
  <2>5. WaveInv'
    BY <1>2, <1>7, <1>10, <2>3, ViewsKept, CommitWaveInv DEF PlanInv
  <2>6. /\ x.seq = b.seq /\ x.input = b.input /\ x.prev = b.prev
        /\ x.restored = b.restored /\ Succeeded(x) = Succeeded(b) /\ r.seq = b.seq
        /\ Succeeded(r) = Succeeded(b)
    BY <1>1, <1>7, <2>4 DEF RecordView, Carries, Succeeded
  <2>7. Standing(x) /\ EndedIsOver(x)
    BY <1>2, <1>6, <2>4 DEF Standing, EndedIsOver, PlanLive, LiveCatchup
  <2>8. ASSUME NEW n \in Node, EntryLive(x, n)
        PROVE  /\ n \in Succeeded(x) /\ BaselineCurrent(x, n)
               /\ nodes[n].releaseSeq = x.seq
    <3>1. n \in todo
      BY <1>5, <2>4, <2>8 DEF EntryLive
    <3>2. n \in Succeeded(b)
      BY <1>1, <1>4, <2>6, <3>1 DEF Ordered
    <3>3. nodes[n].releaseSeq >= b.seq
      BY <3>2 DEF PlanInv, Plans, AppliedVersionExplained, Succeeded
    <3>4. nodes[n].releaseSeq <= b.seq
      BY <1>4, <2>6, <3>1
    <3>5. nodes[n].releaseSeq \in Nat /\ b.seq \in Nat
      BY <1>1, <1>3, <2>6 DEF Release
    <3>6. nodes[n].releaseSeq = b.seq
      BY <3>3, <3>4, <3>5
    <3> QED BY <1>5, <2>4, <2>6, <3>1, <3>2, <3>6 DEF BaselineCurrent
  <2>9. Waiting(x)
    BY <2>8 DEF Waiting
  <2>10. Plans'
    BY <1>2, <1>10, <2>6, <2>7, <2>9, NewPlanPlans DEF PlanInv
  <2> QED BY <2>5, <2>10 DEF PlanInv
<1> QED BY <1>9, <1>10

LEMMA ClaimNothingPreserves ==
    ASSUME PlanInv, NEW id \in Created, ClaimNothing(id)
    PROVE  PlanInv'
BY SettledKeeps, CommitPlanInv DEF ClaimNothing, PlanInv

\* A set of nodes has a smallest one.
LEMMA SmallestNode ==
    ASSUME NEW S, S \subseteq Node, S # {}
    PROVE  \E n \in S : \A m \in S : n <= m
<1>1. S \subseteq Nat
  BY NodeAssumption
<1>2. \E n \in S : \A m \in S : ~ (<<m, n>> \in OpToRel(<, Nat))
  BY <1>1, NatLessThanWellFounded, WFMin
<1>3. PICK n \in S : \A m \in S : ~ (<<m, n>> \in OpToRel(<, Nat))
  BY <1>2
<1>4. ASSUME NEW m \in S PROVE n <= m
  <2>1. m \in Nat /\ n \in Nat
    BY <1>1
  <2>2. ~(m < n)
    BY <1>3, <2>1 DEF OpToRel
  <2> QED BY <2>1, <2>2
<1> QED BY <1>4

LEMMA ClaimNextPreserves ==
    ASSUME PlanInv, NEW id \in Created, ClaimNext(id)
    PROVE  PlanInv'
<1> DEFINE r == Settled(id)
           n == Candidate(r)
           epoch == r.plan.entry[n].epoch + 1
           entry == [r.plan.entry[n] EXCEPT !.state = "claimed", !.epoch = epoch,
                                            !.leaseUntil = now + LeaseTTL]
           plan == [ state |-> "claimed", entry |-> [r.plan.entry EXCEPT ![n] = entry] ]
           claimed == [r EXCEPT !.plan = plan]
<1>1. r \in Release /\ Coherent(r) /\ Ordered(r) /\ Carries(releases[id], r)
  BY SettledKeeps DEF PlanInv
<1>2. PlanLive(r) /\ Claimable(r) # {} /\ UNCHANGED <<nodes, appliedSeq, nextSeq, now>>
  BY DEF ClaimNext
<1>3. Commit(id, claimed) \/ Commit(id, AbortCatchupLocked(r))
  BY DEF ClaimNext
<1>4. now + LeaseTTL \in Int
  BY NowType, CatchupAssumption DEF PlanInv, WaveInv, Inv
<1> HIDE DEF r
<1>5. n \in Claimable(r)
  <2>1. Claimable(r) \subseteq Node
    BY DEF Claimable, FirstUnfinished, Entries
  <2> QED BY <1>2, <2>1, SmallestNode DEF Candidate
<1>6. n \in Node /\ EntryLive(r, n)
  BY <1>5 DEF Claimable, FirstUnfinished, Entries, EntryLive, LiveCatchup
<1> HIDE DEF n
<1>7. /\ r.plan \in CatchupPlan /\ r.plan.entry \in [Node -> CatchupEntry]
      /\ r.plan.entry[n] \in CatchupEntry
  BY <1>1, <1>6 DEF Release, CatchupPlan
<1>8. epoch \in Nat
  BY <1>7 DEF CatchupEntry
<1> HIDE DEF epoch
<1>9. entry \in CatchupEntry /\ entry.baseline = r.plan.entry[n].baseline
  BY <1>4, <1>7, <1>8 DEF CatchupEntry, EntryState, LiveCatchup
<1> HIDE DEF entry
<1>10. /\ plan \in CatchupPlan /\ plan.state = "claimed"
       /\ plan.entry = [r.plan.entry EXCEPT ![n] = entry]
  BY <1>6, <1>7, <1>9 DEF CatchupPlan, PlanState, LiveCatchup
<1> HIDE DEF plan
<1>11. claimed \in Release
  BY <1>1, <1>10 DEF Release
<1>12. /\ GateView(claimed) = GateView(r) /\ LifeView(claimed) = LifeView(r)
       /\ RollbackView(claimed) = RollbackView(r) /\ RecordView(claimed) = RecordView(r)
       /\ claimed.plan = plan /\ claimed.state = r.state
  BY <1>1 DEF GateView, LifeView, RollbackView, RecordView, Release
<1> HIDE DEF claimed
<1>13. \A m \in Node : EntryLive(claimed, m) =>
          /\ EntryLive(r, m)
          /\ claimed.plan.entry[m].baseline = r.plan.entry[m].baseline
  BY <1>6, <1>7, <1>9, <1>10, <1>12 DEF EntryLive
<1>14. Carries(r, claimed)
  <2>1. PlanLive(claimed)
    BY <1>10, <1>12 DEF PlanLive, LiveCatchup
  <2> QED BY <1>2, <1>12, <1>13, <2>1 DEF Carries, RecordView, Succeeded, EndedIsOver
<1>15. CASE Commit(id, claimed)
  BY <1>1, <1>2, <1>11, <1>12, <1>14, <1>15, ViewsKept, CarriesTransitive, CommitPlanInv
<1>16. CASE Commit(id, AbortCatchupLocked(r))
  BY <1>1, <1>2, <1>16, AbortCatchupKeeps, CarriesTransitive, CommitPlanInv
<1> QED BY <1>3, <1>15, <1>16

LEMMA ReportRefusedPreserves ==
    ASSUME PlanInv, NEW id \in Created, NEW n \in Node, ReportRefused(id, n)
    PROVE  PlanInv'
BY SettledKeeps, CommitPlanInv DEF ReportRefused, PlanInv

\* The plan of r when the entry of node n has got a result.
PlanWithResult(r, n, result) ==
    [r.plan EXCEPT !.entry = [r.plan.entry EXCEPT ![n] =
                                 [r.plan.entry[n] EXCEPT !.state = result]]]

LEMMA ResultEndsEntry ==
    ASSUME NEW r \in Release, NEW n \in Node, NEW result \in {"succeeded", "failed"}
    PROVE  LET plan == PlanWithResult(r, n, result)
           IN  /\ plan \in CatchupPlan /\ plan.state = r.plan.state
               /\ \A m \in Node : plan.entry[m].state \in LiveCatchup =>
                                      m # n /\ plan.entry[m] = r.plan.entry[m]
<1> DEFINE entry == [r.plan.entry[n] EXCEPT !.state = result]
           plan == PlanWithResult(r, n, result)
<1>1. /\ r.plan \in CatchupPlan /\ r.plan.entry \in [Node -> CatchupEntry]
      /\ r.plan.entry[n] \in CatchupEntry
  BY DEF Release, CatchupPlan
<1>2. entry \in CatchupEntry /\ entry.state \notin LiveCatchup
  BY <1>1 DEF CatchupEntry, EntryState, LiveCatchup
<1>3. plan = [r.plan EXCEPT !.entry = [r.plan.entry EXCEPT ![n] = entry]]
  BY DEF PlanWithResult
<1> HIDE DEF entry, plan
<1>4. /\ plan \in CatchupPlan /\ plan.state = r.plan.state
      /\ plan.entry = [r.plan.entry EXCEPT ![n] = entry]
  BY <1>1, <1>2, <1>3 DEF CatchupPlan
<1>5. \A m \in Node : plan.entry[m].state \in LiveCatchup =>
                          m # n /\ plan.entry[m] = r.plan.entry[m]
  BY <1>1, <1>2, <1>4
<1> QED BY <1>4, <1>5 DEF plan

LEMMA ReportFailedPreserves ==
    ASSUME PlanInv, NEW id \in Created, NEW n \in Node, NEW epoch,
           ReportFailed(id, n, epoch)
    PROVE  PlanInv'
<1> DEFINE r == Settled(id)
           plan == PlanWithResult(r, n, "failed")
           x == [r EXCEPT !.plan = plan]
<1>1. r \in Release /\ Coherent(r) /\ Ordered(r) /\ Carries(releases[id], r)
  BY SettledKeeps DEF PlanInv
<1>2. /\ Commit(id, [r EXCEPT !.plan.entry[n].state = "failed"])
      /\ UNCHANGED <<nodes, appliedSeq, nextSeq, now>>
  BY DEF ReportFailed
<1> HIDE DEF r
<1>3. Commit(id, x)
  <2>1. [r EXCEPT !.plan.entry[n].state = "failed"] = x
    BY DEF PlanWithResult
  <2> QED BY <1>2, <2>1
<1>4. /\ plan \in CatchupPlan /\ plan.state = r.plan.state
      /\ \A m \in Node : plan.entry[m].state \in LiveCatchup =>
                             m # n /\ plan.entry[m] = r.plan.entry[m]
  BY <1>1, ResultEndsEntry
<1> HIDE DEF plan
<1>5. x \in Release
  BY <1>1, <1>4 DEF Release
<1>6. /\ GateView(x) = GateView(r) /\ LifeView(x) = LifeView(r)
      /\ RollbackView(x) = RollbackView(r) /\ RecordView(x) = RecordView(r)
      /\ x.plan = plan /\ x.state = r.state
  BY <1>1 DEF GateView, LifeView, RollbackView, RecordView, Release
<1> HIDE DEF x
<1>7. Carries(r, x)
  BY <1>4, <1>6 DEF Carries, RecordView, Succeeded, EndedIsOver, PlanLive, EntryLive
<1> QED BY <1>1, <1>2, <1>3, <1>5, <1>6, <1>7, ViewsKept, CarriesTransitive, CommitPlanInv

\* The entry of n is over; the rest is as before.
LEMMA EntrySucceededKeeps ==
    ASSUME NEW r \in Release, Coherent(r), Ordered(r), NEW n \in Node, PlanLive(r)
    PROVE  LET x == EntrySucceeded(r, n)
           IN  /\ x \in Release /\ Coherent(x) /\ Ordered(x)
               /\ RecordView(x) = RecordView(r) /\ x.state = r.state
               /\ EndedIsOver(x)
               /\ \A m \in Node : EntryLive(x, m) =>
                     m # n /\ x.plan.entry[m] = r.plan.entry[m]
<1> DEFINE plan == PlanWithResult(r, n, "succeeded")
           remediated == r.remediated \cup {n}
           marked == [r EXCEPT !.plan = plan, !.remediated = remediated]
           s == EmitTo(marked, "node.catchup_succeeded", {n})
           ended == [s EXCEPT !.plan.state = "done"]
           donePlan == [s.plan EXCEPT !.state = "done"]
           done == [s EXCEPT !.plan = donePlan]
           x == EntrySucceeded(r, n)
<1>1. /\ plan \in CatchupPlan /\ plan.state = r.plan.state
      /\ \A m \in Node : plan.entry[m].state \in LiveCatchup =>
                             m # n /\ plan.entry[m] = r.plan.entry[m]
  BY ResultEndsEntry
<1>2. marked = [r EXCEPT !.plan.entry[n].state = "succeeded", !.remediated = @ \cup {n}]
  BY DEF PlanWithResult
<1>3. \/ /\ \A m \in Entries(s) : s.plan.entry[m].state = "succeeded"
         /\ x = Emit(ended, "catchup.completed")
      \/ x = s
  BY <1>2 DEF EntrySucceeded
<1> HIDE DEF plan
<1>4. marked \in Release
  BY <1>1 DEF Release
<1>5. /\ GateView(marked) = GateView(r) /\ LifeView(marked) = LifeView(r)
      /\ RollbackView(marked) = RollbackView(r) /\ RecordView(marked) = RecordView(r)
      /\ marked.plan = plan /\ marked.state = r.state
  BY DEF GateView, LifeView, RollbackView, RecordView, Release
<1> HIDE DEF marked
<1>6. /\ s \in Release /\ GateView(s) = GateView(r) /\ LifeView(s) = LifeView(r)
      /\ RollbackView(s) = RollbackView(r)
  BY <1>4, <1>5, EmitToType, EmitToFrame, EmitToLife DEF NodeNotice
<1>7. /\ RecordView(s) = RecordView(r) /\ s.plan = plan /\ s.state = r.state
  BY <1>4, <1>5 DEF EmitTo, RecordView, Release
<1> HIDE DEF s
<1>8. Coherent(s) /\ Ordered(s)
  BY <1>6, ViewsKept
<1>9. /\ EndedIsOver(s)
      /\ \A m \in Node : EntryLive(s, m) => m # n /\ s.plan.entry[m] = r.plan.entry[m]
  BY <1>1, <1>7 DEF EndedIsOver, PlanLive, EntryLive
<1>10. CASE x = s
  BY <1>6, <1>7, <1>8, <1>9, <1>10
<1>11. CASE /\ \A m \in Entries(s) : s.plan.entry[m].state = "succeeded"
            /\ x = Emit(ended, "catchup.completed")
  <2>1. ended = done
    BY <1>6 DEF Release
  <2>2. /\ donePlan \in CatchupPlan /\ donePlan.entry = s.plan.entry
    <3>1. s.plan \in CatchupPlan
      BY <1>6 DEF Release
    <3> QED BY <3>1 DEF CatchupPlan, PlanState
  <2> HIDE DEF donePlan
  <2>3. done \in Release
    BY <1>6, <2>2 DEF Release
  <2>4. /\ GateView(done) = GateView(s) /\ LifeView(done) = LifeView(s)
        /\ RollbackView(done) = RollbackView(s) /\ RecordView(done) = RecordView(s)
        /\ done.plan = donePlan /\ done.state = s.state
    BY <1>6 DEF GateView, LifeView, RollbackView, RecordView, Release
  <2> HIDE DEF done, ended
  <2>5. x = Emit(done, "catchup.completed")
    BY <1>11, <2>1
  <2> HIDE DEF x
  <2>6. /\ x \in Release /\ GateView(x) = GateView(s) /\ LifeView(x) = LifeView(s)
        /\ RollbackView(x) = RollbackView(s)
    BY <2>3, <2>4, <2>5, EmitType, EmitFrame, EmitLife DEF ReleaseNotice
  <2>7. /\ RecordView(x) = RecordView(r) /\ x.plan = donePlan /\ x.state = r.state
    BY <1>7, <2>3, <2>4, <2>5 DEF Emit, RecordView, Release
  <2>8. ASSUME NEW m \in Node PROVE ~EntryLive(x, m)
    BY <1>11, <2>2, <2>7 DEF Entries, EntryLive, LiveCatchup
  <2>9. Coherent(x) /\ Ordered(x)
    BY <1>8, <2>6, ViewsKept
  <2> QED BY <2>6, <2>7, <2>8, <2>9 DEF EndedIsOver, x
<1> QED BY <1>3, <1>10, <1>11

\* A claimed node still runs the release, so that the report moves it within it.
LEMMA ReportSucceededPreserves ==
    ASSUME PlanInv, NEW id \in Created, NEW n \in Node, NEW epoch,
           ReportSucceeded(id, n, epoch)
    PROVE  PlanInv'
<1> DEFINE b == releases[id]
           r == Settled(id)
           others == AbortSupersededCatchupLocked(id, n)
           x == EntrySucceeded(r, n)
<1>1. /\ r \in Release /\ Coherent(r) /\ Ordered(r) /\ Carries(b, r)
      /\ EndedIsOver(b) /\ Waiting(b) /\ Standing(b)
  BY SettledKeeps DEF PlanInv, Plans
<1>2. /\ r.plan.entry[n].state = "claimed" /\ UNCHANGED <<nextSeq, now>>
      /\ \/ /\ releases' = [others EXCEPT ![id] = x]
            /\ AdvanceNode(n, r.seq, r.input.digest)
         \/ /\ Commit(id, AbortCatchupLocked(r))
            /\ UNCHANGED <<nodes, appliedSeq>>
  BY DEF ReportSucceeded, ReportMatches
<1> HIDE DEF r, b
<1>3. CASE /\ Commit(id, AbortCatchupLocked(r))
           /\ UNCHANGED <<nodes, appliedSeq>>
  BY <1>1, <1>2, <1>3, AbortCatchupKeeps, CarriesTransitive, CommitPlanInv DEF b
<1>4. CASE /\ releases' = [others EXCEPT ![id] = x]
           /\ AdvanceNode(n, r.seq, r.input.digest)
  <2>1. EntryLive(r, n) /\ EntryLive(b, n)
    BY <1>1, <1>2 DEF EntryLive, LiveCatchup, Carries
  <2>2. PlanLive(r) /\ n \in Succeeded(b)
    BY <1>1, <2>1 DEF Carries, EndedIsOver, Waiting
  <2>3. r.state \in Stands
    BY <1>1, <2>2 DEF Carries, Standing
  <2>4. r.restored = {}
    BY <1>1, <2>3 DEF Coherent, RollbackCoherent, Withdrawn, Stands
  <2>5. /\ x \in Release /\ Coherent(x) /\ Ordered(x)
        /\ RecordView(x) = RecordView(r) /\ x.state = r.state /\ EndedIsOver(x)
        /\ \A m \in Node : EntryLive(x, m) => m # n /\ x.plan.entry[m] = r.plan.entry[m]
    BY <1>1, <2>2, EntrySucceededKeeps
  <2> HIDE DEF x
  <2>6. /\ x.seq = b.seq /\ x.input = b.input /\ x.prev = b.prev
        /\ x.restored = b.restored /\ x.restored = {} /\ Succeeded(x) = Succeeded(b)
        /\ r.seq = b.seq /\ r.input = b.input
    BY <1>1, <2>4, <2>5 DEF RecordView, Carries, Succeeded
  <2>7. ASSUME NEW m \in Node, EntryLive(x, m)
        PROVE  /\ m # n /\ EntryLive(b, m)
               /\ x.plan.entry[m].baseline = b.plan.entry[m].baseline
    <3>1. m # n /\ x.plan.entry[m] = r.plan.entry[m] /\ EntryLive(r, m)
      BY <2>5, <2>7 DEF EntryLive
    <3> QED BY <1>1, <3>1 DEF Carries
  <2>8. MovesOn(b, x, n, r.input.digest)
    BY <2>2, <2>3, <2>5, <2>6, <2>7 DEF MovesOn, Standing
  <2>9. /\ DOMAIN others = Created /\ others = [i \in Created |-> others[i]]
        /\ \A i \in Created : others[i] \in Release /\ Coherent(others[i])
    BY AbortSupersededCoherent DEF PlanInv, WaveInv
  <2>10. ASSUME NEW i \in Created PROVE Ordered(others[i])
    <3>1. releases[i] \in Release /\ Coherent(releases[i]) /\ Ordered(releases[i])
      BY DEF PlanInv, WaveInv, Inv, TypeOK
    <3>2. others[i] \in {releases[i], AbortCatchupLocked(releases[i])}
      BY DEF AbortSupersededCatchupLocked
    <3> QED BY <3>1, <3>2, AbortCatchupKeeps
  <2>11. \A i \in Created \ {id} :
            Carries(releases[i], others[i]) /\ ~EntryLive(others[i], n)
    BY AbortSupersededCarries DEF PlanInv, WaveInv, Inv
  <2> HIDE DEF others
  <2>12. /\ Created' = Created /\ releases'[id] = x
         /\ \A i \in Created \ {id} : releases'[i] = others[i]
    BY <1>4, <2>9 DEF Created
  <2>13. Plans'
    <3>1. MovesNode(id, n, r.input.digest)
      BY <1>2, <1>4, <2>6, <2>8, <2>11, <2>12 DEF MovesNode, b
    <3> QED BY <3>1, MovePlans DEF PlanInv, WaveInv, Inv
  <2>14. /\ DOMAIN releases' = Created /\ releases' = [i \in Created |-> releases'[i]]
         /\ \A i \in Created : /\ releases'[i] \in Release /\ Coherent(releases'[i])
                               /\ Ordered(releases'[i])
    BY <1>4, <2>5, <2>9, <2>10
  <2>15. r.seq \in Nat /\ r.input.digest \in Digest \cup {NoDigest}
    BY <1>1 DEF Release, Input
  <2>16. nodes' \in [Node -> NodeState] /\ appliedSeq' \in Nat
    BY <1>4, <2>15, AdvanceNodeType DEF PlanInv, WaveInv, Inv
  <2>17. Inv'
    BY <1>2, <2>14, <2>16, ReleasesPreserve DEF PlanInv, WaveInv
  <2> QED BY <2>12, <2>13, <2>14, <2>17 DEF PlanInv, WaveInv
<1> QED BY <1>2, <1>3, <1>4

-----------------------------------------------------------------------------
(* The theorems *)

LEMMA InitPlanInv == Init => PlanInv
<1> SUFFICES ASSUME Init PROVE PlanInv
  OBVIOUS
<1>1. Created = {} /\ nodes = [n \in Node |-> NeverApplied]
  BY DEF Init, Created
<1>2. WaveInv
  BY <1>1, InitInv DEF WaveInv
<1>3. AppliedVersionExplained
  BY <1>1 DEF AppliedVersionExplained, NeverApplied
<1> QED BY <1>1, <1>2, <1>3 DEF PlanInv, Plans, SeqsUnique

LEMMA CatchupNextPlanInv == PlanInv /\ [CatchupNext]_vars => PlanInv'
<1> SUFFICES ASSUME PlanInv, [CatchupNext]_vars PROVE PlanInv'
  OBVIOUS
<1>1. CASE [Next]_vars
  BY <1>1, NextWaveInv, NextPlans DEF PlanInv
<1>2. ASSUME NEW id \in Created,
             CreateCatchupPlan(id) \/ RebuildCatchupPlan(id) \/ ClaimCatchup(id)
      PROVE  PlanInv'
  BY <1>2, CreateCatchupPreserves, ClaimNothingPreserves, ClaimNextPreserves
     DEF CreateCatchupPlan, RebuildCatchupPlan, ClaimCatchup
<1>3. ASSUME NEW id \in Created, NEW n \in Node, NEW epoch \in 1 .. MaxEpoch,
             CompleteCatchup(id, n, epoch)
      PROVE  PlanInv'
  BY <1>3, ReportRefusedPreserves, ReportFailedPreserves, ReportSucceededPreserves
     DEF CompleteCatchup
<1> QED BY <1>1, <1>2, <1>3 DEF CatchupNext

LEMMA CatchupInv == CatchupSpec => []PlanInv
BY InitPlanInv, CatchupNextPlanInv, PTL DEF CatchupSpec

\* For any number of releases, nodes, plans and claims: what the catch-up operations
\* leave behind is well typed.
THEOREM CatchupTypeCorrect == CatchupSpec => []TypeOK
<1>1. PlanInv => TypeOK
  BY DEF PlanInv, WaveInv, Inv
<1> QED BY <1>1, CatchupInv, PTL

\* Catch-up, with reports of any epoch at any time, breaks none of the promises of the
\* rollout beneath it: no limit is exceeded unnoticed, waves stay in order, and a
\* rollback covers every node that runs the release.
THEOREM CatchupKeepsRollout ==
    CatchupSpec => [](NoBreachWhileObserving /\ RollbackJustifiedAndComplete /\ WavesInOrder)
<1>1. PlanInv => NoBreachWhileObserving /\ RollbackJustifiedAndComplete /\ WavesInOrder
  BY DEF PlanInv, WaveInv, Inv, Coherent, Ordered, NoBreachWhileObserving, WavesInOrder,
         RollbackJustifiedAndComplete
<1> QED BY <1>1, CatchupInv, PTL

\* What a node runs is always explained by the newest release it succeeded in, be it by
\* receipt or by catch-up, or by that release's rollback (service.go 287-313).
THEOREM VersionsExplained == CatchupSpec => []AppliedVersionExplained
<1>1. PlanInv => AppliedVersionExplained
  BY DEF PlanInv, Plans
<1> QED BY <1>1, CatchupInv, PTL

\* A plan ends with its release, in the same transaction (catchup.go 173-205).
THEOREM PlansEndWithRelease == CatchupSpec => []LivePlanReleaseStands
<1>1. PlanInv => LivePlanReleaseStands
  BY DEF PlanInv, Plans, Standing, LivePlanReleaseStands, Stands
<1> QED BY <1>1, CatchupInv, PTL

\* A node that waits for catch-up still runs what it ran when the plan froze it, so
\* that the baseline checks of claims and reports never fail (catchup.go 330-341).
THEOREM BaselinesCurrent == CatchupSpec => []LivePlanBaselineCurrent
<1>1. PlanInv => LivePlanBaselineCurrent
  BY DEF PlanInv, Plans, Waiting, EntryLive, LivePlanBaselineCurrent, LiveEntries
<1> QED BY <1>1, CatchupInv, PTL

\* No node is ever caught up by two releases at once (catchup.go 207-223): it runs
\* the release of its plan, and no two releases have the same sequence number.
THEOREM OnePlanPerNode == CatchupSpec => []OneLivePlanPerNode
<1>1. ASSUME PlanInv PROVE OneLivePlanPerNode
  <2>1. SUFFICES ASSUME NEW i \in Created, NEW j \in Created,
                        NEW n \in LiveEntries(releases[i]), n \in LiveEntries(releases[j])
                 PROVE  i = j
    BY DEF OneLivePlanPerNode
  <2>2. n \in Node /\ EntryLive(releases[i], n) /\ EntryLive(releases[j], n)
    BY <2>1 DEF LiveEntries, EntryLive
  <2>3. nodes[n].releaseSeq = releases[i].seq /\ nodes[n].releaseSeq = releases[j].seq
    BY <1>1, <2>2 DEF PlanInv, Plans, Waiting
  <2> QED BY <1>1, <2>3 DEF PlanInv, Plans, SeqsUnique
<1> QED BY <1>1, CatchupInv, PTL

-----------------------------------------------------------------------------
(* Nodes move forward *)

NodesStayOrMove ==
    \A n \in Node :
        nodes'[n] # nodes[n] => /\ nodes'[n].releaseSeq >= nodes[n].releaseSeq
                                /\ nodes'[n].appliedSeq > appliedSeq

LEMMA AdvanceNodeForward ==
    ASSUME TypeOK, NEW n \in Node, NEW seq \in Nat, NEW d, AdvanceNode(n, seq, d)
    PROVE  NodesStayOrMove
<1>1. /\ nodes \in [Node -> NodeState] /\ nodes[n].releaseSeq \in Nat /\ appliedSeq \in Nat
  BY DEF TypeOK, NodeState
<1>2. CASE seq >= nodes[n].releaseSeq
  <2>1. nodes' = [nodes EXCEPT ![n] =
                     [appliedSeq |-> appliedSeq + 1, releaseSeq |-> seq, digest |-> d]]
    BY <1>2 DEF AdvanceNode
  <2> QED BY <1>1, <1>2, <2>1 DEF NodesStayOrMove
<1>3. CASE ~(seq >= nodes[n].releaseSeq)
  BY <1>3 DEF AdvanceNode, NodesStayOrMove
<1> QED BY <1>2, <1>3

LEMMA NextForward ==
    ASSUME PlanInv, [Next]_vars
    PROVE  NodesStayOrMove
<1>1. CASE nodes' = nodes
  BY <1>1 DEF NodesStayOrMove
<1>2. ASSUME NEW id \in Created, NEW n \in Node, AckSucceeded(id, n)
      PROVE  NodesStayOrMove
  <2>1. EvaluateLocked(releases[id], now).seq \in Nat
    BY EvaluatedKeeps DEF PlanInv, Release
  <2> QED BY <1>2, <2>1, AdvanceNodeForward DEF AckSucceeded, PlanInv, WaveInv, Inv
<1>3. ASSUME NEW id \in Created, NEW n \in Node, ConfirmRollback(id, n)
      PROVE  NodesStayOrMove
  <2>1. releases[id].seq \in Nat
    BY DEF PlanInv, WaveInv, Inv, TypeOK, Release
  <2> QED BY <1>3, <2>1, AdvanceNodeForward DEF ConfirmRollback, PlanInv, WaveInv, Inv
<1>4. ASSUME NEW id \in Created, TickTimeout(id) \/ Pause(id) \/ Resume(id) \/ Cancel(id)
      PROVE  nodes' = nodes
  BY <1>4 DEF TickTimeout, Pause, Resume, Cancel
<1>5. ASSUME NEW id \in Created, NEW n \in Node,
             \/ AckIgnored(id, n) \/ AckFailed(id, n)
             \/ QuarantineNode(id, n) \/ QuarantineAgain(id, n)
             \/ \E event \in SampleId, healthy \in BOOLEAN :
                   ReportHealth(id, n, event, healthy)
      PROVE  nodes' = nodes
  BY <1>5 DEF AckIgnored, TickTimeout, AckFailed, QuarantineNode, QuarantineAgain,
              ReportHealth
<1>6. CASE \/ \E id \in ReleaseId, in \in Inputs : CreateRelease(id, in)
           \/ ClockTick \/ Restart \/ UNCHANGED vars
  BY <1>1, <1>6 DEF CreateRelease, ClockTick, Restart, vars
<1> QED BY <1>1, <1>2, <1>3, <1>4, <1>5, <1>6 DEF Next, AckReceipt

LEMMA CatchupNextForward ==
    ASSUME PlanInv, [CatchupNext]_vars
    PROVE  NodesStayOrMove
<1>1. CASE nodes' = nodes
  BY <1>1 DEF NodesStayOrMove
<1>2. CASE [Next]_vars
  BY <1>2, NextForward
<1>3. ASSUME NEW id \in Created, NEW n \in Node, NEW epoch, ReportSucceeded(id, n, epoch)
      PROVE  NodesStayOrMove
  <2>1. Settled(id).seq \in Nat
    BY SettledKeeps DEF PlanInv, Release
  <2>2. CASE AdvanceNode(n, Settled(id).seq, Settled(id).input.digest)
    BY <2>1, <2>2, AdvanceNodeForward DEF PlanInv, WaveInv, Inv
  <2>3. CASE nodes' = nodes
    BY <2>3 DEF NodesStayOrMove
  <2> QED BY <1>3, <2>2, <2>3 DEF ReportSucceeded
<1>4. \/ nodes' = nodes
      \/ [Next]_vars
      \/ \E id \in Created, n \in Node, epoch \in 1 .. MaxEpoch :
            ReportSucceeded(id, n, epoch)
  BY DEF CatchupNext, CreateCatchupPlan, RebuildCatchupPlan, CreateCatchup, ClaimCatchup,
         ClaimNothing, ClaimNext, CompleteCatchup, ReportRefused, ReportFailed
<1> QED BY <1>1, <1>2, <1>3, <1>4

\* No receipt, rollback or catch-up report takes a node back to an older release, and
\* each one that moves a node numbers the application anew (service.go 293-311).
THEOREM NodesNeverGoBack == CatchupSpec => NodesMoveForward
<1>1. PlanInv /\ [CatchupNext]_vars => NodesStayOrMove
  BY CatchupNextForward
<1>2. NodesStayOrMove => [NodesStayOrMove]_vars
  OBVIOUS
<1> QED BY <1>1, CatchupInv, PTL DEF CatchupSpec, NodesMoveForward, NodesStayOrMove
=============================================================================
