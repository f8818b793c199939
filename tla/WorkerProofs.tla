----------------------------- MODULE WorkerProofs -----------------------------
(***************************************************************************)
(* Plans move only forward, wave by wave, and the epoch fences the         *)
(* workers, proved of Catchup and Workers.  Between two attempts a plan    *)
(* changes in three ways: it is aborted, one live entry is claimed under   *)
(* the next epoch, or one claimed entry gets its result.  Everything else  *)
(* a handler does leaves the plan alone (PlanKept).  So the epoch of an    *)
(* entry is that of the last lease handed out for it, a result is final,   *)
(* every plan is announced and ended once, and a client who looks at a     *)
(* plan sees what the next claim may take.                                 *)
(***************************************************************************)
EXTENDS CatchupProofs, CatchupViews, Workers

Aborted(plan) ==
    IF plan.state \notin LiveCatchup THEN plan
    ELSE [ state |-> "aborted",
           entry |-> [n \in Node |->
               IF plan.entry[n].state \in LiveCatchup
               THEN [plan.entry[n] EXCEPT !.state = "aborted"]
               ELSE plan.entry[n]] ]

\* No helper does more to a plan than abort it, and one that does says so.
PlanKept(b, x) ==
    /\ x.attempt = b.attempt /\ x.wave = b.wave
    /\ x.plan \in {b.plan, Aborted(b.plan)}
    /\ x.remediated = b.remediated /\ b.quarantined \subseteq x.quarantined
    /\ x.sent["catchup.created"] = b.sent["catchup.created"]
    /\ x.sent["catchup.completed"] = b.sent["catchup.completed"]
    /\ x.sent["catchup.aborted"] = IF PlanLive(b) /\ ~PlanLive(x)
                                   THEN b.sent["catchup.aborted"] + 1
                                   ELSE b.sent["catchup.aborted"]
    /\ x.sentTo["node.catchup_succeeded"] = b.sentTo["node.catchup_succeeded"]

\* What a helper that leaves the plan alone keeps.
PlanView(r) ==
    << r.attempt, r.plan, r.wave, r.remediated,
       r.sent["catchup.created"], r.sent["catchup.completed"],
       r.sent["catchup.aborted"], r.sentTo["node.catchup_succeeded"] >>

CatchupNotice == {"catchup.created", "catchup.completed", "catchup.aborted"}

LEMMA ViewPlanKept ==
    ASSUME NEW b, NEW x, PlanView(x) = PlanView(b), b.quarantined \subseteq x.quarantined
    PROVE  PlanKept(b, x)
BY DEF PlanView, PlanKept, PlanLive

LEMMA PlanKeptTransitive ==
    ASSUME NEW b, NEW r, NEW x, PlanKept(b, r), PlanKept(r, x)
    PROVE  PlanKept(b, x)
<1>1. Aborted(Aborted(b.plan)) = Aborted(b.plan)
  BY DEF Aborted, LiveCatchup
<1>2. (PlanLive(r) => PlanLive(b)) /\ (PlanLive(x) => PlanLive(r))
  BY DEF PlanKept, PlanLive, Aborted, LiveCatchup
<1>3. x.plan \in {b.plan, Aborted(b.plan)}
  BY <1>1 DEF PlanKept
<1> QED BY <1>2, <1>3 DEF PlanKept

LEMMA EmitPlan ==
    ASSUME NEW r \in Release, NEW k, k \notin CatchupNotice
    PROVE  /\ PlanView(Emit(r, k)) = PlanView(r)
           /\ Emit(r, k).quarantined = r.quarantined
BY DEF Emit, PlanView, Release, ReleaseNotice, CatchupNotice

LEMMA EmitToPlan ==
    ASSUME NEW r \in Release, NEW k, NEW S, k # "node.catchup_succeeded"
    PROVE  /\ PlanView(EmitTo(r, k, S)) = PlanView(r)
           /\ EmitTo(r, k, S).quarantined = r.quarantined
BY DEF EmitTo, PlanView, Release, NodeNotice

LEMMA PauseLockedPlan ==
    ASSUME NEW r \in Release, NEW reason
    PROVE  /\ PlanView(PauseLocked(r, reason)) = PlanView(r)
           /\ PauseLocked(r, reason).quarantined = r.quarantined
BY DEF PauseLocked, PlanView, Release

LEMMA AdvanceWaveLockedPlan ==
    ASSUME NEW r \in Release
    PROVE  /\ PlanView(AdvanceWaveLocked(r, now)) = PlanView(r)
           /\ AdvanceWaveLocked(r, now).quarantined = r.quarantined
<1> DEFINE opened == OpenWave(r, r.currentWave + 1, now)
           done == Emit([r EXCEPT !.state = "completed"], "release.completed")
<1>1. PlanView(opened) = PlanView(r) /\ opened.quarantined = r.quarantined
  BY DEF OpenWave, Emit, PlanView, Release, ReleaseNotice
<1>2. PlanView(done) = PlanView(r) /\ done.quarantined = r.quarantined
  BY DEF Emit, PlanView, Release, ReleaseNotice
<1> QED BY <1>1, <1>2 DEF AdvanceWaveLocked

LEMMA AbortCatchupLockedPlan ==
    ASSUME NEW r \in Release
    PROVE  LET x == AbortCatchupLocked(r)
           IN  x.attempt = r.attempt /\ x.plan = Aborted(r.plan) /\ PlanKept(r, x)
<1> DEFINE x == AbortCatchupLocked(r)
           aborted == [r EXCEPT !.plan = Aborted(r.plan)]
<1>1. CASE r.plan.state \notin LiveCatchup
  BY <1>1 DEF AbortCatchupLocked, Aborted, PlanKept, PlanLive
<1>2. CASE r.plan.state \in LiveCatchup
  <2>1. x = [aborted EXCEPT !.sent["catchup.aborted"] = @ + 1]
    BY <1>2 DEF AbortCatchupLocked, Emit, Aborted
  <2> HIDE DEF x
  <2>2. /\ x.attempt = r.attempt /\ x.plan = Aborted(r.plan) /\ x.wave = r.wave
        /\ x.remediated = r.remediated /\ x.quarantined = r.quarantined
        /\ x.sentTo = r.sentTo
    BY <2>1 DEF Release
  <2>3. /\ x.sent["catchup.created"] = r.sent["catchup.created"]
        /\ x.sent["catchup.completed"] = r.sent["catchup.completed"]
        /\ x.sent["catchup.aborted"] = r.sent["catchup.aborted"] + 1
    BY <2>1 DEF Release, ReleaseNotice
  <2>4. PlanLive(r) /\ ~PlanLive(x)
    BY <1>2, <2>2 DEF PlanLive, Aborted, LiveCatchup
  <2> QED BY <2>2, <2>3, <2>4 DEF PlanKept, x
<1> QED BY <1>1, <1>2

LEMMA StartRollbackLockedPlan ==
    ASSUME NEW r \in Release, NEW reason \in RollbackReason
    PROVE  PlanKept(r, StartRollbackLocked(r, reason))
<1> DEFINE started == [r EXCEPT !.state = "rolling_back", !.pauseReason = "none",
                                !.rollbackReason = reason, !.planned = Succeeded(r)]
           announced == Emit(started, "rollback.started")
           notified == EmitTo(announced, "node.rollback", Succeeded(r))
           aborted == AbortCatchupLocked(notified)
           done == [aborted EXCEPT !.state = "rolled_back"]
           ended == Emit(done, "release.rolledback")
<1>1. StartRollbackLocked(r, reason) \in {aborted, ended}
  BY DEF StartRollbackLocked, CompleteRollbackLocked
<1>2. Succeeded(r) \in SUBSET Node
  BY DEF Succeeded
<1>3. started \in Release
  BY <1>2 DEF Release, ReleaseState, PauseReason
<1>4. PlanView(started) = PlanView(r) /\ started.quarantined = r.quarantined
  BY DEF PlanView, Release
<1> HIDE DEF started
<1>5. /\ announced \in Release
      /\ PlanView(announced) = PlanView(started)
      /\ announced.quarantined = started.quarantined
  BY <1>3, EmitType, EmitPlan DEF ReleaseNotice, CatchupNotice
<1> HIDE DEF announced
<1>6. /\ notified \in Release
      /\ PlanView(notified) = PlanView(announced)
      /\ notified.quarantined = announced.quarantined
  BY <1>5, EmitToType, EmitToPlan DEF NodeNotice
<1> HIDE DEF notified
<1>7. aborted \in Release /\ PlanKept(notified, aborted)
  BY <1>6, AbortCatchupLockedType, AbortCatchupLockedPlan
<1> HIDE DEF aborted
<1>8. PlanKept(r, aborted)
  BY <1>4, <1>5, <1>6, <1>7, ViewPlanKept, PlanKeptTransitive
<1>9. /\ done \in Release
      /\ PlanView(done) = PlanView(aborted)
      /\ done.quarantined = aborted.quarantined
  BY <1>7 DEF PlanView, Release, ReleaseState
<1> HIDE DEF done
<1>10. PlanKept(r, ended)
  BY <1>8, <1>9, EmitPlan, ViewPlanKept, PlanKeptTransitive DEF CatchupNotice
<1> QED BY <1>1, <1>8, <1>10

LEMMA EvaluateHealthLockedPlan ==
    ASSUME NEW r \in Release, now \in Int
    PROVE  PlanKept(r, EvaluateHealthLocked(r, now))
<1> DEFINE o == Observe(r, now)
<1>1. o \in Release
  BY ObserveType
<1>2. PlanView(o) = PlanView(r) /\ o.quarantined = r.quarantined
  BY DEF Observe, PlanView, Release
<1> HIDE DEF o
<1>3. Breach(o) \in RollbackReason
  BY DEF Breach, RollbackReason
<1>4. /\ PlanKept(r, r) /\ PlanKept(r, o) /\ PlanKept(o, AdvanceWaveLocked(o, now))
      /\ PlanKept(o, StartRollbackLocked(o, Breach(o)))
  BY <1>1, <1>2, <1>3, ViewPlanKept, AdvanceWaveLockedPlan, StartRollbackLockedPlan
<1>5. EvaluateHealthLocked(r, now) \in
          {r, o, StartRollbackLocked(o, Breach(o)), AdvanceWaveLocked(o, now)}
  BY DEF EvaluateHealthLocked, o
<1> QED BY <1>4, <1>5, PlanKeptTransitive

LEMMA EvaluateLockedPlan ==
    ASSUME NEW r \in Release, now \in Int
    PROVE  PlanKept(r, EvaluateLocked(r, now))
<1> DEFINE t == EvaluateTimeoutLocked(r, now)
<1>1. t \in {r, PauseLocked(r, "timeout")}
  BY DEF EvaluateTimeoutLocked
<1>2. t \in Release /\ PlanKept(r, t)
  BY <1>1, PauseLockedType, PauseLockedPlan, ViewPlanKept DEF PauseReason
<1> HIDE DEF t
<1>3. PlanKept(t, EvaluateHealthLocked(t, now))
  BY <1>2, EvaluateHealthLockedPlan
<1> QED BY <1>2, <1>3, PlanKeptTransitive DEF EvaluateLocked, t

LEMMA AfterSuccessPlan ==
    ASSUME NEW r \in Release, now \in Int
    PROVE  PlanKept(r, AfterSuccess(r))
<1>1. AfterSuccess(r) \in {r, EvaluateHealthLocked(r, now), AdvanceWaveLocked(r, now)}
  BY DEF AfterSuccess
<1> QED BY <1>1, ViewPlanKept, EvaluateHealthLockedPlan, AdvanceWaveLockedPlan

-----------------------------------------------------------------------------
(* The handlers of Rollout *)

PlansKept == \A i \in Created : i \in Created' /\ PlanKept(releases[i], releases'[i])

LEMMA CommitKeepsPlans ==
    ASSUME NEW id \in Created, NEW x, PlanKept(releases[id], x), Commit(id, x)
    PROVE  PlansKept
<1>1. \A i \in Created : i \in Created' /\ releases'[i] = IF i = id THEN x ELSE releases[i]
  BY DEF Commit, Created
<1> QED BY <1>1, ViewPlanKept DEF PlansKept

LEMMA TickTimeoutKeepsPlans ==
    ASSUME TypeOK, NEW id \in Created, TickTimeout(id)
    PROVE  PlansKept
BY NowType, EvaluateLockedPlan, CommitKeepsPlans DEF TickTimeout, TypeOK

LEMMA PauseKeepsPlans ==
    ASSUME TypeOK, NEW id \in Created, Pause(id)
    PROVE  PlansKept
BY PauseLockedPlan, ViewPlanKept, CommitKeepsPlans DEF Pause, TypeOK

LEMMA ResumeKeepsPlans ==
    ASSUME TypeOK, NEW id \in Created, Resume(id)
    PROVE  PlansKept
<1> DEFINE r == releases[id]
           resumed == [r EXCEPT !.state = "active", !.pauseReason = "none",
                                !.waveOpenedAt = now]
<1>1. r \in Release /\ now \in Int /\ Commit(id, EvaluateHealthLocked(resumed, now))
  BY NowType DEF TypeOK, Resume
<1> HIDE DEF r
<1>2. resumed \in Release
  BY <1>1 DEF Release, ReleaseState, PauseReason
<1>3. PlanView(resumed) = PlanView(r) /\ resumed.quarantined = r.quarantined
  BY <1>1 DEF PlanView, Release
<1> HIDE DEF resumed
<1>4. PlanKept(r, EvaluateHealthLocked(resumed, now))
  BY <1>1, <1>2, <1>3, ViewPlanKept, EvaluateHealthLockedPlan, PlanKeptTransitive
<1> QED BY <1>1, <1>4, CommitKeepsPlans DEF r

LEMMA CancelKeepsPlans ==
    ASSUME TypeOK, NEW id \in Created, Cancel(id)
    PROVE  PlansKept
<1> DEFINE r == releases[id]
           stopped == [r EXCEPT !.state = "cancelled", !.pauseReason = "none"]
           announced == Emit(stopped, "release.cancelled")
           cancelled == AbortCatchupLocked(announced)
           x == EmitTo(cancelled, "node.compensation", Succeeded(r))
<1>1. r \in Release /\ Commit(id, x)
  BY DEF TypeOK, Cancel
<1> HIDE DEF r
<1>2. stopped \in Release
  BY <1>1 DEF Release, ReleaseState, PauseReason
<1>3. PlanView(stopped) = PlanView(r) /\ stopped.quarantined = r.quarantined
  BY <1>1 DEF PlanView, Release
<1> HIDE DEF stopped
<1>4. /\ announced \in Release
      /\ PlanView(announced) = PlanView(stopped)
      /\ announced.quarantined = stopped.quarantined
  BY <1>2, EmitType, EmitPlan DEF ReleaseNotice, CatchupNotice
<1> HIDE DEF announced
<1>5. cancelled \in Release /\ PlanKept(announced, cancelled)
  BY <1>4, AbortCatchupLockedType, AbortCatchupLockedPlan
<1> HIDE DEF cancelled
<1>6. PlanKept(r, x)
  BY <1>3, <1>4, <1>5, EmitToPlan, ViewPlanKept, PlanKeptTransitive
<1> HIDE DEF x
<1> QED BY <1>1, <1>6, CommitKeepsPlans DEF r

LEMMA AckFailedKeepsPlans ==
    ASSUME TypeOK, NEW id \in Created, NEW n \in Node, AckFailed(id, n)
    PROVE  PlansKept
<1> DEFINE r == EvaluateLocked(releases[id], now)
           marked == [r EXCEPT !.result[n] = "failed"]
           failed == EmitTo(marked, "node.failed", {n})
           x == IF Cardinality(InWave(failed, r.currentWave, "failed"))
                       > r.input.maxFailures
                THEN PauseLocked(failed, "failure_threshold") ELSE failed
<1>1. /\ r \in Release /\ PlanKept(releases[id], r)
  BY NowType, EvaluateLockedType, EvaluateLockedPlan DEF TypeOK
<1>2. Commit(id, x)
  BY DEF AckFailed
<1> HIDE DEF r
<1>3. marked \in Release
  BY <1>1 DEF Release, NodeResult
<1>4. PlanView(marked) = PlanView(r) /\ marked.quarantined = r.quarantined
  BY <1>1 DEF PlanView, Release
<1> HIDE DEF marked
<1>5. /\ failed \in Release
      /\ PlanView(failed) = PlanView(marked)
      /\ failed.quarantined = marked.quarantined
  BY <1>3, EmitToType, EmitToPlan DEF NodeNotice
<1> HIDE DEF failed
<1>6. PlanView(x) = PlanView(failed) /\ x.quarantined = failed.quarantined
  BY <1>5, PauseLockedPlan
<1> HIDE DEF x
<1>7. PlanKept(releases[id], x)
  BY <1>1, <1>4, <1>5, <1>6, ViewPlanKept, PlanKeptTransitive
<1> QED BY <1>2, <1>7, CommitKeepsPlans

LEMMA AckSucceededKeepsPlans ==
    ASSUME TypeOK, NEW id \in Created, NEW n \in Node, AckSucceeded(id, n)
    PROVE  PlansKept
<1> DEFINE r == EvaluateLocked(releases[id], now)
           marked == [r EXCEPT !.result[n] = "succeeded", !.prev[n] = nodes[n].digest]
           s == EmitTo(marked, "node.succeeded", {n})
           others == AbortSupersededCatchupLocked(id, n)
           x == AfterSuccess(s)
<1>1. /\ r \in Release /\ PlanKept(releases[id], r) /\ now \in Int
  BY NowType, EvaluateLockedType, EvaluateLockedPlan DEF TypeOK
<1>2. releases' = [others EXCEPT ![id] = x]
  BY DEF AckSucceeded
<1>3. nodes[n].digest \in Digest \cup {NoDigest}
  BY DEF TypeOK, NodeState
<1> HIDE DEF r
<1>4. marked \in Release
  BY <1>1, <1>3 DEF Release, NodeResult
<1>5. PlanView(marked) = PlanView(r) /\ marked.quarantined = r.quarantined
  BY <1>1 DEF PlanView, Release
<1> HIDE DEF marked
<1>6. /\ s \in Release
      /\ PlanView(s) = PlanView(marked) /\ s.quarantined = marked.quarantined
  BY <1>4, EmitToType, EmitToPlan DEF NodeNotice
<1> HIDE DEF s
<1>7. PlanKept(releases[id], x)
  BY <1>1, <1>5, <1>6, AfterSuccessPlan, ViewPlanKept, PlanKeptTransitive
<1> HIDE DEF x
<1>8. DOMAIN others = Created
  BY DEF AbortSupersededCatchupLocked
<1>9. ASSUME NEW i \in Created PROVE PlanKept(releases[i], others[i])
  <2>1. releases[i] \in Release
    BY DEF TypeOK
  <2>2. others[i] \in {releases[i], AbortCatchupLocked(releases[i])}
    BY DEF AbortSupersededCatchupLocked
  <2> QED BY <2>1, <2>2, ViewPlanKept, AbortCatchupLockedPlan
<1> HIDE DEF others
<1> QED BY <1>2, <1>7, <1>8, <1>9 DEF PlansKept, Created

LEMMA ReportHealthKeepsPlans ==
    ASSUME TypeOK, NEW id \in Created, NEW n \in Node, NEW event \in SampleId,
           NEW healthy \in BOOLEAN, ReportHealth(id, n, event, healthy)
    PROVE  PlansKept
<1> DEFINE r == releases[id]
           sample == [id |-> event, node |-> n, healthy |-> healthy,
                      receivedAt |-> IF KeepReceivedAt THEN now ELSE 0]
           reported == [r EXCEPT !.samples = @ \cup {sample}]
<1>1. /\ r \in Release /\ now \in Int /\ Commit(id, EvaluateHealthLocked(reported, now))
  BY NowType DEF TypeOK, ReportHealth
<1>2. sample \in Sample
  BY <1>1 DEF Sample
<1> HIDE DEF r, sample
<1>3. reported \in Release
  BY <1>1, <1>2 DEF Release
<1>4. PlanView(reported) = PlanView(r) /\ reported.quarantined = r.quarantined
  BY <1>1 DEF PlanView, Release
<1> HIDE DEF reported
<1>5. PlanKept(r, EvaluateHealthLocked(reported, now))
  BY <1>1, <1>3, <1>4, ViewPlanKept, EvaluateHealthLockedPlan, PlanKeptTransitive
<1> QED BY <1>1, <1>5, CommitKeepsPlans DEF r

LEMMA QuarantineNodeKeepsPlans ==
    ASSUME TypeOK, NEW id \in Created, NEW n \in Node, QuarantineNode(id, n)
    PROVE  PlansKept
<1> DEFINE r == EvaluateLocked(releases[id], now)
           marked == [r EXCEPT !.quarantined = @ \cup {n}]
           quarantined == EmitTo(marked, "node.quarantined", {n})
           x == EvaluateHealthLocked(quarantined, now)
<1>1. /\ r \in Release /\ PlanKept(releases[id], r) /\ now \in Int
  BY NowType, EvaluateLockedType, EvaluateLockedPlan DEF TypeOK
<1>2. Commit(id, x)
  BY DEF QuarantineNode
<1> HIDE DEF r
<1>3. marked \in Release
  BY <1>1 DEF Release
<1>4. /\ PlanView(marked) = PlanView(r)
      /\ marked.quarantined = r.quarantined \cup {n}
  BY <1>1 DEF PlanView, Release
<1> HIDE DEF marked
<1>5. /\ quarantined \in Release
      /\ PlanView(quarantined) = PlanView(marked)
      /\ quarantined.quarantined = marked.quarantined
  BY <1>3, EmitToType, EmitToPlan DEF NodeNotice
<1> HIDE DEF quarantined
<1>6. PlanKept(releases[id], x)
  BY <1>1, <1>4, <1>5, EvaluateHealthLockedPlan, ViewPlanKept, PlanKeptTransitive
<1> HIDE DEF x
<1> QED BY <1>2, <1>6, CommitKeepsPlans

LEMMA ConfirmRollbackKeepsPlans ==
    ASSUME TypeOK, NEW id \in Created, NEW n \in Node, ConfirmRollback(id, n)
    PROVE  PlansKept
<1> DEFINE r == releases[id]
           marked == [r EXCEPT !.restored = @ \cup {n}]
           confirmed == EmitTo(marked, "node.restored", {n})
           done == [confirmed EXCEPT !.state = "rolled_back"]
           ended == Emit(done, "release.rolledback")
           x == IF confirmed.restored = confirmed.planned
                THEN CompleteRollbackLocked(confirmed) ELSE confirmed
<1>1. r \in Release /\ Commit(id, x)
  BY DEF TypeOK, ConfirmRollback
<1> HIDE DEF r
<1>2. marked \in Release
  BY <1>1 DEF Release
<1>3. PlanView(marked) = PlanView(r) /\ marked.quarantined = r.quarantined
  BY <1>1 DEF PlanView, Release
<1> HIDE DEF marked
<1>4. /\ confirmed \in Release
      /\ PlanView(confirmed) = PlanView(marked)
      /\ confirmed.quarantined = marked.quarantined
  BY <1>2, EmitToType, EmitToPlan DEF NodeNotice
<1>5. x = ended \/ x = confirmed
  BY DEF CompleteRollbackLocked
<1> HIDE DEF confirmed
<1>6. /\ done \in Release
      /\ PlanView(done) = PlanView(confirmed)
      /\ done.quarantined = confirmed.quarantined
  BY <1>4 DEF PlanView, Release, ReleaseState
<1> HIDE DEF done
<1>7. PlanView(x) = PlanView(confirmed) /\ x.quarantined = confirmed.quarantined
  BY <1>5, <1>6, EmitPlan DEF CatchupNotice
<1> HIDE DEF x
<1>8. PlanKept(r, x)
  BY <1>3, <1>4, <1>7, ViewPlanKept
<1> QED BY <1>1, <1>8, CommitKeepsPlans DEF r

LEMMA RestartKeepsPlans ==
    ASSUME TypeOK, Restart
    PROVE  PlansKept
<1>1. releases' = [i \in Created |-> Reloaded(releases[i])]
  BY DEF Restart
<1>2. \A r \in Release : /\ PlanView(Reloaded(r)) = PlanView(r)
                         /\ Reloaded(r).quarantined = r.quarantined
  BY DEF Reloaded, PlanView, Release
<1>3. \A i \in Created : releases[i] \in Release
  BY DEF TypeOK
<1> QED BY <1>1, <1>2, <1>3, ViewPlanKept DEF PlansKept, Created

LEMMA NextKeepsPlans ==
    ASSUME TypeOK, [Next]_vars
    PROVE  PlansKept
<1>1. CASE releases' = releases
  BY <1>1, ViewPlanKept DEF PlansKept, Created
<1>2. ASSUME NEW id \in Created,
             TickTimeout(id) \/ Pause(id) \/ Resume(id) \/ Cancel(id)
      PROVE  PlansKept
  BY <1>2, TickTimeoutKeepsPlans, PauseKeepsPlans, ResumeKeepsPlans, CancelKeepsPlans
<1>3. ASSUME NEW id \in Created, NEW n \in Node,
             \/ AckReceipt(id, n) \/ QuarantineNode(id, n)
             \/ QuarantineAgain(id, n) \/ ConfirmRollback(id, n)
      PROVE  PlansKept
  BY <1>3, TickTimeoutKeepsPlans, AckFailedKeepsPlans, AckSucceededKeepsPlans,
     QuarantineNodeKeepsPlans, ConfirmRollbackKeepsPlans
     DEF AckReceipt, AckIgnored, QuarantineAgain
<1>4. ASSUME NEW id \in Created, NEW n \in Node, NEW event \in SampleId,
             NEW healthy \in BOOLEAN, ReportHealth(id, n, event, healthy)
      PROVE  PlansKept
  BY <1>4, ReportHealthKeepsPlans
<1>5. CASE Restart
  BY <1>5, RestartKeepsPlans
<1>6. ASSUME NEW id \in ReleaseId, NEW in \in Inputs, CreateRelease(id, in)
      PROVE  PlansKept
  <2>1. \A i \in Created : i \in Created' /\ releases'[i] = releases[i]
    BY <1>6 DEF CreateRelease, Created
  <2> QED BY <2>1, ViewPlanKept DEF PlansKept
<1>7. UNCHANGED vars \/ ClockTick => releases' = releases
  BY DEF vars, ClockTick
<1> QED BY <1>1, <1>2, <1>3, <1>4, <1>5, <1>6, <1>7 DEF Next

-----------------------------------------------------------------------------
(* Plans move forward *)

EntryForward(from, to) ==
    /\ from.state \notin LiveCatchup => to = from
    /\ from.state = "claimed" => to.state # "pending"
    /\ to.epoch >= from.epoch

LEMMA EntriesTyped ==
    ASSUME NEW r \in Release
    PROVE  /\ r.attempt \in Nat /\ r.plan \in CatchupPlan
           /\ r.plan.entry \in [Node -> CatchupEntry]
           /\ \A n \in Node : /\ r.plan.entry[n] \in CatchupEntry
                              /\ r.plan.entry[n].epoch \in Nat
BY DEF Release, CatchupPlan, CatchupEntry

LEMMA AbortedEntries ==
    ASSUME NEW r \in Release, NEW n \in Node
    PROVE  LET from == r.plan.entry[n]
               to == Aborted(r.plan).entry[n]
           IN  /\ to = from \/ (from.state \in LiveCatchup /\ to.state = "aborted")
               /\ to.epoch = from.epoch
BY EntriesTyped DEF Aborted, CatchupEntry, LiveCatchup

\* Entries that a claim has been made for, whatever came of it.
Begun(r, n) == r.plan.entry[n].state \in {"claimed", "succeeded", "failed"}

Barrier(r) ==
    \A n, m \in Entries(r) :
        Begun(r, n) /\ r.wave[m] < r.wave[n] => r.plan.entry[m].state = "succeeded"

BarrierKeeps(b, x) == Barrier(b) => Barrier(x)

\* PlansConserved, said of one release, and what of the entries it rests on: they are
\* of quarantined nodes, a node is remediated by the success of its entry, and a plan
\* is done when it has no other entries.
Conserved(r) ==
    /\ r.sent["catchup.created"] = r.attempt
    /\ r.sent["catchup.completed"] + r.sent["catchup.aborted"]
           + Once(PlanLive(r)) = r.attempt
    /\ r.remediated \subseteq r.quarantined
    /\ \A n \in Node : r.sentTo["node.catchup_succeeded"][n] = Once(n \in r.remediated)

Filled(r) ==
    /\ \A n \in Entries(r) : /\ n \in r.quarantined
                             /\ EntryLive(r, n) => n \notin r.remediated
                             /\ r.plan.entry[n].state = "succeeded" => n \in r.remediated
    /\ PlanLive(r) => \E n \in Entries(r) : r.plan.entry[n].state # "succeeded"
    /\ r.plan.state = "done" =>
           \A n \in Entries(r) : r.plan.entry[n].state = "succeeded"

Books(r) == Conserved(r) /\ Filled(r)

BooksKeep(b, x) == Books(b) => Books(x)

\* A new attempt, or the same plan further on; the barrier between waves stands, and
\* the books balance.
Forward(b, x) ==
    /\ BarrierKeeps(b, x) /\ BooksKeep(b, x)
    /\ \/ x.attempt = b.attempt + 1
       \/ /\ x.attempt = b.attempt
          /\ ~PlanLive(b) => x.plan = b.plan
          /\ \A n \in Node : EntryForward(b.plan.entry[n], x.plan.entry[n])

PlansForward == \A i \in Created : i \in Created' /\ Forward(releases[i], releases'[i])

\* Aborting begins no entry, adds none and takes no result back.
LEMMA KeptBarrier ==
    ASSUME NEW b \in Release, NEW x, PlanKept(b, x)
    PROVE  BarrierKeeps(b, x)
<1>1. x.wave = b.wave /\ (x.plan = b.plan \/ x.plan = Aborted(b.plan))
  BY DEF PlanKept
<1>2. ASSUME NEW n \in Node
      PROVE  /\ n \in Entries(x) => n \in Entries(b)
             /\ Begun(x, n) => Begun(b, n)
             /\ b.plan.entry[n].state = "succeeded" => x.plan.entry[n].state = "succeeded"
  BY <1>1, AbortedEntries DEF Entries, Begun, LiveCatchup
<1>3. Entries(x) \subseteq Node
  BY DEF Entries
<1> QED BY <1>1, <1>2, <1>3 DEF BarrierKeeps, Barrier

\* Aborting takes the plan from the live ones to the aborted ones.
LEMMA KeptBooks ==
    ASSUME NEW b \in Release, NEW x, PlanKept(b, x)
    PROVE  BooksKeep(b, x)
<1> SUFFICES ASSUME Books(b) PROVE Books(x)
  BY DEF BooksKeep
<1>1. /\ x.attempt = b.attempt /\ x.plan \in {b.plan, Aborted(b.plan)}
      /\ x.remediated = b.remediated /\ b.quarantined \subseteq x.quarantined
      /\ x.sent["catchup.created"] = b.sent["catchup.created"]
      /\ x.sent["catchup.completed"] = b.sent["catchup.completed"]
      /\ x.sent["catchup.aborted"] = IF PlanLive(b) /\ ~PlanLive(x)
                                     THEN b.sent["catchup.aborted"] + 1
                                     ELSE b.sent["catchup.aborted"]
      /\ x.sentTo["node.catchup_succeeded"] = b.sentTo["node.catchup_succeeded"]
  BY DEF PlanKept
<1>2. Conserved(x)
  <2>1. PlanLive(x) => PlanLive(b)
    BY <1>1 DEF PlanLive, Aborted, LiveCatchup
  <2>2. b.sent["catchup.completed"] \in Nat /\ b.sent["catchup.aborted"] \in Nat
    BY DEF Release, ReleaseNotice
  <2>3. x.sent["catchup.completed"] + x.sent["catchup.aborted"] + Once(PlanLive(x))
            = b.sent["catchup.completed"] + b.sent["catchup.aborted"] + Once(PlanLive(b))
    BY <1>1, <2>1, <2>2 DEF Once
  <2> QED BY <1>1, <2>3 DEF Books, Conserved
<1>3. ASSUME NEW n \in Node
      PROVE  /\ n \in Entries(x) <=> n \in Entries(b)
             /\ EntryLive(x, n) => EntryLive(b, n)
             /\ x.plan.entry[n].state = "succeeded" <=> b.plan.entry[n].state = "succeeded"
  BY <1>1, AbortedEntries DEF Entries, EntryLive, LiveCatchup
<1>4. Entries(x) = Entries(b) /\ Entries(b) \subseteq Node
  BY <1>3 DEF Entries
<1>5. /\ PlanLive(x) => PlanLive(b)
      /\ x.plan.state = "done" => b.plan.state = "done"
  BY <1>1 DEF PlanLive, Aborted, LiveCatchup
<1>6. Filled(x)
  BY <1>1, <1>3, <1>4, <1>5 DEF Books, Filled
<1> QED BY <1>2, <1>6 DEF Books

\* One entry moves on, from r to x.
LEMMA OneEntryBarrier ==
    ASSUME NEW r \in Release, NEW x, NEW n \in Node, x.wave = r.wave,
           \A m \in Node : m # n => x.plan.entry[m] = r.plan.entry[m],
           n \in Entries(r), r.plan.entry[n].state # "succeeded",
           Barrier(r) => \A m \in Entries(r) : r.wave[m] < r.wave[n] =>
                             r.plan.entry[m].state = "succeeded"
    PROVE  BarrierKeeps(r, x)
<1> SUFFICES ASSUME Barrier(r), NEW k \in Entries(x), NEW m \in Entries(x),
                    Begun(x, k), x.wave[m] < x.wave[k]
             PROVE  x.plan.entry[m].state = "succeeded"
  BY DEF BarrierKeeps, Barrier
<1>1. k \in Node /\ m \in Node /\ r.wave \in [Node -> Int] /\ m # k
  BY DEF Entries, Release
<1>2. \A j \in {k, m} : j # n => j \in Entries(r)
  BY DEF Entries
<1>3. CASE k = n
  BY <1>1, <1>2, <1>3
<1>4. CASE m = n
  BY <1>1, <1>2, <1>4 DEF Begun, Barrier
<1>5. CASE k # n /\ m # n
  BY <1>1, <1>2, <1>5 DEF Begun, Barrier
<1> QED BY <1>3, <1>4, <1>5

\* The live entry of node n moves on to state, from r to x, and the plan is done if it
\* was the last.
EntryMoves(r, x, n, state) ==
    /\ x.attempt = r.attempt /\ x.quarantined = r.quarantined
    /\ \A m \in Node : m # n => x.plan.entry[m] = r.plan.entry[m]
    /\ x.plan.entry[n].state = state
    /\ x.remediated = r.remediated \cup {m \in {n} : state = "succeeded"}
    /\ \A m \in Node : x.sentTo["node.catchup_succeeded"][m] =
                           r.sentTo["node.catchup_succeeded"][m]
                               + Once(m = n /\ state = "succeeded")
    /\ x.sent["catchup.created"] = r.sent["catchup.created"]
    /\ x.sent["catchup.aborted"] = r.sent["catchup.aborted"]
    /\ \/ /\ PlanLive(x)
          /\ x.sent["catchup.completed"] = r.sent["catchup.completed"]
          /\ \E m \in Entries(x) : x.plan.entry[m].state # "succeeded"
       \/ /\ x.plan.state = "done"
          /\ x.sent["catchup.completed"] = r.sent["catchup.completed"] + 1
          /\ \A m \in Entries(x) : x.plan.entry[m].state = "succeeded"

\* A node's notices are counted by numbers.
LEMMA NothingMore ==
    ASSUME NEW r \in Release, NEW n
    PROVE  \A m \in Node : \A state \in {"claimed", "failed"} :
               r.sentTo["node.catchup_succeeded"][m] =
                   r.sentTo["node.catchup_succeeded"][m]
                       + Once(m = n /\ state = "succeeded")
<1>1. \A m \in Node : r.sentTo["node.catchup_succeeded"][m] \in Nat
  BY DEF Release, NodeNotice
<1> QED BY <1>1 DEF Once

LEMMA OneEntryBooks ==
    ASSUME NEW r \in Release, NEW x, NEW n \in Node, PlanLive(r), EntryLive(r, n),
           NEW state \in {"claimed", "failed", "succeeded"}, EntryMoves(r, x, n, state)
    PROVE  BooksKeep(r, x)
<1> USE DEF EntryMoves
<1> SUFFICES ASSUME Books(r) PROVE Books(x)
  BY DEF BooksKeep
<1>1. n \in Entries(r) /\ r.plan.entry[n].state # "succeeded"
  BY DEF EntryLive, Entries, LiveCatchup
<1>2. Entries(x) = Entries(r) /\ Entries(r) \subseteq Node
  <2>1. \A m \in Node : m \in Entries(x) <=> m \in Entries(r)
    BY <1>1 DEF Entries
  <2> QED BY <2>1 DEF Entries
<1>3. n \in r.quarantined /\ n \notin r.remediated
  BY <1>1 DEF Books, Filled
<1>4. Conserved(x)
  <2>1. r.sent["catchup.completed"] \in Nat /\ r.sent["catchup.aborted"] \in Nat
    BY DEF Release, ReleaseNotice
  <2>2. x.sent["catchup.completed"] + x.sent["catchup.aborted"] + Once(PlanLive(x))
            = r.sent["catchup.completed"] + r.sent["catchup.aborted"] + Once(PlanLive(r))
    BY <2>1 DEF Once, PlanLive, LiveCatchup
  <2>3. ASSUME NEW m \in Node
        PROVE  x.sentTo["node.catchup_succeeded"][m] = Once(m \in x.remediated)
    <3>1. r.sentTo["node.catchup_succeeded"][m] = Once(m \in r.remediated)
      BY DEF Books, Conserved
    <3> QED BY <1>3, <3>1 DEF Once
  <2> QED BY <1>3, <2>2, <2>3 DEF Books, Conserved
<1>5. ASSUME NEW m \in Entries(x)
      PROVE  /\ m \in x.quarantined
             /\ EntryLive(x, m) => m \notin x.remediated
             /\ x.plan.entry[m].state = "succeeded" => m \in x.remediated
  <2>1. CASE m = n
    BY <1>3, <2>1 DEF EntryLive, LiveCatchup
  <2>2. CASE m # n
    BY <1>2, <2>2 DEF Books, Filled, EntryLive
  <2> QED BY <2>1, <2>2
<1>6. Filled(x)
  BY <1>5 DEF Filled, PlanLive, LiveCatchup
<1> QED BY <1>4, <1>6 DEF Books

LEMMA KeptThenForward ==
    ASSUME NEW b \in Release, NEW r, NEW x, PlanKept(b, r), Forward(r, x)
    PROVE  Forward(b, x)
<1>1. r.attempt = b.attempt /\ (r.plan = b.plan \/ r.plan = Aborted(b.plan))
  BY DEF PlanKept
<1>2. ~PlanLive(b) => r.plan = b.plan /\ ~PlanLive(r)
  BY <1>1 DEF PlanLive, Aborted
<1>3. ASSUME NEW n \in Node, EntryForward(r.plan.entry[n], x.plan.entry[n])
      PROVE  EntryForward(b.plan.entry[n], x.plan.entry[n])
  <2>1. r.plan = b.plan \/ r.plan.entry[n] = Aborted(b.plan).entry[n]
    BY <1>1
  <2>2. \/ r.plan.entry[n] = b.plan.entry[n]
        \/ /\ b.plan.entry[n].state \in LiveCatchup
           /\ r.plan.entry[n].state = "aborted"
           /\ r.plan.entry[n].epoch = b.plan.entry[n].epoch
    BY <2>1, AbortedEntries
  <2> QED BY <1>3, <2>2 DEF EntryForward, LiveCatchup
<1>4. BarrierKeeps(b, x)
  BY KeptBarrier DEF Forward, BarrierKeeps
<1>5. BooksKeep(b, x)
  BY KeptBooks DEF Forward, BooksKeep
<1> QED BY <1>1, <1>2, <1>3, <1>4, <1>5 DEF Forward

LEMMA KeptIsForward ==
    ASSUME NEW b \in Release, NEW x, PlanKept(b, x)
    PROVE  Forward(b, x)
<1>1. x.attempt = b.attempt /\ (x.plan = b.plan \/ x.plan = Aborted(b.plan))
  BY DEF PlanKept
<1>2. ~PlanLive(b) => x.plan = b.plan
  BY <1>1 DEF PlanLive, Aborted
<1>3. ASSUME NEW n \in Node
      PROVE  EntryForward(b.plan.entry[n], x.plan.entry[n])
  <2>1. b.plan.entry[n].epoch \in Nat
    BY EntriesTyped
  <2>2. \/ x.plan.entry[n] = b.plan.entry[n]
        \/ /\ b.plan.entry[n].state \in LiveCatchup
           /\ x.plan.entry[n].state = "aborted"
           /\ x.plan.entry[n].epoch = b.plan.entry[n].epoch
    BY <1>1, AbortedEntries
  <2> QED BY <2>1, <2>2 DEF EntryForward, LiveCatchup
<1> QED BY <1>1, <1>2, <1>3, KeptBarrier, KeptBooks DEF Forward

LEMMA CommitForward ==
    ASSUME TypeOK, NEW id \in Created, NEW x, Forward(releases[id], x), Commit(id, x)
    PROVE  PlansForward
<1>1. \A i \in Created : i \in Created' /\ releases'[i] = IF i = id THEN x ELSE releases[i]
  BY DEF Commit, Created
<1>2. \A i \in Created : Forward(releases[i], releases[i])
  BY KeptIsForward, ViewPlanKept DEF TypeOK
<1> QED BY <1>1, <1>2 DEF PlansForward

LEMMA SettledPlan ==
    ASSUME TypeOK, NEW id \in Created
    PROVE  Settled(id) \in Release /\ PlanKept(releases[id], Settled(id))
<1> DEFINE e == EvaluateLocked(releases[id], now)
<1>1. e \in Release /\ PlanKept(releases[id], e)
  BY NowType, EvaluateLockedType, EvaluateLockedPlan DEF TypeOK
<1>2. Settled(id) = e \/ Settled(id) = AbortCatchupLocked(e)
  BY DEF Settled, MaybeAbortCatchupForStateLocked
<1> HIDE DEF e
<1> QED BY <1>1, <1>2, AbortCatchupLockedType, AbortCatchupLockedPlan, PlanKeptTransitive

LEMMA CreateCatchupForward ==
    ASSUME TypeOK, NEW id \in Created, NEW replace, CreateCatchup(id, replace)
    PROVE  PlansForward
<1> DEFINE b == releases[id]
           r == EvaluateLocked(b, now)
           replaced == AbortCatchupLocked(r)
           plan == NewPlan(Remaining(r))
           planned == [replaced EXCEPT !.attempt = @ + 1, !.plan = plan]
           x == Emit(planned, "catchup.created")
<1>1. b \in Release /\ r \in Release /\ PlanKept(b, r)
  BY NowType, EvaluateLockedType, EvaluateLockedPlan DEF TypeOK
<1>2. Commit(id, replaced) \/ (Remaining(r) # {} /\ Commit(id, x))
  BY DEF CreateCatchup
<1>3. \A n \in Node : plan.entry[n].state \in {"none", "pending"}
  <2> SUFFICES ASSUME NEW n \in Node PROVE plan.entry[n].state \in {"none", "pending"}
    OBVIOUS
  <2>1. \/ plan.entry[n] = NoEntry
        \/ plan.entry[n] = [state |-> "pending", epoch |-> 0, leaseUntil |-> 0,
                            baseline |-> nodes[n].appliedSeq]
    BY DEF NewPlan, NoEntry
  <2> HIDE DEF plan
  <2> QED BY <2>1 DEF NoEntry
<1> DEFINE todo == Remaining(r)
<1>4. /\ plan.state = "pending"
      /\ \A n \in Node : n \notin todo => plan.entry[n].state = "none"
      /\ \A n \in Node : n \in todo => plan.entry[n].state = "pending"
  BY DEF NewPlan, NoEntry
<1>5. todo \subseteq Node /\ todo \subseteq r.quarantined \ r.remediated
  BY <1>1 DEF Remaining, Release
<1> HIDE DEF b, r, plan, todo
<1>6. /\ replaced \in Release /\ PlanKept(b, replaced) /\ PlanKept(r, replaced)
      /\ ~PlanLive(replaced)
  <2>1. replaced \in Release /\ PlanKept(r, replaced) /\ replaced.plan = Aborted(r.plan)
    BY <1>1, AbortCatchupLockedType, AbortCatchupLockedPlan
  <2>2. ~PlanLive(replaced)
    BY <2>1 DEF PlanLive, Aborted, LiveCatchup
  <2> QED BY <1>1, <2>1, <2>2, PlanKeptTransitive
<1> HIDE DEF replaced
<1>7. /\ x.attempt = replaced.attempt + 1 /\ x.plan = plan
      /\ x.quarantined = replaced.quarantined /\ x.remediated = replaced.remediated
      /\ x.sentTo = replaced.sentTo
      /\ x.sent["catchup.created"] = replaced.sent["catchup.created"] + 1
      /\ x.sent["catchup.completed"] = replaced.sent["catchup.completed"]
      /\ x.sent["catchup.aborted"] = replaced.sent["catchup.aborted"]
  <2>1. /\ planned.attempt = replaced.attempt + 1 /\ planned.plan = plan
        /\ planned.sent = replaced.sent /\ planned.sentTo = replaced.sentTo
        /\ planned.quarantined = replaced.quarantined
        /\ planned.remediated = replaced.remediated
        /\ {"attempt", "plan", "sent", "sentTo", "quarantined", "remediated"}
               \subseteq DOMAIN planned
    BY <1>6 DEF Release
  <2>2. replaced.sent \in [ReleaseNotice -> Nat]
    BY <1>6 DEF Release
  <2> HIDE DEF planned
  <2> QED BY <2>1, <2>2 DEF Emit, ReleaseNotice
<1> HIDE DEF x
<1>8. Barrier(x)
  BY <1>3, <1>7 DEF Barrier, Begun, Entries
<1>9. ASSUME todo # {} PROVE BooksKeep(b, x)
  <2> SUFFICES ASSUME Books(replaced) PROVE Books(x)
    BY <1>1, <1>6, KeptBooks DEF BooksKeep
  <2>1. Entries(x) = todo
    BY <1>4, <1>5, <1>7 DEF Entries
  <2>2. PlanLive(x)
    BY <1>4, <1>7 DEF PlanLive, LiveCatchup
  <2>3. Conserved(x)
    <3>1. /\ replaced.sent["catchup.completed"] \in Nat
          /\ replaced.sent["catchup.aborted"] \in Nat
      BY <1>6 DEF Release, ReleaseNotice
    <3>2. x.sent["catchup.completed"] + x.sent["catchup.aborted"] + Once(PlanLive(x))
              = x.attempt
      BY <1>6, <1>7, <2>2, <3>1 DEF Books, Conserved, Once
    <3> QED BY <1>7, <3>2 DEF Books, Conserved
  <2>4. ASSUME NEW n \in todo
        PROVE  /\ n \in x.quarantined /\ n \notin x.remediated
               /\ x.plan.entry[n].state = "pending"
    <3>1. r.quarantined \subseteq replaced.quarantined /\ replaced.remediated = r.remediated
      BY <1>6 DEF PlanKept
    <3> QED BY <1>4, <1>5, <1>7, <3>1
  <2>5. Filled(x)
    BY <1>4, <1>7, <1>9, <2>1, <2>4 DEF Filled
  <2> QED BY <2>3, <2>5 DEF Books
<1>10. Forward(b, replaced) /\ (todo # {} => Forward(b, x))
  <2>1. x.attempt = b.attempt + 1
    BY <1>6, <1>7 DEF PlanKept
  <2> QED BY <1>1, <1>6, <1>8, <1>9, <2>1, KeptIsForward DEF Forward, BarrierKeeps
<1> QED BY <1>2, <1>10, CommitForward DEF b, todo

LEMMA RefusedForward ==
    ASSUME TypeOK, NEW id \in Created, Commit(id, Settled(id))
    PROVE  PlansForward
BY SettledPlan, KeptIsForward, CommitForward DEF TypeOK

\* What a claim does to an entry that it hands out: a lease that ran is over.
HandedOut(from, to) ==
    to.epoch > from.epoch => /\ to.epoch \in 1 .. MaxEpoch
                             /\ from.state = "claimed" => from.leaseUntil <= now

ClaimsHandOut(id) ==
    \A m \in Node : HandedOut(releases[id].plan.entry[m], releases'[id].plan.entry[m])

\* The claimed entry under its next epoch.
LEMMA ClaimNextForward ==
    ASSUME TypeOK, NEW id \in Created, ClaimNext(id)
    PROVE  PlansForward /\ ClaimsHandOut(id)
<1> DEFINE b == releases[id]
           r == Settled(id)
           n == Candidate(r)
           epoch == r.plan.entry[n].epoch + 1
           entry == [r.plan.entry[n] EXCEPT !.state = "claimed", !.epoch = epoch,
                                            !.leaseUntil = now + LeaseTTL]
           plan == [ state |-> "claimed", entry |-> [r.plan.entry EXCEPT ![n] = entry] ]
           claimed == [r EXCEPT !.plan = plan]
<1>1. b \in Release /\ r \in Release /\ PlanKept(b, r)
  BY SettledPlan DEF TypeOK
<1>2. /\ PlanLive(r) /\ Claimable(r) # {} /\ epoch <= MaxEpoch
      /\ Commit(id, claimed) \/ Commit(id, AbortCatchupLocked(r))
  BY DEF ClaimNext
<1> HIDE DEF r
<1>3. n \in Claimable(r)
  <2>1. Claimable(r) \subseteq Node
    BY DEF Claimable, FirstUnfinished, Entries
  <2> QED BY <1>2, <2>1, SmallestNode DEF Candidate
<1>4. /\ n \in Node /\ n \in Entries(r) /\ r.plan.entry[n].state \in LiveCatchup
      /\ \A m \in Entries(r) : r.plan.entry[m].state # "succeeded" => r.wave[n] <= r.wave[m]
  BY <1>3 DEF Claimable, FirstUnfinished, Entries, LiveCatchup
<1>5. b.plan.entry[n].state = "claimed" => b.plan.entry[n].leaseUntil <= now
  <2>1. r.plan.entry[n].state = "claimed" => r.plan.entry[n].leaseUntil <= now
    BY <1>3 DEF Claimable
  <2>2. b.plan.entry[n] = r.plan.entry[n]
    BY <1>1, <1>4, AbortedEntries DEF PlanKept, LiveCatchup
  <2> QED BY <2>1, <2>2
<1> HIDE DEF n
<1>6. /\ r.plan.entry \in [Node -> CatchupEntry] /\ r.plan.entry[n] \in CatchupEntry
      /\ \A m \in Node : r.plan.entry[m].epoch \in Nat
  BY <1>1, <1>4, EntriesTyped
<1>7. epoch \in 1 .. MaxEpoch
  BY <1>2, <1>4, <1>6, CatchupAssumption
<1>8. entry.state = "claimed" /\ entry.epoch = r.plan.entry[n].epoch + 1
  BY <1>6 DEF CatchupEntry
<1> HIDE DEF entry
<1>9. /\ plan.entry[n] = entry /\ plan.state = "claimed"
      /\ \A m \in Node : m # n => plan.entry[m] = r.plan.entry[m]
  BY <1>4, <1>6
<1> HIDE DEF plan
<1>10. /\ claimed.plan = plan /\ claimed.attempt = r.attempt /\ claimed.wave = r.wave
      /\ claimed.quarantined = r.quarantined /\ claimed.remediated = r.remediated
      /\ claimed.sent = r.sent /\ claimed.sentTo = r.sentTo
  BY <1>1 DEF Release
<1> HIDE DEF claimed
<1>11. \A m \in Node : b.plan.entry[m].epoch = r.plan.entry[m].epoch
  BY <1>1, AbortedEntries DEF PlanKept
<1>12. CASE Commit(id, claimed)
  <2>1. ASSUME NEW m \in Node
        PROVE  EntryForward(r.plan.entry[m], claimed.plan.entry[m])
    <3>1. CASE m = n
      BY <1>4, <1>6, <1>8, <1>9, <1>10, <3>1 DEF EntryForward
    <3>2. CASE m # n
      BY <1>6, <1>9, <1>10, <3>2 DEF EntryForward, LiveCatchup
    <3> QED BY <3>1, <3>2
  <2>2. Forward(r, claimed)
    <3>1. \A m \in Entries(r) : r.wave[m] < r.wave[n] => r.plan.entry[m].state = "succeeded"
      <4>1. r.wave \in [Node -> Int] /\ Entries(r) \subseteq Node
        BY <1>1 DEF Release, Entries
      <4> QED BY <1>4, <4>1
    <3>2. BarrierKeeps(r, claimed)
      BY <1>1, <1>4, <1>9, <1>10, <3>1, OneEntryBarrier DEF LiveCatchup
    <3>3. BooksKeep(r, claimed)
      <4>1. PlanLive(claimed) /\ EntryLive(r, n)
        BY <1>4, <1>9, <1>10 DEF PlanLive, LiveCatchup, EntryLive
      <4>2. n \in Entries(claimed) /\ claimed.plan.entry[n].state = "claimed"
        BY <1>4, <1>8, <1>9, <1>10 DEF Entries
      <4>3. EntryMoves(r, claimed, n, "claimed")
        BY <1>1, <1>4, <1>9, <1>10, <4>1, <4>2, NothingMore DEF EntryMoves
      <4> QED BY <1>1, <1>2, <1>4, <4>1, <4>3, OneEntryBooks
    <3> QED BY <1>2, <1>10, <2>1, <3>2, <3>3 DEF Forward
  <2>3. PlansForward
    BY <1>1, <1>12, <2>2, KeptThenForward, CommitForward DEF b
  <2>4. releases'[id] = claimed
    BY <1>12 DEF Commit, Created
  <2>5. ASSUME NEW m \in Node
        PROVE  HandedOut(b.plan.entry[m], claimed.plan.entry[m])
    <3>1. CASE m = n
      BY <1>7, <1>8, <1>9, <1>10, <1>5, <3>1 DEF HandedOut
    <3>2. CASE m # n
      BY <1>6, <1>9, <1>10, <1>11, <3>2 DEF HandedOut
    <3> QED BY <3>1, <3>2
  <2> QED BY <2>3, <2>4, <2>5 DEF ClaimsHandOut
<1>13. CASE Commit(id, AbortCatchupLocked(r))
  <2> DEFINE x == AbortCatchupLocked(r)
  <2>1. PlanKept(b, x)
    BY <1>1, AbortCatchupLockedPlan, PlanKeptTransitive
  <2> HIDE DEF x
  <2>2. PlansForward
    BY <1>1, <1>13, <2>1, KeptIsForward, CommitForward DEF b, x
  <2>3. releases'[id] = x
    BY <1>13 DEF Commit, Created, x
  <2>4. \A m \in Node : b.plan.entry[m].epoch = x.plan.entry[m].epoch
    BY <1>1, <2>1, AbortedEntries DEF PlanKept
  <2>5. \A m \in Node : b.plan.entry[m].epoch \in Nat
    BY <1>6, <1>11
  <2> QED BY <2>2, <2>3, <2>4, <2>5 DEF b, ClaimsHandOut, HandedOut
<1> QED BY <1>2, <1>12, <1>13

LEMMA ClaimCatchupForward ==
    ASSUME TypeOK, NEW id \in Created, ClaimCatchup(id)
    PROVE  PlansForward /\ ClaimsHandOut(id)
<1>1. CASE ClaimNothing(id)
  <2>1. Commit(id, Settled(id))
    BY <1>1 DEF ClaimNothing
  <2>2. releases'[id] = Settled(id) /\ releases[id] \in Release
    BY <2>1 DEF Commit, Created, TypeOK
  <2>3. \A m \in Node :
            /\ releases'[id].plan.entry[m].epoch = releases[id].plan.entry[m].epoch
            /\ releases[id].plan.entry[m].epoch \in Nat
    BY <2>2, SettledPlan, AbortedEntries, EntriesTyped DEF PlanKept
  <2> QED BY <2>1, <2>3, RefusedForward DEF ClaimsHandOut, HandedOut
<1> QED BY <1>1, ClaimNextForward DEF ClaimCatchup

\* What a report does to entry n of release id, when it has an effect.
Takes(id, n, epoch) ==
    LET from == releases[id].plan.entry[n]
        to == releases'[id].plan.entry[n]
    IN  to # from /\ to.state \in {"succeeded", "failed"} =>
            /\ releases'[id].attempt = releases[id].attempt
            /\ from.state = "claimed" /\ from.epoch = epoch /\ to.epoch = epoch

LEMMA KeptTakesNothing ==
    ASSUME TypeOK, NEW id \in Created, NEW n \in Node, NEW epoch,
           PlanKept(releases[id], releases'[id])
    PROVE  Takes(id, n, epoch)
<1>1. releases[id] \in Release
  BY DEF TypeOK
<1> QED BY <1>1, AbortedEntries DEF PlanKept, Takes

LEMMA ResultForward ==
    ASSUME NEW r \in Release, NEW n \in Node, NEW result \in {"succeeded", "failed"},
           NEW x, x.attempt = r.attempt, x.wave = r.wave, PlanLive(r),
           r.plan.entry[n].state = "claimed", BooksKeep(r, x),
           x.plan.entry = PlanWithResult(r, n, result).entry
    PROVE  /\ Forward(r, x)
           /\ x.plan.entry[n].epoch = r.plan.entry[n].epoch
<1> DEFINE entry == [r.plan.entry[n] EXCEPT !.state = result]
<1>1. /\ r.plan \in CatchupPlan
      /\ r.plan.entry \in [Node -> CatchupEntry] /\ r.plan.entry[n] \in CatchupEntry
      /\ \A m \in Node : r.plan.entry[m].epoch \in Nat
  BY EntriesTyped
<1>2. entry.state = result /\ entry.epoch = r.plan.entry[n].epoch
  BY <1>1 DEF CatchupEntry
<1>3. PlanWithResult(r, n, result)
          = [r.plan EXCEPT !.entry = [r.plan.entry EXCEPT ![n] = entry]]
  BY DEF PlanWithResult
<1> HIDE DEF entry
<1>4. x.plan.entry = [r.plan.entry EXCEPT ![n] = entry]
  BY <1>1, <1>3 DEF CatchupPlan
<1>5. ASSUME NEW m \in Node
      PROVE  EntryForward(r.plan.entry[m], x.plan.entry[m])
  <2>1. CASE m = n
    BY <1>1, <1>2, <1>4, <2>1 DEF EntryForward, LiveCatchup
  <2>2. CASE m # n
    BY <1>1, <1>4, <2>2 DEF EntryForward, LiveCatchup
  <2> QED BY <2>1, <2>2
<1>6. BarrierKeeps(r, x)
  <2>1. \A m \in Node : m # n => x.plan.entry[m] = r.plan.entry[m]
    BY <1>1, <1>4
  <2>2. n \in Entries(r) /\ Begun(r, n)
    BY DEF Entries, Begun
  <2>3. Barrier(r) => \A m \in Entries(r) : r.wave[m] < r.wave[n] =>
                          r.plan.entry[m].state = "succeeded"
    BY <2>2 DEF Barrier
  <2> QED BY <2>1, <2>2, <2>3, OneEntryBarrier
<1> QED BY <1>1, <1>2, <1>4, <1>5, <1>6 DEF Forward

LEMMA ResultOfEntry ==
    ASSUME NEW r \in Release, NEW n \in Node, NEW result \in {"succeeded", "failed"}
    PROVE  LET plan == PlanWithResult(r, n, result)
           IN  /\ plan.entry[n].state = result
               /\ \A m \in Node : m # n => plan.entry[m] = r.plan.entry[m]
<1> DEFINE entry == [r.plan.entry[n] EXCEPT !.state = result]
<1>1. /\ r.plan \in CatchupPlan
      /\ r.plan.entry \in [Node -> CatchupEntry] /\ r.plan.entry[n] \in CatchupEntry
  BY EntriesTyped
<1>2. PlanWithResult(r, n, result)
          = [r.plan EXCEPT !.entry = [r.plan.entry EXCEPT ![n] = entry]]
  BY DEF PlanWithResult
<1>3. entry.state = result
  BY <1>1 DEF CatchupEntry
<1> HIDE DEF entry
<1> QED BY <1>1, <1>2, <1>3 DEF CatchupPlan

\* The release a report meets: its entry is claimed, so its plan is live.
LEMMA ReportMeets ==
    ASSUME PlanInv, NEW id \in Created, NEW n \in Node, NEW epoch,
           ReportMatches(Settled(id), n, epoch)
    PROVE  LET b == releases[id]
               r == Settled(id)
           IN  /\ TypeOK /\ b \in Release /\ r \in Release /\ PlanKept(b, r)
               /\ PlanLive(r) /\ r.plan.entry[n].state = "claimed"
               /\ r.plan.entry[n].epoch = epoch
               /\ r.attempt = b.attempt /\ b.plan.entry[n] = r.plan.entry[n]
<1>1. TypeOK /\ releases[id] \in Release /\ EndedIsOver(releases[id])
  BY DEF PlanInv, WaveInv, Inv, TypeOK, Plans
<1>2. /\ Settled(id) \in Release /\ PlanKept(releases[id], Settled(id))
      /\ EndedIsOver(Settled(id))
  BY <1>1, SettledPlan, SettledKeeps DEF PlanInv, Carries
<1>3. /\ Settled(id).plan.entry[n].state = "claimed"
      /\ Settled(id).plan.entry[n].epoch = epoch
  BY DEF ReportMatches
<1>4. PlanLive(Settled(id))
  BY <1>2, <1>3 DEF EndedIsOver, EntryLive, LiveCatchup
<1>5. releases[id].plan.entry[n] = Settled(id).plan.entry[n]
  BY <1>1, <1>2, <1>3, AbortedEntries DEF PlanKept
<1> QED BY <1>1, <1>2, <1>3, <1>4, <1>5 DEF PlanKept

LEMMA ReportFailedForward ==
    ASSUME PlanInv, NEW id \in Created, NEW n \in Node, NEW epoch,
           ReportFailed(id, n, epoch)
    PROVE  PlansForward /\ Takes(id, n, epoch)
<1> DEFINE b == releases[id]
           r == Settled(id)
           plan == PlanWithResult(r, n, "failed")
           x == [r EXCEPT !.plan = plan]
<1>1. /\ TypeOK /\ b \in Release /\ r \in Release /\ PlanKept(b, r) /\ PlanLive(r)
      /\ r.plan.entry[n].state = "claimed" /\ r.plan.entry[n].epoch = epoch
      /\ r.attempt = b.attempt /\ b.plan.entry[n] = r.plan.entry[n]
  BY ReportMeets DEF ReportFailed
<1>2. Commit(id, x)
  BY DEF ReportFailed, PlanWithResult
<1> HIDE DEF r, plan
<1>3. /\ x.attempt = r.attempt /\ x.plan = plan /\ x.wave = r.wave
      /\ x.quarantined = r.quarantined /\ x.remediated = r.remediated
      /\ x.sent = r.sent /\ x.sentTo = r.sentTo
  BY <1>1 DEF Release
<1> HIDE DEF x
<1>4. Forward(r, x) /\ x.plan.entry[n].epoch = r.plan.entry[n].epoch
  <2>1. /\ plan.state = r.plan.state /\ plan.entry[n].state = "failed"
        /\ \A m \in Node : m # n => plan.entry[m] = r.plan.entry[m]
    BY <1>1, ResultEndsEntry, ResultOfEntry DEF plan
  <2>2. PlanLive(x) /\ n \in Entries(x)
    BY <1>1, <1>3, <2>1 DEF PlanLive, Entries
  <2>3. EntryMoves(r, x, n, "failed")
    BY <1>1, <1>3, <2>1, <2>2, NothingMore DEF EntryMoves
  <2>4. BooksKeep(r, x)
    BY <1>1, <2>3, OneEntryBooks DEF EntryLive, LiveCatchup
  <2> QED BY <1>1, <1>3, <2>4, ResultForward DEF plan
<1>5. PlansForward
  BY <1>1, <1>2, <1>4, KeptThenForward, CommitForward DEF b
<1>6. releases'[id] = x
  BY <1>2 DEF Commit, Created
<1> QED BY <1>1, <1>3, <1>4, <1>5, <1>6 DEF Takes, b

LEMMA EntrySucceededPlan ==
    ASSUME NEW r \in Release, NEW n \in Node, PlanLive(r)
    PROVE  LET x == EntrySucceeded(r, n)
           IN  /\ x.attempt = r.attempt /\ x.wave = r.wave
               /\ x.plan.entry = PlanWithResult(r, n, "succeeded").entry
               /\ EntryMoves(r, x, n, "succeeded")
<1> DEFINE plan == PlanWithResult(r, n, "succeeded")
           remediated == r.remediated \cup {n}
           marked == [r EXCEPT !.plan = plan, !.remediated = remediated]
           s == EmitTo(marked, "node.catchup_succeeded", {n})
           donePlan == [s.plan EXCEPT !.state = "done"]
           done == [s EXCEPT !.plan = donePlan]
           x == EntrySucceeded(r, n)
<1>1. marked = [r EXCEPT !.plan.entry[n].state = "succeeded", !.remediated = @ \cup {n}]
  BY DEF PlanWithResult
<1>2. x = IF \A m \in Entries(s) : s.plan.entry[m].state = "succeeded"
          THEN Emit([s EXCEPT !.plan.state = "done"], "catchup.completed") ELSE s
  BY <1>1 DEF EntrySucceeded
<1>3. plan \in CatchupPlan /\ plan.state = r.plan.state
  BY ResultEndsEntry
<1>4. /\ plan.entry[n].state = "succeeded"
      /\ \A m \in Node : m # n => plan.entry[m] = r.plan.entry[m]
  BY ResultOfEntry
<1> HIDE DEF plan
<1>5. remediated \in SUBSET Node /\ marked \in Release
  BY <1>3 DEF Release
<1> HIDE DEF remediated
<1>6. /\ marked.plan = plan /\ marked.attempt = r.attempt /\ marked.wave = r.wave
      /\ marked.quarantined = r.quarantined /\ marked.remediated = remediated
      /\ marked.sent = r.sent /\ marked.sentTo = r.sentTo
  BY DEF Release
<1> HIDE DEF marked
<1>7. /\ s \in Release /\ s.plan = plan /\ s.attempt = r.attempt /\ s.wave = r.wave
      /\ s.quarantined = r.quarantined /\ s.remediated = remediated /\ s.sent = r.sent
  <2>1. s \in Release
    BY <1>5, EmitToType DEF NodeNotice
  <2>2. /\ s.plan = marked.plan /\ s.attempt = marked.attempt /\ s.wave = marked.wave
        /\ s.quarantined = marked.quarantined /\ s.remediated = marked.remediated
        /\ s.sent = marked.sent
    BY <1>5 DEF EmitTo, Release
  <2> QED BY <1>6, <2>1, <2>2
<1>8. \A m \in Node : s.sentTo["node.catchup_succeeded"][m]
                          = r.sentTo["node.catchup_succeeded"][m] + Once(m = n)
  <2>1. s.sentTo["node.catchup_succeeded"] =
            [m \in Node |-> marked.sentTo["node.catchup_succeeded"][m]
                               + (IF m \in {n} THEN 1 ELSE 0)]
    BY <1>5 DEF EmitTo, Release, NodeNotice
  <2> QED BY <1>6, <2>1 DEF Once
<1> HIDE DEF s
<1>9. [s EXCEPT !.plan.state = "done"] = done
  BY <1>7 DEF Release
<1>10. /\ donePlan \in CatchupPlan /\ donePlan.entry = plan.entry
       /\ donePlan.state = "done"
  BY <1>3, <1>7 DEF CatchupPlan, PlanState
<1> HIDE DEF donePlan
<1>11. /\ done \in Release /\ done.plan = donePlan
       /\ done.attempt = s.attempt /\ done.wave = s.wave
       /\ done.quarantined = s.quarantined /\ done.remediated = s.remediated
       /\ done.sent = s.sent /\ done.sentTo = s.sentTo
  BY <1>7, <1>10 DEF Release
<1> HIDE DEF done
<1> DEFINE y == Emit(done, "catchup.completed")
<1>12. /\ y.plan = done.plan /\ y.attempt = done.attempt /\ y.wave = done.wave
       /\ y.quarantined = done.quarantined /\ y.remediated = done.remediated
       /\ y.sentTo = done.sentTo
       /\ y.sent["catchup.created"] = done.sent["catchup.created"]
       /\ y.sent["catchup.aborted"] = done.sent["catchup.aborted"]
       /\ y.sent["catchup.completed"] = done.sent["catchup.completed"] + 1
  BY <1>11 DEF Emit, Release, ReleaseNotice
<1>13. x = IF \A m \in Entries(s) : s.plan.entry[m].state = "succeeded" THEN y ELSE s
  BY <1>2, <1>9
<1>14. Entries(y) = Entries(s)
  BY <1>7, <1>10, <1>11, <1>12 DEF Entries
<1> HIDE DEF x, y
<1>15. /\ x.attempt = r.attempt /\ x.wave = r.wave /\ x.quarantined = r.quarantined
       /\ x.plan.entry = plan.entry /\ x.remediated = remediated
       /\ x.sentTo = s.sentTo
       /\ x.sent["catchup.created"] = r.sent["catchup.created"]
       /\ x.sent["catchup.aborted"] = r.sent["catchup.aborted"]
  BY <1>7, <1>10, <1>11, <1>12, <1>13
<1>16. \/ /\ PlanLive(x)
          /\ x.sent["catchup.completed"] = r.sent["catchup.completed"]
          /\ \E m \in Entries(x) : x.plan.entry[m].state # "succeeded"
       \/ /\ x.plan.state = "done"
          /\ x.sent["catchup.completed"] = r.sent["catchup.completed"] + 1
          /\ \A m \in Entries(x) : x.plan.entry[m].state = "succeeded"
  <2>1. CASE x = s /\ ~ \A m \in Entries(s) : s.plan.entry[m].state = "succeeded"
    BY <1>3, <1>7, <2>1 DEF PlanLive
  <2>2. CASE x = y /\ \A m \in Entries(s) : s.plan.entry[m].state = "succeeded"
    BY <1>7, <1>10, <1>11, <1>12, <1>14, <2>2
  <2> QED BY <1>13, <2>1, <2>2
<1>17. \A m \in Node : x.sentTo["node.catchup_succeeded"][m] =
           r.sentTo["node.catchup_succeeded"][m] + Once(m = n /\ "succeeded" = "succeeded")
  BY <1>8, <1>15 DEF Once
<1>18. EntryMoves(r, x, n, "succeeded")
  BY <1>4, <1>15, <1>16, <1>17 DEF EntryMoves, remediated
<1> QED BY <1>15, <1>18 DEF plan, x

LEMMA ReportSucceededForward ==
    ASSUME PlanInv, NEW id \in Created, NEW n \in Node, NEW epoch,
           ReportSucceeded(id, n, epoch)
    PROVE  PlansForward /\ Takes(id, n, epoch)
<1> DEFINE b == releases[id]
           r == Settled(id)
           others == AbortSupersededCatchupLocked(id, n)
           x == EntrySucceeded(r, n)
<1>1. /\ TypeOK /\ b \in Release /\ r \in Release /\ PlanKept(b, r) /\ PlanLive(r)
      /\ r.plan.entry[n].state = "claimed" /\ r.plan.entry[n].epoch = epoch
      /\ r.attempt = b.attempt /\ b.plan.entry[n] = r.plan.entry[n]
  BY ReportMeets DEF ReportSucceeded
<1>2. \/ releases' = [others EXCEPT ![id] = x]
      \/ Commit(id, AbortCatchupLocked(r))
  BY DEF ReportSucceeded
<1> HIDE DEF r
<1>3. CASE Commit(id, AbortCatchupLocked(r))
  <2>1. PlanKept(b, AbortCatchupLocked(r))
    BY <1>1, AbortCatchupLockedPlan, PlanKeptTransitive
  <2>2. PlansForward
    BY <1>1, <1>3, <2>1, KeptIsForward, CommitForward DEF b
  <2>3. releases'[id] = AbortCatchupLocked(r)
    BY <1>3 DEF Commit, Created
  <2> QED BY <1>1, <2>1, <2>2, <2>3, KeptTakesNothing DEF b
<1>4. CASE releases' = [others EXCEPT ![id] = x]
  <2>1. /\ x.attempt = r.attempt /\ Forward(r, x)
        /\ x.plan.entry[n].epoch = r.plan.entry[n].epoch
    <3>1. BooksKeep(r, x)
      BY <1>1, EntrySucceededPlan, OneEntryBooks DEF EntryLive, LiveCatchup
    <3> HIDE DEF x
    <3> QED BY <1>1, <3>1, EntrySucceededPlan, ResultForward DEF x
  <2> HIDE DEF x
  <2>2. Forward(b, x)
    BY <1>1, <2>1, KeptThenForward
  <2>3. DOMAIN others = Created
    BY DEF AbortSupersededCatchupLocked
  <2>4. ASSUME NEW i \in Created PROVE Forward(releases[i], others[i])
    <3>1. releases[i] \in Release
      BY <1>1 DEF TypeOK
    <3>2. others[i] \in {releases[i], AbortCatchupLocked(releases[i])}
      BY DEF AbortSupersededCatchupLocked
    <3> QED BY <3>1, <3>2, ViewPlanKept, AbortCatchupLockedPlan, KeptIsForward
  <2> HIDE DEF others
  <2>5. releases'[id] = x /\ PlansForward
    BY <1>4, <2>2, <2>3, <2>4 DEF PlansForward, Created
  <2> QED BY <1>1, <2>1, <2>5 DEF Takes, b
<1> QED BY <1>2, <1>3, <1>4

LEMMA CompleteCatchupForward ==
    ASSUME PlanInv, NEW id \in Created, NEW n \in Node, NEW epoch,
           CompleteCatchup(id, n, epoch)
    PROVE  PlansForward /\ Takes(id, n, epoch)
<1>1. CASE ReportRefused(id, n)
  <2>1. TypeOK /\ Commit(id, Settled(id))
    BY <1>1 DEF ReportRefused, PlanInv, WaveInv, Inv
  <2>2. releases'[id] = Settled(id)
    BY <2>1 DEF Commit, Created
  <2> QED BY <2>1, <2>2, RefusedForward, SettledPlan, KeptTakesNothing
<1> QED BY <1>1, ReportFailedForward, ReportSucceededForward DEF CompleteCatchup

LEMMA CatchupNextPlansForward ==
    ASSUME PlanInv, [CatchupNext]_vars
    PROVE  PlansForward
<1>1. TypeOK
  BY DEF PlanInv, WaveInv, Inv
<1>2. CASE [Next]_vars
  BY <1>1, <1>2, NextKeepsPlans, KeptIsForward DEF PlansKept, PlansForward, TypeOK
<1>3. ASSUME NEW id \in Created,
             CreateCatchupPlan(id) \/ RebuildCatchupPlan(id) \/ ClaimCatchup(id)
      PROVE  PlansForward
  BY <1>1, <1>3, CreateCatchupForward, ClaimCatchupForward
     DEF CreateCatchupPlan, RebuildCatchupPlan
<1>4. ASSUME NEW id \in Created, NEW n \in Node, NEW epoch \in 1 .. MaxEpoch,
             CompleteCatchup(id, n, epoch)
      PROVE  PlansForward
  BY <1>4, CompleteCatchupForward
<1> QED BY <1>2, <1>3, <1>4 DEF CatchupNext

\* A result is final, a claimed entry is never unclaimed, epochs only grow, and an
\* ended plan stays ended, whichever handlers meet (model.go 224).
THEOREM PlansOnlyForward == CatchupSpec => CatchupMovesForward
<1> DEFINE A == \A id \in Created :
          LET before == releases[id]
              after == releases'[id]
          IN  after.attempt = before.attempt =>
                /\ ~PlanLive(before) => after.plan = before.plan
                /\ \A n \in Node :
                      LET from == before.plan.entry[n]
                          to == after.plan.entry[n]
                      IN  /\ from.state \notin LiveCatchup => to = from
                          /\ from.state = "claimed" => to.state # "pending"
                          /\ to.epoch >= from.epoch
<1>1. PlanInv /\ [CatchupNext]_vars => A
  <2> SUFFICES ASSUME PlanInv, [CatchupNext]_vars PROVE A
    OBVIOUS
  <2>1. \A id \in Created : Forward(releases[id], releases'[id])
    BY CatchupNextPlansForward DEF PlansForward
  <2>2. \A id \in Created : releases[id].attempt \in Nat
    BY EntriesTyped DEF PlanInv, WaveInv, Inv, TypeOK
  <2> QED BY <2>1, <2>2 DEF Forward, EntryForward
<1>2. A => [A]_vars
  OBVIOUS
<1> QED BY <1>1, <1>2, CatchupInv, PTL DEF CatchupSpec, CatchupMovesForward

\* Nothing but CreateRelease adds a release.
LEMMA NewReleases ==
    ASSUME [CatchupNext]_vars, NEW i \in Created', i \notin Created
    PROVE  \E in \in Inputs : CreateRelease(i, in)
<1>1. ASSUME NEW id \in ReleaseId, NEW in \in Inputs, CreateRelease(id, in)
      PROVE  \E input \in Inputs : CreateRelease(i, input)
  <2>1. i = id
    BY <1>1 DEF CreateRelease, Created
  <2> QED BY <1>1, <2>1
<1>2. \A id \in Created, n \in Node : DOMAIN AbortSupersededCatchupLocked(id, n) = Created
  BY DEF AbortSupersededCatchupLocked
<1>3. ASSUME NEW id \in Created, NEW n \in Node, NEW x,
             releases' = [AbortSupersededCatchupLocked(id, n) EXCEPT ![id] = x]
      PROVE  FALSE
  BY <1>2, <1>3 DEF Created
<1>4. ASSUME NEW id \in Created, NEW x, Commit(id, x)
      PROVE  FALSE
  BY <1>4 DEF Commit, Created
<1>5. CASE Restart
  BY <1>5 DEF Restart, Created
<1>6. CASE UNCHANGED vars \/ ClockTick
  BY <1>6 DEF vars, ClockTick, Created
<1>7. ASSUME NEW id \in Created,
             \/ TickTimeout(id) \/ Pause(id) \/ Resume(id) \/ Cancel(id)
             \/ \E n \in Node :
                   \/ AckReceipt(id, n) \/ QuarantineNode(id, n) \/ QuarantineAgain(id, n)
                   \/ ConfirmRollback(id, n)
                   \/ \E event \in SampleId, healthy \in BOOLEAN :
                         ReportHealth(id, n, event, healthy)
      PROVE  FALSE
  BY <1>3, <1>4, <1>7 DEF TickTimeout, Pause, Resume, Cancel, AckReceipt, AckIgnored,
     AckFailed, AckSucceeded, QuarantineNode, QuarantineAgain, ConfirmRollback, ReportHealth
<1>8. ASSUME NEW id \in Created,
             \/ CreateCatchupPlan(id) \/ RebuildCatchupPlan(id) \/ ClaimCatchup(id)
             \/ \E n \in Node, epoch \in 1 .. MaxEpoch : CompleteCatchup(id, n, epoch)
      PROVE  FALSE
  BY <1>3, <1>4, <1>8 DEF CreateCatchupPlan, RebuildCatchupPlan, CreateCatchup,
     ClaimCatchup, ClaimNothing, ClaimNext, CompleteCatchup, ReportRefused, ReportFailed,
     ReportSucceeded
<1> QED BY <1>1, <1>5, <1>6, <1>7, <1>8 DEF CatchupNext, Next

\* A new release has no plan yet.
LEMMA NextBarriers ==
    ASSUME PlanInv, WaveBarrier, [CatchupNext]_vars
    PROVE  WaveBarrier'
<1>1. \A i \in Created : i \in Created' /\ (Barrier(releases[i]) => Barrier(releases'[i]))
  BY CatchupNextPlansForward DEF PlansForward, Forward, BarrierKeeps
<1>2. \A i \in Created : Barrier(releases[i])
  BY DEF WaveBarrier, Barrier, Begun
<1>3. ASSUME NEW i \in Created', i \notin Created
      PROVE  Barrier(releases'[i])
  <2>1. PICK in \in Inputs : CreateRelease(i, in)
    BY <1>3, NewReleases
  <2>2. releases'[i] = NewRelease(nextSeq + 1, in, now)
    BY <1>3, <2>1 DEF CreateRelease
  <2>3. in \in Input /\ ValidInput(in) /\ nextSeq + 1 \in Nat
    BY <2>1, InputsAssumption DEF CreateRelease, PlanInv, WaveInv, Inv, TypeOK
  <2>4. releases'[i].plan = NoPlan
    BY <2>2, <2>3, NewReleasePlans
  <2> QED BY <2>4 DEF Barrier, Entries, NoPlan, NoEntry
<1>4. \A i \in Created' : Barrier(releases'[i])
  BY <1>1, <1>2, <1>3
<1> QED BY <1>4 DEF WaveBarrier, Barrier, Begun

\* No entry is claimed or has a result while one of an earlier wave has not succeeded,
\* whoever claims, reports and rebuilds meanwhile (catchup.go, ClaimCatchup).
THEOREM WavesInOrderOfCatchup == CatchupSpec => []WaveBarrier
<1>1. Init => WaveBarrier
  BY DEF Init, WaveBarrier, Created
<1>2. PlanInv /\ WaveBarrier /\ [CatchupNext]_vars => WaveBarrier'
  BY NextBarriers
<1> QED BY <1>1, <1>2, CatchupInv, PTL DEF CatchupSpec

-----------------------------------------------------------------------------
(* The books of the plans *)

BooksBalance == \A i \in Created : Books(releases[i])

\* A new release has made no plan and announced none.
LEMMA NewReleaseBooks ==
    ASSUME NEW in \in Input, ValidInput(in), NEW seq \in Nat
    PROVE  Books(NewRelease(seq, in, now))
<1> DEFINE empty == EmptyRelease(seq, in)
           created == Emit(empty, "release.created")
           x == NewRelease(seq, in, now)
<1>1. empty \in Release
  BY EmptyReleaseType
<1>2. /\ empty.attempt = 0 /\ empty.remediated = {} /\ empty.quarantined = {}
      /\ empty.sent = [k \in ReleaseNotice |-> 0]
      /\ empty.sentTo = [k \in NodeNotice |-> [n \in Node |-> 0]]
  BY DEF EmptyRelease
<1> HIDE DEF empty
<1>3. /\ created \in Release /\ PlanView(created) = PlanView(empty)
      /\ created.quarantined = empty.quarantined
  BY <1>1, EmitType, EmitPlan DEF ReleaseNotice, CatchupNotice
<1> HIDE DEF created
<1>4. PlanView(x) = PlanView(created) /\ x.quarantined = created.quarantined
  <2> DEFINE result == [n \in Node |-> IF created.wave[n] = 0 THEN "in_progress"
                                       ELSE created.result[n]]
             opened == [created EXCEPT !.currentWave = 0, !.waveOpenedAt = now,
                                       !.thresholdMetAt = NotMet, !.result = result]
  <2>1. x = [opened EXCEPT !.sent["wave.opened"] = @ + 1]
    BY DEF NewRelease, OpenWave, Emit, created, empty
  <2> HIDE DEF x, result
  <2>2. /\ opened.attempt = created.attempt /\ opened.plan = created.plan
        /\ opened.wave = created.wave /\ opened.remediated = created.remediated
        /\ opened.sent = created.sent /\ opened.sentTo = created.sentTo
        /\ opened.quarantined = created.quarantined
        /\ DOMAIN opened = DOMAIN created
    BY <1>3 DEF Release
  <2> HIDE DEF opened
  <2> QED BY <1>3, <2>1, <2>2 DEF PlanView, Release, ReleaseNotice
<1>5. x.plan = NoPlan
  BY NewReleasePlans
<1> HIDE DEF x
<1>6. /\ x.attempt = 0 /\ x.remediated = {} /\ x.quarantined = {} /\ ~PlanLive(x)
      /\ x.sent["catchup.created"] = 0 /\ x.sent["catchup.completed"] = 0
      /\ x.sent["catchup.aborted"] = 0
      /\ \A n \in Node : x.sentTo["node.catchup_succeeded"][n] = 0
  <2>1. ~PlanLive(x)
    BY <1>5 DEF PlanLive, NoPlan, LiveCatchup
  <2> QED BY <1>2, <1>3, <1>4, <2>1 DEF PlanView, ReleaseNotice, NodeNotice
<1>7. Entries(x) = {} /\ x.plan.state # "done"
  BY <1>5 DEF Entries, NoPlan, NoEntry
<1> QED BY <1>6, <1>7 DEF Books, Conserved, Filled, Once, x

LEMMA NextBooks ==
    ASSUME PlanInv, BooksBalance, [CatchupNext]_vars
    PROVE  BooksBalance'
<1>1. \A i \in Created : i \in Created' /\ Books(releases'[i])
  BY CatchupNextPlansForward DEF PlansForward, Forward, BooksKeep, BooksBalance
<1>2. ASSUME NEW i \in Created', i \notin Created
      PROVE  Books(releases'[i])
  <2>1. PICK in \in Inputs : CreateRelease(i, in)
    BY <1>2, NewReleases
  <2>2. releases'[i] = NewRelease(nextSeq + 1, in, now)
    BY <1>2, <2>1 DEF CreateRelease
  <2>3. in \in Input /\ ValidInput(in) /\ nextSeq + 1 \in Nat
    BY <2>1, InputsAssumption DEF CreateRelease, PlanInv, WaveInv, Inv, TypeOK
  <2> QED BY <2>2, <2>3, NewReleaseBooks
<1> QED BY <1>1, <1>2 DEF BooksBalance

LEMMA BooksAlways == CatchupSpec => []BooksBalance
<1>1. Init => BooksBalance
  BY DEF Init, BooksBalance, Created
<1> QED BY <1>1, NextBooks, CatchupInv, PTL DEF CatchupSpec

\* Every plan is announced once and ended once, and every node is remediated once, in
\* whichever attempt: what the events say of catch-up adds up (model.go 79-97).
THEOREM PlansBalance == CatchupSpec => []PlansConserved
<1>1. BooksBalance => PlansConserved
  <2> SUFFICES ASSUME BooksBalance, NEW id \in Created
               PROVE  LET r == releases[id]
                      IN  /\ Conserved(r)
                          /\ r.plan.state = "done" => Entries(r) \subseteq r.remediated
    BY DEF PlansConserved, Conserved
  <2> QED BY DEF BooksBalance, Books, Filled
<1> QED BY <1>1, BooksAlways, PTL

-----------------------------------------------------------------------------
(* What a client is shown and handed out *)

\* A release as GetCatchup meets it.
LEMMA SettledView ==
    ASSUME PlanInv, WaveBarrier, BooksBalance, NEW id \in Created
    PROVE  LET r == Settled(id)
           IN  r \in Release /\ Barrier(r) /\ Filled(r) /\ Waiting(r)
<1> DEFINE b == releases[id]
           r == Settled(id)
<1>1. /\ TypeOK /\ b \in Release /\ Barrier(b) /\ Books(b) /\ Waiting(b)
  BY DEF PlanInv, WaveInv, Inv, TypeOK, Plans, WaveBarrier, Barrier, Begun, BooksBalance
<1>2. r \in Release /\ PlanKept(b, r) /\ Carries(b, r)
  BY <1>1, SettledPlan, SettledKeeps DEF PlanInv
<1>3. Barrier(r) /\ Filled(r)
  BY <1>1, <1>2, KeptBarrier, KeptBooks DEF BarrierKeeps, BooksKeep, Books
<1> HIDE DEF b, r
<1>4. Waiting(r)
  BY <1>1, <1>2 DEF Waiting, Carries, BaselineCurrent
<1> QED BY <1>2, <1>3, <1>4 DEF r

\* The entries offered are those that may be claimed: a lapsed claim is in the first
\* unfinished wave, since it was in it when it was made.
LEMMA OfferedClaimable ==
    ASSUME NEW r \in Release, Barrier(r), Waiting(r), PlanLive(r), NEW n \in Entries(r)
    PROVE  LET shown == CatchupViewOf(r).entry[n]
           IN  (\/ shown.reason = "lease_expired_reclaimable"
                \/ shown.state = "pending" /\ shown.reason = "") <=> n \in Claimable(r)
<1> DEFINE entry == r.plan.entry[n]
           shown == CatchupViewOf(r).entry[n]
<1>1. shown.state = entry.state /\ shown.reason = BlockedReason(r, n)
  BY DEF CatchupViewOf
<1>2. Entries(r) \subseteq Node /\ r.wave \in [Node -> Int] /\ n \in Node
  BY DEF Entries, Release
<1>3. r.plan.state # "aborted" /\ (entry.state \in LiveCatchup => BaselineCurrent(r, n))
  BY <1>2 DEF PlanLive, LiveCatchup, Waiting, EntryLive
<1> HIDE DEF shown
<1>4. /\ BlockedReason(r, n) = "lease_expired_reclaimable" <=> Expired(entry)
      /\ entry.state = "pending" /\ BlockedReason(r, n) = "" <=>
             entry.state = "pending" /\ ~EarlierWaveUnfinished(r, n)
  BY <1>3 DEF BlockedReason, Expired, LiveCatchup
<1>5. entry.state # "succeeded" =>
          (n \in FirstUnfinished(r) <=> ~EarlierWaveUnfinished(r, n))
  <2>1. \A m \in Entries(r) : r.wave[n] <= r.wave[m] <=> ~(r.wave[m] < r.wave[n])
    BY <1>2
  <2> QED BY <2>1 DEF FirstUnfinished, EarlierWaveUnfinished
<1>6. Expired(entry) => ~EarlierWaveUnfinished(r, n)
  BY DEF Expired, EarlierWaveUnfinished, Barrier, Begun
<1>7. n \in Claimable(r) <=>
          n \in FirstUnfinished(r) /\ (entry.state = "pending" \/ Expired(entry))
  BY DEF Claimable, Expired
<1> QED BY <1>1, <1>4, <1>5, <1>6, <1>7 DEF Expired, shown

\* The counts shown tell a done plan from a live one.
LEMMA CountsTellDone ==
    ASSUME NEW r \in Release, Filled(r)
    PROVE  LET view == CatchupViewOf(r)
           IN  /\ view.state = "done" => view.succeeded = view.total
               /\ PlanLive(r) => view.succeeded < view.total
<1> DEFINE view == CatchupViewOf(r)
           Done == {n \in Entries(r) : r.plan.entry[n].state = "succeeded"}
<1>1. /\ view.state = r.plan.state /\ view.total = Cardinality(Entries(r))
      /\ view.succeeded = Cardinality(Done)
  BY DEF CatchupViewOf
<1>2. /\ r.plan.state = "done" => Done = Entries(r)
      /\ PlanLive(r) => Done # Entries(r)
  BY DEF Filled
<1>3. IsFiniteSet(Entries(r)) /\ Done \in SUBSET Entries(r)
  <2>1. Entries(r) \in SUBSET Node
    BY DEF Entries
  <2> QED BY <2>1, NodeAssumption, FS_Subset
<1> HIDE DEF view, Done
<1>4. /\ IsFiniteSet(Done) /\ Cardinality(Done) <= Cardinality(Entries(r))
      /\ Cardinality(Entries(r)) = Cardinality(Done) => Done = Entries(r)
  BY <1>3, FS_Subset
<1>5. Cardinality(Done) \in Nat /\ Cardinality(Entries(r)) \in Nat
  BY <1>3, <1>4, FS_CardinalityType
<1> QED BY <1>1, <1>2, <1>4, <1>5 DEF view

\* A client sees which entries the next claim may take, and whether anything is left,
\* whatever the lazy evaluation of the view itself has just changed (catchup.go 284-315
\* against 622-706).
THEOREM CatchupShownTruly == CatchupSpec => []CatchupViewTruthful
<1>1. PlanInv /\ WaveBarrier /\ BooksBalance => CatchupViewTruthful
  <2> SUFFICES ASSUME PlanInv, WaveBarrier, BooksBalance, NEW id \in Created
               PROVE  LET r == Settled(id)
                          view == CatchupViewOf(r)
                          offered == {n \in DOMAIN view.entry :
                              \/ view.entry[n].reason = "lease_expired_reclaimable"
                              \/ view.entry[n].state = "pending"
                                     /\ view.entry[n].reason = ""}
                      IN  /\ PlanLive(r) /\ ~Blocked(r) => offered = Claimable(r)
                          /\ view.state = "done" => view.succeeded = view.total
                          /\ PlanLive(r) => view.succeeded < view.total
    BY DEF CatchupViewTruthful
  <2> DEFINE r == Settled(id)
             view == CatchupViewOf(r)
  <2>1. r \in Release /\ Barrier(r) /\ Filled(r) /\ Waiting(r)
    BY SettledView
  <2>2. DOMAIN view.entry = Entries(r) /\ Claimable(r) \subseteq Entries(r)
    BY DEF CatchupViewOf, Claimable, FirstUnfinished
  <2> HIDE DEF r
  <2>3. PlanLive(r) => \A n \in Entries(r) :
            (\/ view.entry[n].reason = "lease_expired_reclaimable"
             \/ view.entry[n].state = "pending" /\ view.entry[n].reason = "")
                <=> n \in Claimable(r)
    BY <2>1, OfferedClaimable
  <2>4. /\ view.state = "done" => view.succeeded = view.total
        /\ PlanLive(r) => view.succeeded < view.total
    BY <2>1, CountsTellDone
  <2> HIDE DEF view
  <2> QED BY <2>2, <2>3, <2>4 DEF view, r
<1> QED BY <1>1, CatchupInv, WavesInOrderOfCatchup, BooksAlways, PTL

\* GetCatchupConfig looks at the lease alone, and need not look further: while a lease
\* runs its plan is live, its release stands and its node runs what it ran when the
\* plan was made (catchup.go 528-556 against 173-223).
THEOREM LeaseMeansPlan == CatchupSpec => []ServedPlanStands
<1>1. PlanInv => ServedPlanStands
  <2> SUFFICES ASSUME PlanInv, NEW id \in Created, NEW n \in Served(id)
               PROVE  /\ PlanLive(releases[id])
                      /\ BaselineCurrent(releases[id], n)
                      /\ releases[id].state \in {"active", "paused", "completed"}
    BY DEF ServedPlanStands
  <2>1. n \in Node /\ EntryLive(releases[id], n)
    BY DEF Served, Entries, EntryLive, LiveCatchup
  <2> QED BY <2>1 DEF PlanInv, Plans, EndedIsOver, Standing, Waiting, Stands
<1> QED BY <1>1, CatchupInv, PTL

-----------------------------------------------------------------------------
(* The workers *)

Lease == [release : ReleaseId, attempt : Nat, node : Node, epoch : 1 .. MaxEpoch]
Accepted == [lease : Lease, result : {"succeeded", "failed"}, into : Nat]

\* The entry of the plan that release id has now.
EntryOf(id, n) == releases[id].plan.entry[n]

\* Leases are of this attempt or an older one, and those of this attempt are no
\* newer than the entry's epoch.
LeasesOfEntries ==
    \A l \in leases :
        /\ l \in Lease /\ l.release \in Created
        /\ l.attempt <= releases[l.release].attempt
        /\ l.attempt = releases[l.release].attempt =>
               l.epoch <= EntryOf(l.release, l.node).epoch

\* So are the reports; one into this attempt is on the entry's last lease and gave
\* the entry the result it still has.
ReportsOfEntries ==
    \A a \in accepted :
        /\ a \in Accepted /\ a.lease \in leases
        /\ a.into <= releases[a.lease.release].attempt
        /\ a.into = releases[a.lease.release].attempt =>
               LET entry == EntryOf(a.lease.release, a.lease.node)
               IN  entry.state = a.result /\ entry.epoch = a.lease.epoch

WorkerInv ==
    /\ PlanInv
    /\ LeasesOfEntries /\ ReportsOfEntries
    /\ LastClaimWins /\ OneResultPerEntry

\* Plans that only move forward outdate leases and reports, and never contradict
\* them.
LEMMA ForwardKeeps ==
    ASSUME TypeOK, TypeOK', LeasesOfEntries, ReportsOfEntries, PlansForward
    PROVE  /\ \A l \in leases :
                /\ l.release \in Created' /\ l.attempt <= releases'[l.release].attempt
                /\ l.attempt = releases'[l.release].attempt =>
                       l.epoch <= EntryOf(l.release, l.node)'.epoch
           /\ \A a \in accepted :
                /\ a.into <= releases'[a.lease.release].attempt
                /\ a.into = releases'[a.lease.release].attempt =>
                       /\ EntryOf(a.lease.release, a.lease.node)'.state = a.result
                       /\ EntryOf(a.lease.release, a.lease.node)'.epoch = a.lease.epoch
<1>1. ASSUME NEW l \in leases
      PROVE  /\ l.release \in Created' /\ l.attempt <= releases'[l.release].attempt
             /\ l.attempt = releases'[l.release].attempt =>
                    l.epoch <= EntryOf(l.release, l.node)'.epoch
  <2> DEFINE id == l.release
             n == l.node
             b == releases[id]
             x == releases'[id]
  <2>1. /\ id \in Created /\ n \in Node /\ l.attempt \in Nat /\ l.epoch \in Nat
        /\ l.attempt <= b.attempt
        /\ l.attempt = b.attempt => l.epoch <= b.plan.entry[n].epoch
    BY CatchupAssumption DEF LeasesOfEntries, Lease, EntryOf
  <2>2. b.attempt \in Nat /\ b.plan.entry[n].epoch \in Nat
    BY <2>1, EntriesTyped DEF TypeOK
  <2>3. id \in Created' /\ Forward(b, x)
    BY <2>1 DEF PlansForward
  <2>4. CASE x.attempt = b.attempt + 1
    BY <2>1, <2>2, <2>3, <2>4
  <2>5. CASE x.attempt = b.attempt /\ x.plan.entry[n].epoch >= b.plan.entry[n].epoch
    <3>1. x.plan.entry[n].epoch \in Nat
      BY <2>1, <2>3, EntriesTyped DEF TypeOK
    <3> QED BY <2>1, <2>2, <2>3, <2>5, <3>1 DEF EntryOf
  <2> QED BY <2>1, <2>3, <2>4, <2>5 DEF Forward, EntryForward
<1>2. ASSUME NEW a \in accepted
      PROVE  /\ a.into <= releases'[a.lease.release].attempt
             /\ a.into = releases'[a.lease.release].attempt =>
                    /\ EntryOf(a.lease.release, a.lease.node)'.state = a.result
                    /\ EntryOf(a.lease.release, a.lease.node)'.epoch = a.lease.epoch
  <2> DEFINE id == a.lease.release
             n == a.lease.node
             b == releases[id]
             x == releases'[id]
  <2>1. /\ id \in Created /\ n \in Node
    BY DEF ReportsOfEntries, LeasesOfEntries, Lease
  <2>2. /\ a.into \in Nat /\ a.into <= b.attempt /\ a.result \notin LiveCatchup
        /\ a.into = b.attempt => /\ b.plan.entry[n].state = a.result
                                 /\ b.plan.entry[n].epoch = a.lease.epoch
    BY DEF ReportsOfEntries, Accepted, EntryOf, LiveCatchup
  <2>3. b.attempt \in Nat /\ Forward(b, x)
    BY <2>1, EntriesTyped DEF TypeOK, PlansForward
  <2>4. CASE x.attempt = b.attempt + 1
    BY <2>2, <2>3, <2>4
  <2>5. CASE x.attempt = b.attempt /\ EntryForward(b.plan.entry[n], x.plan.entry[n])
    BY <2>2, <2>5 DEF EntryForward, EntryOf
  <2> QED BY <2>1, <2>3, <2>4, <2>5 DEF Forward
<1> QED BY <1>1, <1>2

LEMMA OthersKeep ==
    ASSUME WorkerInv, PlansForward, UNCHANGED <<leases, accepted>>, PlanInv'
    PROVE  WorkerInv'
<1>1. LeasesOfEntries' /\ ReportsOfEntries'
  BY ForwardKeeps DEF WorkerInv, LeasesOfEntries, ReportsOfEntries, PlanInv, WaveInv, Inv
<1> QED BY <1>1 DEF WorkerInv, LastClaimWins, OneResultPerEntry

\* The entry of a new lease was live, so that no report has been taken in this
\* attempt.
LEMMA WorkerClaimsKeeps ==
    ASSUME WorkerInv, NEW id \in Created, WorkerClaims(id)
    PROVE  WorkerInv'
<1>1. PlanInv /\ TypeOK /\ ClaimCatchup(id) /\ accepted' = accepted
      /\ leases' = leases \cup NewLeases(id)
  BY DEF WorkerInv, WorkerClaims, PlanInv, WaveInv, Inv
<1>2. PlanInv'
  BY <1>1, ClaimNothingPreserves, ClaimNextPreserves DEF ClaimCatchup
<1>3. PlansForward /\ ClaimsHandOut(id)
  BY <1>1, ClaimCatchupForward
<1>4. id \in Created' /\ Forward(releases[id], releases'[id])
  BY <1>3 DEF PlansForward
<1>5. ASSUME NEW l \in NewLeases(id)
      PROVE  /\ l \in Lease /\ l.release = id /\ l.attempt = releases'[id].attempt
             /\ l.node \in Node /\ l.epoch = EntryOf(id, l.node)'.epoch
             /\ l.epoch > EntryOf(id, l.node).epoch
  <2>1. PICK n \in Node :
            /\ releases'[id].plan.entry[n].epoch > releases[id].plan.entry[n].epoch
            /\ l = [release |-> id, attempt |-> releases'[id].attempt, node |-> n,
                    epoch |-> releases'[id].plan.entry[n].epoch]
    BY DEF NewLeases
  <2>2. releases'[id].plan.entry[n].epoch \in 1 .. MaxEpoch
    BY <1>3, <2>1 DEF ClaimsHandOut, HandedOut
  <2>3. releases'[id].attempt \in Nat /\ id \in ReleaseId
    BY <1>2, <1>4, EntriesTyped DEF PlanInv, WaveInv, Inv, TypeOK
  <2>4. l \in Lease
    BY <2>1, <2>2, <2>3 DEF Lease
  <2> QED BY <2>1, <2>4 DEF EntryOf
<1>6. LeasesOfEntries'
  <2> SUFFICES ASSUME NEW l \in leases'
               PROVE  /\ l \in Lease /\ l.release \in Created'
                      /\ l.attempt <= releases'[l.release].attempt
                      /\ l.attempt = releases'[l.release].attempt =>
                             l.epoch <= EntryOf(l.release, l.node)'.epoch
    BY DEF LeasesOfEntries
  <2>1. CASE l \in leases
    BY <1>1, <1>2, <1>3, <2>1, ForwardKeeps
       DEF WorkerInv, LeasesOfEntries, PlanInv, WaveInv, Inv
  <2>2. CASE l \in NewLeases(id)
    BY <1>4, <1>5, <2>2, CatchupAssumption DEF Lease
  <2> QED BY <1>1, <2>1, <2>2
<1>7. ReportsOfEntries'
  BY <1>1, <1>2, <1>3, ForwardKeeps
     DEF WorkerInv, ReportsOfEntries, PlanInv, WaveInv, Inv
<1>8. LastClaimWins'
  <2> SUFFICES ASSUME NEW a \in accepted, NEW l \in leases',
                      a.lease.release = l.release, a.lease.node = l.node,
                      a.lease.attempt = a.into, l.attempt = a.into
               PROVE  l.epoch <= a.lease.epoch
    BY <1>1 DEF LastClaimWins
  <2>1. CASE l \in leases
    BY <2>1 DEF WorkerInv, LastClaimWins
  <2>2. CASE l \in NewLeases(id)
    <3>1. a.into = releases'[id].attempt /\ a.lease.release = id
      BY <1>5, <2>2
    <3>2. l.epoch = EntryOf(id, l.node)'.epoch /\ l.epoch \in 1 .. MaxEpoch
      BY <1>5, <2>2 DEF Lease
    <3>3. EntryOf(id, l.node)'.epoch = a.lease.epoch
      BY <1>1, <1>2, <1>3, <3>1, ForwardKeeps DEF WorkerInv, PlanInv, WaveInv, Inv
    <3> QED BY <3>2, <3>3, CatchupAssumption
  <2> QED BY <1>1, <2>1, <2>2
<1>9. OneResultPerEntry'
  BY <1>1 DEF WorkerInv, OneResultPerEntry
<1> QED BY <1>2, <1>6, <1>7, <1>8, <1>9 DEF WorkerInv

\* A report is taken on the entry's last lease, and leaves the entry with a result.
LEMMA WorkerReportsKeeps ==
    ASSUME WorkerInv, NEW l \in leases, WorkerReports(l)
    PROVE  WorkerInv'
<1> DEFINE id == l.release
           n == l.node
           from == EntryOf(id, n)
           to == releases'[id].plan.entry[n]
           tookEffect == to.state # from.state /\ to.state \in {"succeeded", "failed"}
           a == [lease |-> l, result |-> to.state, into |-> releases[id].attempt]
<1>1. /\ PlanInv /\ TypeOK /\ CompleteCatchup(id, n, l.epoch) /\ leases' = leases
      /\ accepted' = IF tookEffect THEN accepted \cup {a} ELSE accepted
  BY DEF WorkerInv, WorkerReports, PlanInv, WaveInv, Inv, EntryOf
<1>2. id \in Created /\ n \in Node /\ l.epoch \in 1 .. MaxEpoch /\ l \in Lease
  BY DEF WorkerInv, LeasesOfEntries, Lease
<1>3. PlanInv'
  BY <1>1, <1>2, ReportRefusedPreserves, ReportFailedPreserves, ReportSucceededPreserves
     DEF CompleteCatchup
<1>4. PlansForward /\ Takes(id, n, l.epoch)
  BY <1>1, <1>2, CompleteCatchupForward
<1>5. LeasesOfEntries'
  BY <1>1, <1>3, <1>4, ForwardKeeps
     DEF WorkerInv, LeasesOfEntries, PlanInv, WaveInv, Inv
<1>6. CASE ~tookEffect
  <2>1. accepted' = accepted
    BY <1>1, <1>6
  <2> QED BY <1>1, <1>3, <1>4, <2>1, OthersKeep
<1>7. CASE tookEffect
  <2>1. /\ releases'[id].attempt = releases[id].attempt /\ from.epoch = l.epoch
        /\ from.state = "claimed" /\ to.epoch = l.epoch
    BY <1>4, <1>7 DEF Takes, EntryOf
  <2>2. releases[id].attempt \in Nat
    BY <1>1, <1>2, EntriesTyped DEF TypeOK
  <2>3. a \in Accepted /\ accepted' = accepted \cup {a}
    BY <1>1, <1>2, <1>7, <2>2 DEF Accepted
  <2>4. ReportsOfEntries'
    <3> SUFFICES ASSUME NEW c \in accepted'
                 PROVE  /\ c \in Accepted /\ c.lease \in leases
                        /\ c.into <= releases'[c.lease.release].attempt
                        /\ c.into = releases'[c.lease.release].attempt =>
                               /\ EntryOf(c.lease.release, c.lease.node)'.state = c.result
                               /\ EntryOf(c.lease.release, c.lease.node)'.epoch
                                      = c.lease.epoch
      BY <1>1 DEF ReportsOfEntries
    <3>1. CASE c \in accepted
      BY <1>1, <1>3, <1>4, <3>1, ForwardKeeps
         DEF WorkerInv, ReportsOfEntries, PlanInv, WaveInv, Inv
    <3>2. CASE c = a
      <4>1. /\ c.lease = l /\ c.into = releases[id].attempt /\ c.result = to.state
        BY <3>2
      <4>2. EntryOf(c.lease.release, c.lease.node)' = to
        BY <4>1 DEF EntryOf
      <4>3. c \in Accepted /\ c.lease \in leases
        BY <2>3, <3>2, <4>1
      <4>4. c.into <= releases'[c.lease.release].attempt
        BY <2>1, <2>2, <4>1
      <4> HIDE DEF to, a
      <4> QED BY <2>1, <4>1, <4>2, <4>3, <4>4
    <3> QED BY <2>3, <3>1, <3>2
  <2>5. ASSUME NEW k \in leases, k.release = id, k.node = n,
               k.attempt = releases[id].attempt
        PROVE  k.epoch <= l.epoch
    BY <2>1, <2>5 DEF WorkerInv, LeasesOfEntries
  <2>6. LastClaimWins'
    <3>1. ASSUME NEW c \in accepted', NEW k \in leases',
                 c.lease.release = k.release, c.lease.node = k.node,
                 c.lease.attempt = c.into, k.attempt = c.into
          PROVE  k.epoch <= c.lease.epoch
      <4>1. k \in leases /\ (c \in accepted \/ c = a)
        BY <1>1, <2>3
      <4>2. CASE c \in accepted
        BY <3>1, <4>1, <4>2 DEF WorkerInv, LastClaimWins
      <4>3. CASE c = a
        <5>1. c.lease = l /\ c.into = releases[id].attempt
          BY <4>3
        <5> QED BY <2>5, <3>1, <4>1, <5>1
      <4> QED BY <4>1, <4>2, <4>3
    <3> QED BY <3>1 DEF LastClaimWins
  <2>7. ASSUME NEW c \in accepted, c.lease.release = id, c.lease.node = n,
               c.into = releases[id].attempt
        PROVE  FALSE
    <3>1. from.state = c.result /\ c.result \in {"succeeded", "failed"}
      BY <2>7 DEF WorkerInv, ReportsOfEntries, Accepted
    <3> QED BY <2>1, <3>1
  <2>8. OneResultPerEntry'
    <3>1. ASSUME NEW c \in accepted', NEW b \in accepted',
                 c.lease.release = b.lease.release, c.lease.node = b.lease.node,
                 c.into = b.into
          PROVE  c = b
      <4>1. (c \in accepted \/ c = a) /\ (b \in accepted \/ b = a)
        BY <2>3
      <4>2. a.lease.release = id /\ a.lease.node = n /\ a.into = releases[id].attempt
        OBVIOUS
      <4>3. CASE c \in accepted /\ b \in accepted
        BY <3>1, <4>3 DEF WorkerInv, OneResultPerEntry
      <4> HIDE DEF a
      <4> QED BY <2>7, <3>1, <4>1, <4>2, <4>3
    <3> QED BY <3>1 DEF OneResultPerEntry
  <2> QED BY <1>3, <1>5, <2>4, <2>6, <2>8 DEF WorkerInv
<1> QED BY <1>6, <1>7

LEMMA WorkersStep ==
    ASSUME WorkerInv, WorkersNext
    PROVE  CatchupNext
<1>1. ASSUME NEW l \in leases, WorkerReports(l)
      PROVE  CatchupNext
  <2>1. l.release \in Created /\ l.node \in Node /\ l.epoch \in 1 .. MaxEpoch
    BY DEF WorkerInv, LeasesOfEntries, Lease
  <2> QED BY <1>1, <2>1 DEF WorkerReports, CatchupNext
<1>2. ASSUME NEW id \in Created, WorkerClaims(id)
      PROVE  CatchupNext
  BY <1>2 DEF WorkerClaims, CatchupNext
<1>3. CASE Others
  BY <1>3 DEF Others, CatchupNext
<1> QED BY <1>1, <1>2, <1>3 DEF WorkersNext

LEMMA WorkersNextInv == WorkerInv /\ [WorkersNext]_workerVars => WorkerInv'
<1> SUFFICES ASSUME WorkerInv, [WorkersNext]_workerVars PROVE WorkerInv'
  OBVIOUS
<1>1. CASE UNCHANGED workerVars
  <2>1. [CatchupNext]_vars /\ UNCHANGED <<leases, accepted>>
    BY <1>1 DEF workerVars
  <2> QED BY <2>1, CatchupNextPlanInv, CatchupNextPlansForward, OthersKeep DEF WorkerInv
<1>2. CASE Others
  <2>1. [CatchupNext]_vars /\ UNCHANGED <<leases, accepted>>
    BY <1>2, WorkersStep DEF Others, WorkersNext
  <2> QED BY <2>1, CatchupNextPlanInv, CatchupNextPlansForward, OthersKeep DEF WorkerInv
<1>3. CASE \E id \in Created : WorkerClaims(id)
  BY <1>3, WorkerClaimsKeeps
<1>4. CASE \E l \in leases : WorkerReports(l)
  BY <1>4, WorkerReportsKeeps
<1> QED BY <1>1, <1>2, <1>3, <1>4 DEF WorkersNext

LEMMA WorkersInvariant == WorkersSpec => []WorkerInv
<1>1. WorkersInit => WorkerInv
  BY InitPlanInv DEF WorkersInit, WorkerInv, LeasesOfEntries, ReportsOfEntries,
                     LastClaimWins, OneResultPerEntry
<1> QED BY <1>1, WorkersNextInv, PTL DEF WorkersSpec

\* Workers who send nothing but the leases they were handed do nothing that Catchup,
\* where anybody may report anything, does not do: what holds there holds here.
THEOREM WorkersRefine == WorkersSpec => CatchupSpec
<1>1. WorkersInit => Init
  BY DEF WorkersInit
<1>2. WorkerInv /\ [WorkersNext]_workerVars => [CatchupNext]_vars
  BY WorkersStep DEF workerVars
<1> QED BY <1>1, <1>2, WorkersInvariant, PTL DEF WorkersSpec, CatchupSpec

\* However many workers hold a lease of an entry, the report that it takes within an
\* attempt is on the last lease handed out for it (catchup.go 437-441).
THEOREM EpochFences == WorkersSpec => []LastClaimWins
<1>1. WorkerInv => LastClaimWins
  BY DEF WorkerInv
<1> QED BY <1>1, WorkersInvariant, PTL

\* The lease that runs is the only one that counts on running: nobody else is handed its
\* entry before it is over (catchup.go, ClaimCatchup).
THEOREM LeasesProtect == WorkersSpec => ReclaimAfterExpiry
<1> DEFINE A == \A l \in leases' \ leases :
          LET entry == releases[l.release].plan.entry[l.node]
          IN  entry.state = "claimed" => entry.leaseUntil <= now
<1>1. WorkerInv /\ [WorkersNext]_workerVars => A
  <2> SUFFICES ASSUME WorkerInv, [WorkersNext]_workerVars,
                      NEW l \in leases', l \notin leases
               PROVE  releases[l.release].plan.entry[l.node].state = "claimed" =>
                          releases[l.release].plan.entry[l.node].leaseUntil <= now
    OBVIOUS
  <2>1. PICK id \in Created : ClaimCatchup(id) /\ l \in NewLeases(id)
    BY DEF workerVars, WorkersNext, Others, WorkerClaims, WorkerReports
  <2>2. PICK n \in Node :
            /\ releases'[id].plan.entry[n].epoch > releases[id].plan.entry[n].epoch
            /\ l.release = id /\ l.node = n
    BY <2>1 DEF NewLeases
  <2>3. ClaimsHandOut(id)
    BY <2>1, ClaimCatchupForward DEF WorkerInv, PlanInv, WaveInv, Inv
  <2> QED BY <2>2, <2>3 DEF ClaimsHandOut, HandedOut
<1>2. A => [A]_workerVars
  OBVIOUS
<1> QED BY <1>1, <1>2, WorkersInvariant, PTL DEF WorkersSpec, ReclaimAfterExpiry

\* Whichever reports come, and in whichever order, an entry takes one.
THEOREM FirstReportStands == WorkersSpec => []OneResultPerEntry
<1>1. WorkerInv => OneResultPerEntry
  BY DEF WorkerInv
<1> QED BY <1>1, WorkersInvariant, PTL
=============================================================================
