# Verification of configrollout

TLA+ models, TLC runs and TLAPS proofs for the `configrollout` package: a service that
rolls a configuration out to nodes wave by wave, observes their health, quarantines or
rolls back, catches quarantined nodes up, and announces everything through an outbox.
References of the form `health.go 125` are to the repository's files.

## 1. The system

### Components

| Component | State | Operations that change it | What makes it correct |
|---|---|---|---|
| Release lifecycle and waves (`service.go`, `model.go`) | `Release`: frozen targets and policies, results per node, state, current wave | `CreateRelease`, `AckReceipt`, `Pause`, `Resume`, `Cancel`, `TickTimeout` and the queries that settle a release (`GetProgress`, `GetHealth`, `GetCatchup`) | waves open in order and only after success; a pause means what it says; withdrawal is final; one notice per cause; an open wave does not wait forever |
| Health observation and rollback (`health.go`) | `Samples`, `ThresholdMetAt`, `Rollback` | `ReportHealth`, `evaluateHealthLocked` (in every handler), `ConfirmRollback` | rollback before promotion, in one transaction; promotion only after a whole window with enough samples and within all limits; a rollback is justified, complete and ends |
| Quarantine (`quarantine.go`) | `Quarantined` | `QuarantineNode` | quarantine does not hide a breach; the decision stands |
| Applied versions of nodes (`service.go`, `health.go`, `catchup.go`) | `NodeStates`, `AppliedSeq` | receipts, rollback confirmations, catch-up successes | never back to an older release; explained by the newest release |
| Catch-up plans (`catchup.go`) | `Release.Catchup`, `Remediated` | `CreateCatchupPlan`, `RebuildCatchupPlan`, `ClaimCatchup`, `CompleteCatchup`, three ways to abort | wave barrier; the baseline of a live plan is current; a plan ends with its release; plans are announced and ended once |
| Catch-up workers (callers of `catchup.go`) | the leases they hold | claim, report | within an attempt leases exclude one another; an entry takes one report, the last claimer's |
| Store (`store.go`) | state in memory, state file, mutex | `mutate`, `read`, `NewFileStore`, `persistLocked` | what was answered is durable; a failed transaction leaves no trace |
| Outbox (`service.go`) | `Events`, `Delivered` | `DispatchOutbox`, `MarkDelivered`, `PendingEvents` | at least once, in order, everything in the end |
| Clock (`clock.go`) | time | moves, and may be set back | - |
| Config registry and download (`service.go`, `catchup.go`) | `Configs` | `RegisterConfig`; reads (`GetConfigForNode`, `GetCatchupConfig`) | content-addressed, immutable; what is handed out is what a receipt or report will still be taken for |
| Views (`service.go`, `health.go`, `quarantine.go`, `catchup.go`) | none | none; the queries settle the release first | they say what the handlers decide, though they compute it again with code of their own |
| Nodes (external) | what they really run | fetch, apply, report, restore, confirm, as `README.md` tells them | the service knows what they run |

### How they interact

Everything is one Go package around one mutex. A handler runs inside `MemoryStore.mutate`
on a deep copy of the state, which replaces the old state when the handler returns nil and
is thrown away when it returns an error. Most handlers begin with a *lazy evaluation* of
the release (`evaluateLocked`: timeout first, then health), whose effect is committed or
lost together with the handler's own. There are no background goroutines: the application
calls `TickTimeout` and `DispatchOutbox` itself. Releases meet in `NodeStates`: a node
moved by one release voids the catch-up plans of the others.

### What is hard

- *Order of arrival.* Receipts, samples, confirmations, reports and timer ticks arrive in
  any order, repeated, late, and across releases.
- *Lazy evaluation.* No event marks the end of a window or of a timeout; whoever comes
  next finds it, in the same transaction in which it changes something else.
- *Time.* One comparison is `>=`, another `>`; the wall clock may step back.
- *Leases.* A lease expires while its worker still runs; the fence is a number per entry.
- *Memory against file.* The state in memory is replaced before the file is written; the
  process dies between the two, or the write fails; dispatchers let go of the lock while the
  sink has an event.
- *Belief against fact.* A node applies before it reports, and its report may be late,
  repeated, refused or unanswered; a rollback notice reaches a node that a newer release has
  moved meanwhile, and nobody notices a node whose receipt was refused.
- *Encoding.* `omitempty` turns an empty map into a nil one across a restart.

The list of hazards with their lines is in `PROJECT.json`.

## 2. The modules

| Module | Models |
|---|---|
| `Release` | one release record and the `...Locked` helpers, as operators from a release to a release; the per-release predicates |
| `Rollout` | extends `Release`: the store's state, all handlers but catch-up, clock, restart |
| `Lifecycle` | abstract: the lives of releases, by the migrations that `model.go` 7-17 lists; `Rollout` implements it |
| `Views` | extends `Rollout`: what `GetProgress` and `GetHealth` answer |
| `Fleet` | extends `Rollout`: the registry, downloads, and the nodes with what they really run |
| `Catchup` | extends `Rollout`: plans, claims, reports |
| `CatchupViews` | extends `Catchup`: what `GetCatchup` answers, the gate of `GetCatchupConfig` |
| `Workers` | extends `Catchup`: the callers with the leases they hold |
| `Journal` | abstract: an append-only log delivered from the front |
| `Outbox` | mutex, memory, file, dispatchers, sink, failures, crashes; implements `Journal` |
| `RolloutProofs`, `WaveProofs`, `ObservationProofs`, `RecordProofs`, `CatchupProofs`, `WorkerProofs`, `FleetProofs`, `OutboxProofs` | the theorems |
| `MCRollout`, `MCFleet`, `MCCatchup`, `MCWorkers`, `MCOutbox` | small instances for TLC |

### State and actions against the code

- `releases[id]` is `State.Releases[id]`. `wave` and `lastWave` are the frozen `Waves`;
  `result`, `prev` are `NodeLease.Result`, `PrevDigest`; `planned`, `restored` and
  `rollbackReason` are the `RollbackPlan`; `plan.entry[n]` is a `CatchupEntry`; `sent` and
  `sentTo` count the events per type, for "exactly once". `nilMaps` says which of
  `Samples` and `Quarantined` are nil.
- One handler is one action. Its error returns are guards: a handler that returns an error
  leaves the state as it was, the lazy evaluation included. Handlers that return an error
  *after* committing (`retErr` in `catchup.go`) are actions of their own: `ClaimNothing`,
  `ReportRefused`.
- `AckReceipt` is `AckIgnored` (final result: only the lazy evaluation), `AckFailed` or
  `AckSucceeded`. `QuarantineAgain` is the idempotent answer of `QuarantineNode`.
- `TickTimeout` also stands for the queries that settle a release.
- `Restart` reads the file back: the state as it was, but empty maps come back nil.
- `Lifecycle` reads of a release only its state, its wave and its last wave. A transaction is
  one migration, or two with the release active between them: `Resume` also settles the
  release, and a receipt may settle it (which opens a wave) and then count in the new wave.
- A view is an operator on a release; the queries apply it to the release they settle.
- In `Fleet` a node has one job at a time: it has fetched, applied or restored something and
  goes on until the service answers. An answer may be lost, and then the node repeats its
  report. It follows each rollback notice once, and to the letter (`README.md` 83-84, 210-211,
  `health.go` 278): it restores the version the notice names, whatever it runs by then, and
  confirms that it has. `running` is what it runs. `strayed` are the nodes whose last move
  the service did not follow: a receipt refused for good, one of a node that had failed, one
  of a superseded release, or a restore under a newer release, whose confirmation leaves the
  record as it is. The properties say what holds of all others. Catch-up does not move the
  nodes of `Fleet`; its callers are in `Workers`.
- In `Outbox` a transaction is a number and one event; a client is `Begin` (lock, handler,
  swap) and then `Persist` or `PersistFails`; a dispatcher is `Read` (under the lock), `Sink`
  or `SinkFails` (without), `MarkDelivered` (a transaction again). `Crash` takes everything
  but the file, which a process that was writing may or may not have replaced.

### Abstractions

- A ratio is a pair of integers, compared without division. The code computes in `float64`;
  rounding (`ceil(0.07*100) = 8`) is outside the model.
- A handler reads the clock once; the code reads it up to four times within one
  transaction (a receipt that is settled, marked and evaluated again).
- `RequiredSuccess` is computed where it is read: its inputs are frozen.
- `Version`, `release.paused`, `release.resumed`, `node.catchup` and `node.catchup_failed`
  events, reasons, bases and contents are left out. `Workers` has the notices of claims in
  the form of the leases.
- When a sample was received is forgotten (`KeepReceivedAt = FALSE`) except in the run
  about it: no handler reads it.
- A replayed sample, a refused call and a read change nothing and are stuttering steps.
- Deep copies (`clone`) are the atomicity of actions.

The operators marked "Faulty" are variants of the definition that follows them, each with a
mistake a programmer could make there. No action uses them. Each property has one that
violates it; they are listed in `PROJECT.json`.

## 3. The runs

Bounds are in the configurations and the `MC` modules: `MaxTime` (the clock), `MaxAttempts`,
`MaxEpoch`, `MaxTxn`, `MaxCrashes`, `MaxFailures`, and the sets of nodes, samples and inputs.

| Run | Question | Instance |
|---|---|---|
| `Observe` | Are the gate between waves, pauses, rollback, quarantine and notices right in every order of events? Do the views agree? Does `Rollout` implement `Lifecycle`? | 1 release, 3 nodes, 2 waves (2 + 1), two policies, 3 samples, clock 0..2 that may step back, restarts |
| `Fleet` | Does the service know what the nodes run, as long as it follows their moves, and would a rollback restore what they ran before? | 2 releases of 1 node, in either order, both observed, one with quarantine; lost answers and repeated reports without bound |
| `Progress` | Does a wave, an observation, a rollback ever hang? | 1 release, 2 waves of one node, clock 0..3, fairness |
| `CatchupOne` | Wave order, failures, rebuilds, plans and their release; does the view of a plan offer what may be claimed? | 1 release, 3 nodes, 2 waves, 2 attempts |
| `Leases` | Do leases fence? Do releases that share a node agree on what it runs, and can a plan, or a lease that is served, outlive the version it was made for? | 2 releases of 1 node, created in either order, one of which may quarantine, catch up or roll back; 2 attempts, 2 epochs, unbounded repeats of reports |
| `OutboxFailures` | Durability, at least once, order | 2 clients, 2 dispatchers, 3 transactions, 1 crash, 2 failed writes |
| `OutboxJournal` | Refinement of `Journal`; everything is announced | 1 client, 2 dispatchers, 3 transactions, 2 crashes |

Why this is enough. The gate looks at one wave at a time and compares counts with limits,
so two waves, with two nodes in the first, reach both sides of every comparison: threshold,
failures, unhealthy, quarantined, coverage. Two policies differ in what they tolerate. A
clock of three instants with a window and a timeout of one tick reaches before, at and after
each deadline. Releases interact through one node at a time (`AdvanceNode`,
`abortSupersededCatchupLocked`), so two releases of one node show the interaction; a
third, or a second node, would repeat it. An entry claimed twice, in two attempts, covers a
lost lease within and across plans. In `Fleet` one node suffices because what is asked of a
node concerns that node alone, and two releases because it is set apart only by a release
that overtakes another (`FleetProofs` shows the properties for any number); an observed release of one node withdraws at its first unhealthy
sample, so every interleaving of apply, report, withdrawal and restore is reached. Three events and two dispatchers suffice for one dispatcher to be
overtaken and for a gap in the order.

Sample and release identifiers are interchangeable, so the runs without liveness declare them
symmetric; node identifiers are not (claims take the smallest).

Deadlock is checked in the rollout and catch-up runs (a query or the clock can always move).
The outbox runs stop when every transaction is done and delivered.

### Fairness

- `Rollout!FairSpec`: the clock moves on, the application's timer calls `TickTimeout` for
  each release again and again (the README of the package asks for it), and the nodes of a
  rollback keep confirming. Nothing is assumed of receipts, samples or operators: the
  properties say what happens without them.
- `Outbox!FairSpec`: the mutex is granted and the file is written in the end; dispatchers are
  called again (weak fairness of `Read` and `MarkDelivered`), and a sink that is called over
  and over succeeds at some time (strong fairness of `Sink`: `SinkFails` interrupts it).
  Writes do not fail in that run (`MaxFailures = 0`).

### Where the documentation says more than the code does

Runs with `expect: violation` check a statement of the documentation that TLC refutes.

| Run | Statement | What happens |
|---|---|---|
| `RestartedSamples` | a restarted process goes on from its file | `Samples` is `omitempty`: empty comes back nil, the next `ReportHealth` (and `QuarantineNode` for `Quarantined`) panics |
| `EpochReuse` | a late report on an old lease does not touch a rebuilt plan | epochs start again at 1 in a rebuilt plan and reports carry no attempt: the report is taken |
| `WriteFails` | a failure to write is a failure to commit | the state in memory is kept, and dispatched, and written next time |
| `QuarantineBeforeThreshold` | more than `MaxQuarantined` rolls back at once | not before the wave is at its success threshold |
| `EarlySamples` | `MinSamples` are reported within the window | samples from before the window count |

Smaller ones have no run of their own: `errors.go` 93 says a report on an expired lease
is void, while `CompleteCatchup` compares epochs only; `model.go` 82-84 tells sinks to
deduplicate `node.catchup` by release, node and epoch, which two attempts share;
`catchup.go` 31 says nodes already at the target are skipped, `catchup.go` 105-107 that they
are not; `service_test.go` 340 says a late receipt pauses the release first, but the pause is
in the transaction that the refusal throws away (the next tick or query finds it again);
`catchupViewOf` gathers `waveHasFailure` and never reads it, so an entry that a failure in its
own wave blocks is shown without a reason (`CatchupViewTruthful` says so much only of plans
that no failure blocks); `GetConfigForNode` hands out a configuration to nodes that failed
or that a newer release has moved, whose receipts are not taken.

One behaviour is in no document, and no property is about it. A rolled back release stays the
newest release of its nodes. When two releases of a node are rolled back, the newer one first,
its confirmation records the older one's configuration under the newer number, and the older
one's confirmation is then not recorded (`health.go` 324): the record keeps a withdrawn
configuration, which the next release captures as the one to restore, while a node that
followed both notices runs what it ran before either. `README.md` 84 says that a confirmation
takes the record back to the version before the release; `health.go` 281-282 excepts nodes
that a newer release has moved, which, read to the letter, covers this one. In `Fleet` such a
node has `strayed`.

Met while proving: `health.go` 252 completes a rollback that has nobody to restore. It is
never reached: a limit can only be exceeded by nodes that succeeded (`BreachHasSuccess` in
`WaveProofs`), so a rollback always shows `RollingBack` first. `Lifecycle` has no step from
active straight to rolled back, and `LifecycleImplemented` proves that none is needed.

## 4. The proofs

TLAPS proves, for any sets of nodes, digests, samples, releases and inputs, any lease time, any
bounds on the clock, on plans and on claims, and any clock moves:

| Theorem | Says |
|---|---|
| `RolloutProofs!TypeCorrect` | `Spec => []TypeOK` |
| `RolloutProofs!ObservationSafe` | `Spec => []NoBreachWhileObserving`: an active release that observes is at its threshold and exceeds no limit |
| `RolloutProofs!RollbackSafe` | `Spec => []RollbackJustifiedAndComplete`: a rollback is justified by what it froze, covers exactly the nodes that succeeded, ends exactly when all are restored |
| `WaveProofs!WavesOrdered` | `Spec => []WavesInOrder`: waves open whole and in order, each after the one before it met its threshold; completion means all did |
| `WaveProofs!LifecycleImplemented` | `Spec => ImplementsLifecycle`: every step is at most two legal migrations of one release |
| `ObservationProofs!PromotionSafe` | `Spec => PromotionPassedObservation`: a wave under observation is left only after a whole window that began in an earlier transaction, with enough samples, and with neither too many unhealthy nodes, nor too many quarantined ones, nor too low a coverage |
| `RecordProofs!WindowsStart` | `Spec => []ThresholdStartsWindow`: at its threshold an active release under observation has started its window |
| `RecordProofs!PausesTruthful` | `Spec => []PauseReasonTruthful` |
| `RecordProofs!NoticesOnce` | `Spec => []NoticesExactlyOnce`: a notice is written once when its cause holds, and not when it does not |
| `RecordProofs!ClosedForever` | `Spec => WithdrawalIsFinal` |
| `RecordProofs!ProgressTruthful` | `Spec => []ProgressShowsWhoMayReport`: the nodes shown in progress are those whose receipt would be taken |
| `RecordProofs!HealthTruthful` | `Spec => []HealthViewTruthful`: the health view agrees with what the evaluation did |
| `CatchupProofs!CatchupTypeCorrect` | `CatchupSpec => []TypeOK` |
| `CatchupProofs!CatchupKeepsRollout` | `ObservationSafe`, `RollbackSafe` and `WavesOrdered` hold of `CatchupSpec` too: no report, of any epoch at any time, breaks what the rollout promises |
| `CatchupProofs!VersionsExplained` | `CatchupSpec => []AppliedVersionExplained`: what a node runs is explained by the newest release it succeeded in, or by that release's rollback |
| `CatchupProofs!PlansEndWithRelease` | `CatchupSpec => []LivePlanReleaseStands` |
| `CatchupProofs!BaselinesCurrent` | `CatchupSpec => []LivePlanBaselineCurrent`: a waiting node still runs what it ran when the plan froze it; the `ErrBaselineChanged` branches are dead |
| `CatchupProofs!OnePlanPerNode` | `CatchupSpec => []OneLivePlanPerNode` |
| `CatchupProofs!NodesNeverGoBack` | `CatchupSpec => NodesMoveForward` |
| `WorkerProofs!PlansOnlyForward` | `CatchupSpec => CatchupMovesForward`: results are final, epochs grow, ended plans stay ended |
| `WorkerProofs!WavesInOrderOfCatchup` | `CatchupSpec => []WaveBarrier`: no entry begins before every entry of an earlier wave succeeded |
| `WorkerProofs!PlansBalance` | `CatchupSpec => []PlansConserved`: plans are announced once and ended once, and so is each node's success |
| `WorkerProofs!CatchupShownTruly` | `CatchupSpec => []CatchupViewTruthful`: the view offers what a claim may take |
| `WorkerProofs!LeaseMeansPlan` | `CatchupSpec => []ServedPlanStands`: while a lease runs its plan is live, its release stands and its node has not moved |
| `WorkerProofs!WorkersRefine` | `WorkersSpec => CatchupSpec`, so that all of the above holds with workers |
| `WorkerProofs!EpochFences` | `WorkersSpec => []LastClaimWins`: within an attempt the report an entry takes is on its last lease |
| `WorkerProofs!FirstReportStands` | `WorkersSpec => []OneResultPerEntry` |
| `WorkerProofs!LeasesProtect` | `WorkersSpec => ReclaimAfterExpiry`: an entry under a running lease is handed to nobody else |
| `FleetProofs!FleetTypeCorrect` | `FleetSpec => []FleetTypeOK`: types, and every release names a registered configuration |
| `FleetProofs!VersionsKnown` | `FleetSpec => []KnownVersions`: the service knows what an idle node runs, unless it did not follow the node's last move |
| `FleetProofs!RestoresFormer` | `FleetSpec => RestoresWhatRan`: the version to restore is what the node ran before it applied the release, unless the service had lost track of the node before |
| `FleetProofs!FleetImplementsRollout` | `FleetSpec => Spec`, so that all that is proved of `Rollout` holds with nodes at work |
| `OutboxProofs!Durable` | `Spec => []AnsweredDurable` |
| `OutboxProofs!DeliveredAtLeastOnce` | `Spec => []MarkedWasSunk` |
| `OutboxProofs!DeliveredInOrder` | `Spec => []SunkInOrder` |
| `OutboxProofs!StoreImplementsJournal` | `Spec /\ [](failures = 0) => ImplementsJournal`: while no write fails the file is an append-only log, delivered from the front |

**Assumptions.** The ASSUMEs of `Release` and `Rollout` (nodes are finitely many naturals,
`NoDigest` is no digest, inputs have their types, the clock's bound is a natural), of
`Catchup` (leases last, bounds are naturals) and of `Outbox` (bounds are naturals, no process
is both a client and a dispatcher, and the value that says that the lock is free is no process).
TLC evaluates them in every run. (`FleetProofs` builds on `CatchupProofs` and so has the ASSUME
of `Catchup` in scope too. It is about three constants that `Fleet` does not have and says only
that they are naturals, one of them not zero, so it takes nothing from `Fleet`.) One theorem has a hypothesis besides: `StoreImplementsJournal`
is about the behaviours in which no write of the file fails, which the run `OutboxJournal` gets
by `MaxFailures = 0`. It could not go without: `WriteFails` shows what a failure does.

**Rollout.** The inductive invariant is `TypeOK` and, for every release, `Coherent`:
`WindowJustified`, `ObservationGate` and `RollbackCoherent`. The three are proved together
because they lean on one another: a rollback is justified because it starts from a breach,
the breach is found because a window is open, and a window is open only on a wave at its
threshold, which also tells that a new wave has not inherited one. A handler may break
coherence halfway (a sample or a quarantine that exceeds a limit); what it does last to an
active release is evaluate it. So the central lemma about `Release` says what
`EvaluateHealthLocked` *needs* (`Evaluable`: less than coherence) and that it leaves a
coherent release; each handler's lemma shows that what it hands over is
evaluable. Two views, what the gate reads and what the rollback reads, make the frames
explicit: pausing, emitting and aborting a plan do not touch them.
`ThresholdMonotone` is the one fact about cardinalities: more successes keep a threshold
reached.

**Waves and lives.** `WaveInv` adds to that invariant, for every release, `WaveOrder` and that
quarantined nodes succeeded. It needs `Coherent`: only `WindowJustified` says that the wave an
observation leaves is at its threshold. Each handler is looked at once, in one lemma
(`...Transacts`): it leaves the order intact, moves no other release along, and its own by
`Moves`. A handler that settles first makes two moves; `SettledMove` shows that they compose,
because a settled release that is still active has at most opened a wave. The frames have a
third view for this, `LifeView`. The theorem about `Lifecycle` maps each step to a `Create`, a
`Transact` or a stutter.

**Observation.** `ObservationInv` adds only that windows are longer than zero
(`Watchable`, which `CreateRelease` sees to). What makes the property hard is that a
transaction may evaluate twice, before and after the receipt or decision it is about.
`Gated(r, x)` is what an evaluation from `r` to `x` guarantees: evidence on opened waves is
kept, a promotion has passed observation, and without one the window is what it was or starts
now. The evidence is the samples, the results of the wave's nodes and the whole set of
quarantined ones, because one limit counts them over all waves; `PassedFrame` says that the
same evidence passes the same limits (`Breach` of the wave that was left). `SettledPasses`
composes two evaluations: if the first promotes, its evidence survives, because a receipt is
about a node of the *new* wave, and a decision to quarantine finds nobody there who has
succeeded; if only the second does, the window cannot have been started by the first, or it
would be of length zero.

**What a release records.** `RecordInv` adds to that, for every release, that it is `Sound`:
its pause reason, its window and its notices are right (`TruePause`, `Met`, `NoticeCounts`).
Two facts that no property states carry the induction. `Sized`: every wave has a node and
asks for at least one success, so that a wave is below its threshold when it opens; otherwise
the window of the next wave would have to start in the transaction that opens it. `Below`:
without observation a wave at its threshold has been left in the transaction that met it, so
that only observed waves are ever seen there. Handlers break `Below` and `Met` halfway and keep
the rest (`Recorded`); the evaluation with which they end restores them. Notices are counted by
`Sends` and `SendsTo`, which say how the counters of the outbox differ between two values of a
release. The two views follow from `RecordInv` alone: the view's own arithmetic is compared with
that of `Breach` and `ThresholdReached` count by count (`Shown...`).

**Nodes and plans.** `PlanInv` adds to `WaveInv` what a node's version has to do with plans
(`Plans`): sequence numbers are unique, versions are explained, a live plan's release stands,
an ended plan has no live entry, and a waiting node (`Waiting`) still runs what it ran when
the plan froze it. None of these is inductive alone. A rollback of *another* release cannot
move a waiting node because the node runs this one, and this one is the newest it succeeded
in, which needs the explanation of versions and unique numbers; a rollback of *this* release
cannot, because its plan is over. A receipt of a newer release does move it, and voids the
plan in the same transaction. `Carries` says what no helper changes of all this; it is
transitive, so that the helpers of a handler add up; `MovePlans` is the one argument for the
three handlers that move a node.

**Workers.** Between two attempts no helper does more to a plan than abort it (`PlanKept`);
only claims and reports do, and they move it forward (`Forward`), keeping the barrier between
waves: a claim takes an entry of the first wave that is not finished, and a result is for an
entry that had begun. `WorkerInv` adds that a
lease of the current attempt is no newer than its entry, and that a report taken in the
current attempt is on the entry's epoch and gave it the result it has. `ForwardKeeps` shows
that plans that only move forward never contradict a lease or a report: leases and reports of
older attempts are out of reach, and in the current one a result is final and epochs grow. A
new lease means that the entry was live, hence no report was taken on it yet. The theorem says
"within an attempt" for a reason: across attempts the fence fails (section 3, `EpochReuse`).

**Books.** `PlansConserved` is about counters and sets; what makes it inductive is `Filled`,
about entries: they are of quarantined nodes, a node is remediated by the success of its
entry, and a plan is done when every entry succeeded and live as long as one has not. A step
of one entry (`EntryMoves`) and an abort (`PlanKept`) keep both, a new plan covers only nodes
that still have to be remediated. The view of a plan rests on `Filled` for its counts, on the
barrier between waves for lapsed claims (whoever was claimed was in the first unfinished wave,
and still is) and on `PlanInv` for the baselines.

**Fleet.** `FleetInv` adds to `PlanInv` where a node and the service are between two steps of
the node's work (`NodeInv`). Idle or with a fetched configuration, they agree (`Known`). After
`Apply` the service is behind by one receipt, after `Restore` by one confirmation, and
`Tracked` says what it still holds then: the version before, or the one to restore. Whether a
report that is ignored, or a restore, sets them apart is decided by the explanation of
versions: a node that succeeded in a release, and that no newer release has moved, runs that
release and will be recorded where its confirmation says. `Unmoved` is the frame: what a step
leaves alone of a node it does not concern, be it a step without moves (`Quiet`), the move of
another node or a new release.

**Outbox.** The inductive invariant adds to the three properties that the memory always
extends the file (`Extends`), that who is about to write has something to write, and what a
dispatcher knows while the lock is free (`DispatchersKnow`): its event is still at its place
and all the events before it were seen. For the refinement of `Journal` the hypothesis gives
more: without failed writes the memory is ahead of the file by at most the transaction that
holds the lock, and is level with it when the lock is free, which is when dispatchers read. So
writing the file is the commit of that one transaction, a mark is a delivery when it is
written, and everything else, crashes included, is a stutter.

**Only model-checked.** Liveness (`OpenWaveResolves`, `ObservationResolves`,
`RollbackCompletes`, `SucceededAnnounced`), which is out of this prover's reach.

## 5. Not modelled

- JSON and the deep copies, beyond atomicity and `omitempty`.
- Floating point: ratios are exact in the model.
- The operating system: a power failure that undoes a rename.
- Contents of configurations, wording, timestamps and the order of lists in the views.
- The branch `ErrConfigExists` of `RegisterConfig`: the digest is the hash of the content.
- The sentinel errors (`errors.go`): an error is a disabled action.
- Nodes whose last move the service did not follow (`strayed`). A node that downloaded a
  configuration and applied it after the release was cancelled or withdrawn, or after a newer
  one, has its receipt refused, and neither compensation nor rollback reaches it; a node that
  restores an older version under a newer release is recorded with the newer one. `Fleet` has
  their steps, and `KnownVersions` and `RestoresWhatRan` exempt them: nothing in the code or its
  documentation says what becomes of them.
- Numbers given twice. After a failed write and a crash the store numbers events again from
  the file; `SunkInOrder` compares numbers only and takes such an event for the one it
  replaces.
- Leases across attempts. A rebuild may hand a node out while the lease of an older attempt
  runs; `ReclaimAfterExpiry` and `LastClaimWins` speak of one attempt (see `EpochReuse`).

## 6. Plan

Done, in this order: `Release`, `Rollout`, `Catchup`, `Workers`, `Outbox` with `Journal`;
proofs of types, the health gate, the rollback and the outbox; `Lifecycle`, the views,
`Fleet`; proofs of the order of waves, the implementation of `Lifecycle`, and promotion after
observation; proofs about nodes and plans, and about workers.

Then, all of it proof: pauses, windows, notices and the finality of closed releases; the views;
the books of catch-up plans; leases; that `Outbox` implements `Journal` when writes do not fail;
what relates the nodes of `Fleet` to the record of the service.

Next: lemmas about what a single release does that no invariant states yet, such as the waves
that `CreateRelease` cuts: each node in one of them, none larger than the wave size.
