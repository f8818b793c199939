------------------------------- MODULE Rollout -------------------------------
(***************************************************************************)
(* The wave rollout of the configrollout service: releases, receipts,      *)
(* pause/resume/cancel, wave timeouts, health observation, quarantine and  *)
(* automatic rollback (service.go, health.go, quarantine.go).              *)
(*                                                                         *)
(* Every handler runs in Store.mutate: under one mutex, on a copy of the   *)
(* state that replaces the old one when the handler returns nil and is     *)
(* thrown away when it returns an error.  So a handler is one action, its  *)
(* error returns are conditions under which the action is disabled, and    *)
(* the lazy evaluation it began with is lost with them.                    *)
(***************************************************************************)
EXTENDS Release

CONSTANTS
    ReleaseId,      \* identifiers callers give to releases
    Inputs,         \* the CreateRelease inputs that callers send
    MaxTime,        \* bound: the clock stays within 0..MaxTime
    ClockMoves,     \* how far the clock may move in a step; a wall clock that
                    \* is corrected may also step back (clock.go uses UTC time)
    KeepReceivedAt, \* FALSE forgets when samples arrived, which no handler reads
    FileBacked      \* TRUE: NewFileStore, the process may restart from its file

ASSUME InputsAssumption == Inputs \subseteq Input
ASSUME ClockAssumption == MaxTime \in Nat /\ ClockMoves \subseteq Int
ASSUME SwitchAssumption == FileBacked \in BOOLEAN /\ KeepReceivedAt \in BOOLEAN

VARIABLES
    releases,       \* State.Releases: the releases created so far, by id
    nodes,          \* State.NodeStates: what each node applied last
    appliedSeq,     \* State.AppliedSeq
    nextSeq,        \* State.NextReleaseSeq
    now             \* the clock

vars == <<releases, nodes, appliedSeq, nextSeq, now>>

NodeState == [appliedSeq : Nat, releaseSeq : Nat, digest : Digest \cup {NoDigest}]
NeverApplied == [appliedSeq |-> 0, releaseSeq |-> 0, digest |-> NoDigest]

Created == DOMAIN releases

Init ==
    /\ releases = [i \in {} |-> {}]
    /\ nodes = [n \in Node |-> NeverApplied]
    /\ appliedSeq = 0
    /\ nextSeq = 0
    /\ now = 0

-----------------------------------------------------------------------------
(* What handlers do to the state *)

Commit(id, r) == releases' = [releases EXCEPT ![id] = r]

\* Faulty: an older release overwrites a newer one.
AdvanceNodeUnguarded(n, seq, d) ==
    /\ appliedSeq' = appliedSeq + 1
    /\ nodes' = [nodes EXCEPT ![n] =
           [appliedSeq |-> appliedSeq + 1, releaseSeq |-> seq, digest |-> d]]

\* Faulty: the application number is not renewed.
AdvanceNodeUnnumbered(n, seq, d) ==
    /\ nodes' = IF seq >= nodes[n].releaseSeq
                THEN [nodes EXCEPT ![n].releaseSeq = seq, ![n].digest = d]
                ELSE nodes
    /\ UNCHANGED appliedSeq

\* Faulty: a release cannot move a node twice, forward and back.
AdvanceNodeOnce(n, seq, d) ==
    IF seq > nodes[n].releaseSeq
    THEN /\ appliedSeq' = appliedSeq + 1
         /\ nodes' = [nodes EXCEPT ![n] =
                [appliedSeq |-> appliedSeq + 1, releaseSeq |-> seq, digest |-> d]]
    ELSE UNCHANGED <<appliedSeq, nodes>>

\* The node moves to digest d of the release with sequence number seq, unless
\* a newer release has moved it already.
AdvanceNode(n, seq, d) ==
    IF seq >= nodes[n].releaseSeq
    THEN /\ appliedSeq' = appliedSeq + 1
         /\ nodes' = [nodes EXCEPT ![n] =
                [appliedSeq |-> appliedSeq + 1, releaseSeq |-> seq, digest |-> d]]
    ELSE UNCHANGED <<appliedSeq, nodes>>

\* Faulty: the plans of other releases are left alone.
AbortSupersededNowhere(id, n) == releases

\* Release id moved node n: the live catch-up plans of the other releases that
\* include n are void.
AbortSupersededCatchupLocked(id, n) ==
    [i \in Created |->
        IF i # id /\ releases[i].plan.entry[n].state # "none"
        THEN AbortCatchupLocked(releases[i])
        ELSE releases[i]]

-----------------------------------------------------------------------------
(* Handlers *)

CreateRelease(id, in) ==
    /\ id \notin Created
    /\ ValidInput(in)
    /\ nextSeq' = nextSeq + 1
    /\ releases' = [i \in Created \cup {id} |->
                       IF i = id THEN NewRelease(nextSeq + 1, in, now)
                       ELSE releases[i]]
    /\ UNCHANGED <<nodes, appliedSeq, now>>

\* TickTimeout, and the queries that settle a release on the way: GetProgress,
\* GetHealth and GetCatchup.
TickTimeout(id) ==
    /\ Commit(id, EvaluateLocked(releases[id], now))
    /\ UNCHANGED <<nodes, appliedSeq, nextSeq, now>>

\* A receipt from a node whose result is final only settles the release.
AckIgnored(id, n) ==
    /\ releases[id].result[n] \in {"succeeded", "failed"}
    /\ TickTimeout(id)

\* Faulty: a paused release takes receipts.
ReceiptAcceptedPaused(r, n) ==
    /\ r.result[n] \notin {"succeeded", "failed"}
    /\ nodes[n].releaseSeq <= r.seq
    /\ r.state \in {"active", "paused"}
    /\ r.wave[n] = r.currentWave

\* r is release id as the lazy evaluation left it.
ReceiptAccepted(r, n) ==
    /\ r.result[n] \notin {"succeeded", "failed"}
    /\ nodes[n].releaseSeq <= r.seq
    /\ r.state = "active"
    /\ r.wave[n] = r.currentWave

AckFailed(id, n) ==
    LET r == EvaluateLocked(releases[id], now)
        failed == EmitTo([r EXCEPT !.result[n] = "failed"], "node.failed", {n})
        tooMany == Cardinality(InWave(failed, r.currentWave, "failed"))
                       > r.input.maxFailures
    IN  /\ ReceiptAccepted(r, n)
        /\ Commit(id, IF tooMany THEN PauseLocked(failed, "failure_threshold")
                                 ELSE failed)
        /\ UNCHANGED <<nodes, appliedSeq, nextSeq, now>>

\* Faulty: the start of the window is left to the next lazy evaluation.
AfterSuccessLazy(r) ==
    IF ThresholdReached(r) /\ ~HealthEnabled(r) THEN AdvanceWaveLocked(r, now) ELSE r

\* The release r after a success that may have met the wave's threshold.
AfterSuccess(r) ==
    IF ~ThresholdReached(r) THEN r
    ELSE IF HealthEnabled(r) THEN EvaluateHealthLocked(r, now)
    ELSE AdvanceWaveLocked(r, now)

\* Faulty: the version to restore is captured after the node has moved.
AckSucceededCapturesLate(id, n) ==
    LET r == EvaluateLocked(releases[id], now)
        succeeded == EmitTo([r EXCEPT !.result[n] = "succeeded",
                                      !.prev[n] = r.input.digest],
                            "node.succeeded", {n})
    IN  /\ ReceiptAccepted(r, n)
        /\ releases' = [AbortSupersededCatchupLocked(id, n)
                           EXCEPT ![id] = AfterSuccess(succeeded)]
        /\ AdvanceNode(n, r.seq, r.input.digest)
        /\ UNCHANGED <<nextSeq, now>>

AckSucceeded(id, n) ==
    LET r == EvaluateLocked(releases[id], now)
        succeeded == EmitTo([r EXCEPT !.result[n] = "succeeded",
                                      !.prev[n] = nodes[n].digest],
                            "node.succeeded", {n})
    IN  /\ ReceiptAccepted(r, n)
        /\ releases' = [AbortSupersededCatchupLocked(id, n)
                           EXCEPT ![id] = AfterSuccess(succeeded)]
        /\ AdvanceNode(n, r.seq, r.input.digest)
        /\ UNCHANGED <<nextSeq, now>>

AckReceipt(id, n) == AckIgnored(id, n) \/ AckFailed(id, n) \/ AckSucceeded(id, n)

Pause(id) ==
    /\ releases[id].state = "active"
    /\ Commit(id, PauseLocked(releases[id], "manual"))
    /\ UNCHANGED <<nodes, appliedSeq, nextSeq, now>>

Resume(id) ==
    LET resumed == [releases[id] EXCEPT !.state = "active", !.pauseReason = "none",
                                        !.waveOpenedAt = now]
    IN  /\ releases[id].state = "paused"
        /\ Commit(id, EvaluateHealthLocked(resumed, now))
        /\ UNCHANGED <<nodes, appliedSeq, nextSeq, now>>

\* Faulty: a rollback under way can be cancelled.
CancelAnyway(id) ==
    LET r == releases[id]
        cancelled == AbortCatchupLocked(
                         Emit([r EXCEPT !.state = "cancelled", !.pauseReason = "none"],
                              "release.cancelled"))
    IN  /\ r.state \notin Terminal
        /\ Commit(id, EmitTo(cancelled, "node.compensation", Succeeded(r)))
        /\ UNCHANGED <<nodes, appliedSeq, nextSeq, now>>

Cancel(id) ==
    LET r == releases[id]
        cancelled == AbortCatchupLocked(
                         Emit([r EXCEPT !.state = "cancelled", !.pauseReason = "none"],
                              "release.cancelled"))
    IN  /\ r.state \in {"active", "paused"}
        /\ Commit(id, EmitTo(cancelled, "node.compensation", Succeeded(r)))
        /\ UNCHANGED <<nodes, appliedSeq, nextSeq, now>>

\* A sample with a new event id.  (A known id is a duplicate or a conflict:
\* neither changes anything.)  Writing to a nil map panics, the mutex is
\* released and the transaction is lost.
ReportHealth(id, n, event, healthy) ==
    LET r == releases[id]
        sample == [id |-> event, node |-> n, healthy |-> healthy,
                   receivedAt |-> IF KeepReceivedAt THEN now ELSE 0]
    IN  /\ n \in Targets(r)
        /\ HealthEnabled(r)
        /\ \A s \in r.samples : s.id # event
        /\ n \notin r.quarantined
        /\ r.state \in {"active", "paused"}
        /\ "samples" \notin r.nilMaps
        /\ Commit(id, EvaluateHealthLocked([r EXCEPT !.samples = @ \cup {sample}], now))
        /\ UNCHANGED <<nodes, appliedSeq, nextSeq, now>>

\* Faulty: the quarantine limits are not settled in the same transaction.
QuarantineNodeUnsettled(id, n) ==
    LET r == EvaluateLocked(releases[id], now)
    IN  /\ QuarantineEnabled(r)
        /\ n \notin r.quarantined
        /\ r.state \in {"active", "paused"}
        /\ n \in InWave(r, r.currentWave, "succeeded")
        /\ SamplesOf(r, n) # {}
        /\ "quarantined" \notin r.nilMaps
        /\ Commit(id, EmitTo([r EXCEPT !.quarantined = @ \cup {n}],
                             "node.quarantined", {n}))
        /\ UNCHANGED <<nodes, appliedSeq, nextSeq, now>>

\* The basis, one or more samples of the node, is recorded and never read.
QuarantineNode(id, n) ==
    LET r == EvaluateLocked(releases[id], now)
        quarantined == EmitTo([r EXCEPT !.quarantined = @ \cup {n}],
                              "node.quarantined", {n})
    IN  /\ QuarantineEnabled(r)
        /\ n \notin r.quarantined
        /\ r.state \in {"active", "paused"}
        /\ n \in InWave(r, r.currentWave, "succeeded")
        /\ SamplesOf(r, n) # {}
        /\ "quarantined" \notin r.nilMaps
        /\ Commit(id, EvaluateHealthLocked(quarantined, now))
        /\ UNCHANGED <<nodes, appliedSeq, nextSeq, now>>

\* A node quarantined before: the decision stands, the release is settled.
QuarantineAgain(id, n) ==
    /\ n \in releases[id].quarantined
    /\ TickTimeout(id)

\* Faulty: a repeated confirmation counts again.
ConfirmRollbackRepeated(id, n) ==
    LET r == releases[id]
        confirmed == EmitTo([r EXCEPT !.restored = @ \cup {n}], "node.restored", {n})
    IN  /\ n \in r.planned
        /\ r.state = "rolling_back"
        /\ Commit(id, IF confirmed.restored = confirmed.planned
                      THEN CompleteRollbackLocked(confirmed)
                      ELSE confirmed)
        /\ AdvanceNode(n, r.seq, r.prev[n])
        /\ UNCHANGED <<nextSeq, now>>

\* Faulty: the last confirmation does not end the rollback.
ConfirmRollbackUnfinished(id, n) ==
    LET r == releases[id]
    IN  /\ n \in r.planned \ r.restored
        /\ r.state = "rolling_back"
        /\ Commit(id, EmitTo([r EXCEPT !.restored = @ \cup {n}], "node.restored", {n}))
        /\ AdvanceNode(n, r.seq, r.prev[n])
        /\ UNCHANGED <<nextSeq, now>>

ConfirmRollback(id, n) ==
    LET r == releases[id]
        confirmed == EmitTo([r EXCEPT !.restored = @ \cup {n}], "node.restored", {n})
    IN  /\ n \in r.planned \ r.restored
        /\ r.state = "rolling_back"
        /\ Commit(id, IF confirmed.restored = confirmed.planned
                      THEN CompleteRollbackLocked(confirmed)
                      ELSE confirmed)
        /\ AdvanceNode(n, r.seq, r.prev[n])
        /\ UNCHANGED <<nextSeq, now>>

-----------------------------------------------------------------------------
(* The environment: the clock, and the process *)

ClockTick ==
    /\ \E d \in ClockMoves : now' = now + d
    /\ now' \in 0 .. MaxTime
    /\ UNCHANGED <<releases, nodes, appliedSeq, nextSeq>>

\* The state file is read back.  The tags of Samples and Quarantined say
\* omitempty, so an empty map is not in the file and comes back as nil.
Reloaded(r) ==
    [r EXCEPT !.nilMaps = {m \in {"samples", "quarantined"} : r[m] = {}}]

Restart ==
    /\ FileBacked
    /\ releases' = [i \in Created |-> Reloaded(releases[i])]
    /\ UNCHANGED <<nodes, appliedSeq, nextSeq, now>>

Next ==
    \/ \E id \in ReleaseId, in \in Inputs : CreateRelease(id, in)
    \/ \E id \in Created :
          \/ TickTimeout(id)
          \/ Pause(id)
          \/ Resume(id)
          \/ Cancel(id)
    \/ \E id \in Created, n \in Node :
          \/ AckReceipt(id, n)
          \/ QuarantineNode(id, n)
          \/ QuarantineAgain(id, n)
          \/ ConfirmRollback(id, n)
          \/ \E event \in SampleId, healthy \in BOOLEAN :
                ReportHealth(id, n, event, healthy)
    \/ ClockTick
    \/ Restart

Spec == Init /\ [][Next]_vars

\* What drives the service when nobody calls it: the clock, the background timer
\* that calls TickTimeout, and the nodes of a rollback, which keep confirming.
FairSpec ==
    /\ Spec
    /\ WF_vars(ClockTick)
    /\ \A id \in ReleaseId :
          /\ WF_vars(id \in Created /\ TickTimeout(id))
          /\ \A n \in Node : WF_vars(id \in Created /\ ConfirmRollback(id, n))

-----------------------------------------------------------------------------
(* Safety *)

TypeOK ==
    /\ Created \subseteq ReleaseId
    /\ releases \in [Created -> Release]
    /\ nodes \in [Node -> NodeState]
    /\ appliedSeq \in Nat
    /\ nextSeq \in Nat
    /\ now \in 0 .. MaxTime

\* While an active release observes its wave, the wave is at its threshold and no
\* health or quarantine limit is exceeded: a release on which a limit is exceeded
\* is rolling back before any other transaction sees it (health.go,
\* evaluateHealthLocked: rollback is decided before promotion, in one transaction).
NoBreachWhileObserving ==
    \A id \in Created : WindowJustified(releases[id]) /\ ObservationGate(releases[id])

\* An active release with health observation that is at its threshold has started
\* its window: no handler leaves the threshold behind unnoticed, and a new wave
\* starts with a window of its own (service.go 315-326, 343-358).
ThresholdStartsWindow ==
    \A id \in Created :
        LET r == releases[id]
        IN  r.state = "active" /\ HealthEnabled(r) /\ ThresholdReached(r) =>
                r.thresholdMetAt # NotMet

\* Waves open in order, as a whole, each one only after the one before it met
\* its success threshold, and a release completes only when all of them did
\* (service.go, advanceWaveLocked).
WavesInOrder == \A id \in Created : WaveOrder(releases[id])

\* A rollback is justified by the very state it froze, covers every node that
\* applied the release, quarantined ones too, and is over exactly when they
\* have all been restored (health.go, startRollbackLocked, ConfirmRollback).
RollbackJustifiedAndComplete == \A id \in Created : RollbackCoherent(releases[id])

\* Every notice is in the outbox exactly once when its cause holds and not at
\* all when it does not: no replayed receipt, repeated confirmation or lazy
\* evaluation writes a second one (model.go, "exactly one").
NoticesExactlyOnce == \A id \in Created : NoticeCounts(releases[id])

\* The recorded reason of a pause is still true while the release is paused: no
\* receipt or evaluation gets past a pause (service.go, pauseLocked).
PauseReasonTruthful ==
    \A id \in Created :
        LET r == releases[id]
        IN  /\ r.state = "paused" <=> r.pauseReason # "none"
            /\ r.pauseReason = "timeout" => ~ThresholdReached(r)
            /\ r.pauseReason = "failure_threshold" =>
                   Cardinality(InWave(r, r.currentWave, "failed")) > r.input.maxFailures

\* The applied version of a node is explained by the newest release it succeeded
\* in: that release's digest or, when the node was restored, the digest it had
\* before it (service.go 287-313, health.go 318-331).
Explains(r, n) ==
    /\ r.seq = nodes[n].releaseSeq
    /\ r.result[n] = "succeeded"
    /\ nodes[n].digest = IF n \in r.restored THEN r.prev[n] ELSE r.input.digest

AppliedVersionExplained ==
    \A n \in Node :
        /\ IF nodes[n].releaseSeq = 0
           THEN nodes[n] = NeverApplied
           ELSE \E id \in Created : Explains(releases[id], n)
        /\ \A id \in Created :
               releases[id].result[n] = "succeeded" =>
                   nodes[n].releaseSeq >= releases[id].seq

-----------------------------------------------------------------------------
(* What a step may never do *)

\* The release leaves wave w of before: it opens the next one or completes.
Promotes(before, after) ==
    \/ after.currentWave > before.currentWave
    \/ before.state # "completed" /\ after.state = "completed"

\* The observation the release went through before it left its wave.  left is the wave it
\* left, with what is known now: the counts of both kinds of limit are those of that wave.
PassedObservation(before, after) ==
    LET policy == before.input.health
        left == [after EXCEPT !.currentWave = before.currentWave]
    IN  /\ before.thresholdMetAt # NotMet
        /\ now - before.thresholdMetAt >= policy.window
        /\ Breach(left) = "none"
        /\ \A n \in Covered(left, left.currentWave) :
               Cardinality(SamplesOf(left, n)) >= policy.minSamples

\* With health observation a wave is left only by a release that was already
\* observing before this transaction, for the whole window, with enough samples of
\* every node that counts, and with neither too many unhealthy nodes, nor too many
\* quarantined ones, nor too low a coverage (health.go 158-197).
PromotionPassedObservation ==
    [][\A id \in Created :
          Promotes(releases[id], releases'[id]) /\ HealthEnabled(releases[id]) =>
              PassedObservation(releases[id], releases'[id])
      ]_vars

\* A cancelled, completed or rolling back release never opens a wave or changes
\* a node's result again, and only a rollback has a next state (model.go 7-17).
WithdrawalIsFinal ==
    [][\A id \in Created :
          LET before == releases[id]
              after == releases'[id]
          IN  before.state \in Terminal \cup {"rolling_back"} =>
                 /\ \/ after.state = before.state
                    \/ before.state = "rolling_back" /\ after.state = "rolled_back"
                 /\ after.result = before.result
                 /\ after.currentWave = before.currentWave
                 /\ after.samples = before.samples
                 /\ after.quarantined = before.quarantined
      ]_vars

\* What a node runs never goes back to an older release, and changes only under
\* a fresh application number (service.go 293-311).
NodesMoveForward ==
    [][\A n \in Node :
          nodes'[n] # nodes[n] =>
             /\ nodes'[n].releaseSeq >= nodes[n].releaseSeq
             /\ nodes'[n].appliedSeq > appliedSeq
      ]_vars

\* The lives of the releases are those of Lifecycle: one transaction makes at most
\* two migrations of one release, each of them legal, and it never moves another
\* release along (model.go 7-17; service.go 336-359, 475-495; health.go 125-264).
lives == [id \in Created |-> [ state |-> releases[id].state,
                               wave |-> releases[id].currentWave,
                               last |-> releases[id].lastWave ]]

Lives == INSTANCE Lifecycle WITH
    LastWave <- {(Len(in.targets) - 1) \div in.waveSize : in \in Inputs},
    life <- lives

ImplementsLifecycle == Lives!Spec

-----------------------------------------------------------------------------
(* Liveness *)

Waves == 0 .. Cardinality(Node) - 1

ActiveIn(id, w) ==
    /\ id \in Created
    /\ releases[id].state = "active"
    /\ releases[id].currentWave = w

\* An open wave does not wait forever for its threshold: it is met, or the timer
\* pauses the release (evaluateTimeoutLocked).  Only waves whose deadline lies
\* within the modelled time are meant.
OpenWaveResolves ==
    \A id \in ReleaseId, w \in Waves :
        (/\ ActiveIn(id, w)
         /\ releases[id].waveOpenedAt + releases[id].input.waveTimeout < MaxTime)
            ~> (~ActiveIn(id, w) \/ ThresholdReached(releases[id]))

\* An observation ends when its window does, unless samples are missing: the wave
\* is promoted, or the release is paused or withdrawn (evaluateHealthLocked).
SamplesMissing(r) ==
    \E n \in Covered(r, r.currentWave) :
        Cardinality(SamplesOf(r, n)) < r.input.health.minSamples

ObservationResolves ==
    \A id \in ReleaseId, w \in Waves :
        (/\ ActiveIn(id, w)
         /\ HealthEnabled(releases[id])
         /\ ThresholdReached(releases[id])
         /\ releases[id].thresholdMetAt + releases[id].input.health.window <= MaxTime)
            ~> (~ActiveIn(id, w) \/ SamplesMissing(releases[id]))

\* A rollback, once started, reaches rolled_back.
RollbackCompletes ==
    \A id \in ReleaseId :
        (id \in Created /\ releases[id].state = "rolling_back")
            ~> (id \in Created /\ releases[id].state = "rolled_back")

-----------------------------------------------------------------------------
(* Statements of the documentation that the code does not keep *)

\* "After a restart the process goes on from the persisted state" (service.go 11-12):
\* a running release with health observation can record a sample.
SamplesRecordable ==
    \A id \in Created :
        LET r == releases[id]
        IN  HealthEnabled(r) /\ r.state \in {"active", "paused"} =>
                "samples" \notin r.nilMaps

\* "More quarantined nodes than MaxQuarantined: roll back at once" (README.md 20).
QuarantineLimitImmediate ==
    \A id \in Created :
        LET r == releases[id]
        IN  QuarantineEnabled(r) /\ r.state = "active" =>
                Cardinality(r.quarantined) <= r.input.quarantine.maxQuarantined

\* "The least number of healthy samples every succeeded node must report within the
\* window" (model.go, HealthPolicy.MinSamples): a promoted wave had them.
SamplesWithinWindow ==
    [][\A id \in Created :
          LET before == releases[id]
              after == releases'[id]
              within(n) == {s \in SamplesOf(after, n) :
                                s.receivedAt >= before.thresholdMetAt}
          IN  Promotes(before, after) /\ HealthEnabled(before) =>
                  \A n \in Covered(after, before.currentWave) :
                      Cardinality(within(n)) >= before.input.health.minSamples
      ]_vars
=============================================================================
