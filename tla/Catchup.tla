------------------------------- MODULE Catchup -------------------------------
(***************************************************************************)
(* Catch-up of quarantined nodes (catchup.go) on top of the rollout: a     *)
(* plan freezes a baseline per node, workers claim its entries wave by     *)
(* wave under leases that expire, and report with the epoch of their       *)
(* claim.  Nothing is assumed of workers: a report with any epoch handed   *)
(* out so far may come at any time, any number of times, or never.  Who    *)
(* holds which lease is the subject of Workers.                            *)
(***************************************************************************)
EXTENDS Rollout

CONSTANTS
    LeaseTTL,       \* how long a claim lasts
    MaxAttempts,    \* bound: plans created per release
    MaxEpoch        \* bound: claims per plan entry

ASSUME CatchupAssumption ==
    LeaseTTL \in Nat \ {0} /\ MaxAttempts \in Nat /\ MaxEpoch \in Nat

-----------------------------------------------------------------------------
(* Plans *)

PlanLive(r) == r.plan.state \in LiveCatchup
Entries(r) == {n \in Node : r.plan.entry[n].state # "none"}

\* Faulty: nodes that a newer release moved are taken along.
RemainingSuperseded(r) == r.quarantined \ r.remediated

\* Quarantined nodes still to be remediated; those a newer release moved are
\* skipped.
Remaining(r) == {n \in r.quarantined \ r.remediated : nodes[n].releaseSeq <= r.seq}

NewPlan(todo) ==
    [ state |-> "pending",
      entry |-> [n \in Node |->
          IF n \in todo
          THEN [NoEntry EXCEPT !.state = "pending", !.baseline = nodes[n].appliedSeq]
          ELSE NoEntry] ]

\* Faulty: the replaced plan is not aborted.
CreateCatchupOverwriting(id, replace) ==
    LET r == EvaluateLocked(releases[id], now)
    IN  /\ QuarantineEnabled(r)
        /\ releases[id].quarantined # {}
        /\ r.state \in {"active", "paused", "completed"}
        /\ PlanLive(r) => replace
        /\ Remaining(r) # {} => r.attempt < MaxAttempts
        /\ Commit(id, IF Remaining(r) = {} THEN r
                      ELSE Emit([r EXCEPT !.attempt = @ + 1,
                                          !.plan = NewPlan(Remaining(r))],
                                "catchup.created"))
        /\ UNCHANGED <<nodes, appliedSeq, nextSeq, now>>

CreateCatchup(id, replace) ==
    LET r == EvaluateLocked(releases[id], now)
        \* Only a rebuild gets here with a live plan.
        replaced == AbortCatchupLocked(r)
    IN  /\ QuarantineEnabled(r)
        /\ releases[id].quarantined # {}
        /\ r.state \in {"active", "paused", "completed"}
        /\ PlanLive(r) => replace
        /\ Remaining(r) # {} => r.attempt < MaxAttempts
        /\ Commit(id, IF Remaining(r) = {} THEN replaced
                      ELSE Emit([replaced EXCEPT !.attempt = @ + 1,
                                                 !.plan = NewPlan(Remaining(r))],
                                "catchup.created"))
        /\ UNCHANGED <<nodes, appliedSeq, nextSeq, now>>

CreateCatchupPlan(id) == CreateCatchup(id, FALSE)
RebuildCatchupPlan(id) == CreateCatchup(id, TRUE)

-----------------------------------------------------------------------------
(* Claims *)

MaybeAbortCatchupForStateLocked(r) ==
    IF r.state \in {"rolling_back", "cancelled"} THEN AbortCatchupLocked(r) ELSE r

Settled(id) == MaybeAbortCatchupForStateLocked(EvaluateLocked(releases[id], now))

\* Faulty: failed entries are skipped.
FirstUnfinishedSkipping(r) ==
    LET unfinished == {n \in Entries(r) : r.plan.entry[n].state \in LiveCatchup}
    IN  {n \in unfinished : \A m \in unfinished : r.wave[n] <= r.wave[m]}

\* The unfinished entries of the first wave that has any.
FirstUnfinished(r) ==
    LET unfinished == {n \in Entries(r) : r.plan.entry[n].state # "succeeded"}
    IN  {n \in unfinished : \A m \in unfinished : r.wave[n] <= r.wave[m]}

Blocked(r) == \E n \in FirstUnfinished(r) : r.plan.entry[n].state = "failed"

\* Faulty: a running lease does not protect its entry.
ClaimableAnyway(r) ==
    {n \in FirstUnfinished(r) : r.plan.entry[n].state \in LiveCatchup}

Claimable(r) ==
    {n \in FirstUnfinished(r) :
        \/ r.plan.entry[n].state = "pending"
        \/ r.plan.entry[n].state = "claimed" /\ r.plan.entry[n].leaseUntil <= now}

Candidate(r) == CHOOSE n \in Claimable(r) : \A m \in Claimable(r) : n <= m

BaselineCurrent(r, n) == nodes[n].appliedSeq = r.plan.entry[n].baseline

\* Nothing to hand out: a barrier, or leases still running.
ClaimNothing(id) ==
    LET r == Settled(id)
    IN  /\ PlanLive(r)
        /\ Blocked(r) \/ Claimable(r) = {}
        /\ Commit(id, r)
        /\ UNCHANGED <<nodes, appliedSeq, nextSeq, now>>

ClaimNext(id) ==
    LET r == Settled(id)
        n == Candidate(r)
        epoch == r.plan.entry[n].epoch + 1
        entry == [r.plan.entry[n] EXCEPT !.state = "claimed", !.epoch = epoch,
                                         !.leaseUntil = now + LeaseTTL]
        claimed == [r EXCEPT !.plan = [ state |-> "claimed",
                                        entry |-> [@.entry EXCEPT ![n] = entry] ]]
    IN  /\ PlanLive(r)
        /\ ~Blocked(r)
        /\ Claimable(r) # {}
        /\ epoch <= MaxEpoch
        /\ IF BaselineCurrent(r, n)
           THEN Commit(id, claimed)
           ELSE Commit(id, AbortCatchupLocked(r))
        /\ UNCHANGED <<nodes, appliedSeq, nextSeq, now>>

ClaimCatchup(id) == ClaimNothing(id) \/ ClaimNext(id)

-----------------------------------------------------------------------------
(* Reports of node n's entry, with the epoch of a claim *)

\* Faulty: only the epoch is compared.
ReportMatchesEpoch(r, n, epoch) ==
    r.plan.state # "aborted" /\ r.plan.entry[n].epoch = epoch

\* Faulty: any claimer of the entry may report.
ReportMatchesAnyEpoch(r, n, epoch) ==
    r.plan.state # "aborted" /\ r.plan.entry[n].state = "claimed"

ReportMatches(r, n, epoch) ==
    /\ r.plan.state # "aborted"
    /\ r.plan.entry[n].state = "claimed"
    /\ r.plan.entry[n].epoch = epoch

\* Lost claims, reports for aborted plans or failed entries, and successes with
\* the wrong digest: the lazy evaluation is committed, the report is refused.
ReportRefused(id, n) ==
    /\ releases[id].plan.entry[n].state \notin {"none", "succeeded"}
    /\ Commit(id, Settled(id))
    /\ UNCHANGED <<nodes, appliedSeq, nextSeq, now>>

\* Faulty: a failure ends the plan in a state of its own.
ReportFailedEndsPlan(id, n, epoch) ==
    LET r == Settled(id)
    IN  /\ ReportMatches(r, n, epoch)
        /\ Commit(id, [r EXCEPT !.plan.state = "failed", !.plan.entry[n].state = "failed"])
        /\ UNCHANGED <<nodes, appliedSeq, nextSeq, now>>

ReportFailed(id, n, epoch) ==
    LET r == Settled(id)
    IN  /\ ReportMatches(r, n, epoch)
        /\ Commit(id, [r EXCEPT !.plan.entry[n].state = "failed"])
        /\ UNCHANGED <<nodes, appliedSeq, nextSeq, now>>

\* The entry of node n succeeded; with the last one the plan is done.
EntrySucceeded(r, n) ==
    LET s == EmitTo([r EXCEPT !.plan.entry[n].state = "succeeded",
                              !.remediated = @ \cup {n}],
                    "node.catchup_succeeded", {n})
    IN  IF \A m \in Entries(s) : s.plan.entry[m].state = "succeeded"
        THEN Emit([s EXCEPT !.plan.state = "done"], "catchup.completed")
        ELSE s

ReportSucceeded(id, n, epoch) ==
    LET r == Settled(id)
    IN  /\ ReportMatches(r, n, epoch)
        /\ IF BaselineCurrent(r, n)
           THEN /\ releases' = [AbortSupersededCatchupLocked(id, n)
                                   EXCEPT ![id] = EntrySucceeded(r, n)]
                /\ AdvanceNode(n, r.seq, r.input.digest)
           ELSE /\ Commit(id, AbortCatchupLocked(r))
                /\ UNCHANGED <<nodes, appliedSeq>>
        /\ UNCHANGED <<nextSeq, now>>

CompleteCatchup(id, n, epoch) ==
    ReportRefused(id, n) \/ ReportFailed(id, n, epoch) \/ ReportSucceeded(id, n, epoch)

-----------------------------------------------------------------------------

CatchupNext ==
    \/ Next
    \/ \E id \in Created :
          \/ CreateCatchupPlan(id)
          \/ RebuildCatchupPlan(id)
          \/ ClaimCatchup(id)
          \/ \E n \in Node, epoch \in 1 .. MaxEpoch : CompleteCatchup(id, n, epoch)

CatchupSpec == Init /\ [][CatchupNext]_vars

-----------------------------------------------------------------------------
(* Safety *)

\* The entries a worker may still execute.
LiveEntries(r) == IF PlanLive(r) THEN {n \in Node : r.plan.entry[n].state \in LiveCatchup}
                  ELSE {}

\* A node waiting for catch-up still runs what it ran when the plan froze it: every
\* handler that moves a node voids, in the same transaction, the plans that counted
\* on it.  So the ErrBaselineChanged branches of ClaimCatchup and CompleteCatchup
\* are never taken (catchup.go 330-341 and 459-470).
LivePlanBaselineCurrent ==
    \A id \in Created : \A n \in LiveEntries(releases[id]) :
        /\ BaselineCurrent(releases[id], n)
        /\ nodes[n].releaseSeq = releases[id].seq

\* Two releases never catch up the same node at once (catchup.go 207-223).
OneLivePlanPerNode ==
    \A i, j \in Created : i # j =>
        LiveEntries(releases[i]) \cap LiveEntries(releases[j]) = {}

\* A plan lives only as long as its release stands: rolling back or cancelling
\* aborts it in the same transaction (catchup.go 173-205).
LivePlanReleaseStands ==
    \A id \in Created :
        PlanLive(releases[id]) => releases[id].state \in {"active", "paused", "completed"}

\* Strict wave order: an entry is claimed or has a result only when every entry of
\* an earlier wave has succeeded (catchup.go, ClaimCatchup).
WaveBarrier ==
    \A id \in Created :
        LET r == releases[id]
        IN  \A n, m \in Entries(r) :
                /\ r.plan.entry[n].state \in {"claimed", "succeeded", "failed"}
                /\ r.wave[m] < r.wave[n]
                => r.plan.entry[m].state = "succeeded"

\* Every plan is announced once and ended by exactly one of completed and aborted;
\* a node's success is announced once over all plans; a done plan remediated every
\* node it covers (model.go 79-97).
PlansConserved ==
    \A id \in Created :
        LET r == releases[id]
        IN  /\ r.sent["catchup.created"] = r.attempt
            /\ r.sent["catchup.completed"] + r.sent["catchup.aborted"]
                   + Once(PlanLive(r)) = r.attempt
            /\ r.remediated \subseteq r.quarantined
            /\ \A n \in Node : r.sentTo["node.catchup_succeeded"][n]
                                   = Once(n \in r.remediated)
            /\ r.plan.state = "done" => Entries(r) \subseteq r.remediated

-----------------------------------------------------------------------------
(* What a step may never do *)

\* Plans only move forward: an entry with a result keeps it, an ended plan stays
\* ended, and only a new attempt replaces either (model.go 224, "only forward").
CatchupMovesForward ==
    [][\A id \in Created :
          LET before == releases[id]
              after == releases'[id]
          IN  after.attempt = before.attempt =>
                /\ ~PlanLive(before) => after.plan = before.plan
                /\ \A n \in Node :
                      LET from == before.plan.entry[n]
                          to == after.plan.entry[n]
                      IN  /\ from.state \notin LiveCatchup => to = from
                          /\ from.state = "claimed" => to.state # "pending"
                          /\ to.epoch >= from.epoch
      ]_vars
=============================================================================
