----------------------------- MODULE CatchupViews -----------------------------
(***************************************************************************)
(* What GetCatchup shows of a catch-up plan, and the gate of               *)
(* GetCatchupConfig (catchup.go).  GetCatchup settles the release first,   *)
(* as ReportRefused of Catchup does when the plan is live and TickTimeout  *)
(* of Rollout when it has ended; without a plan it changes nothing.        *)
(***************************************************************************)
EXTENDS Catchup

-----------------------------------------------------------------------------

Expired(entry) == entry.state = "claimed" /\ entry.leaseUntil <= now

\* Faulty: only failures of earlier waves bar a wave.
EarlierWaveFailed(r, n) ==
    \E m \in Entries(r) : r.wave[m] < r.wave[n] /\ r.plan.entry[m].state = "failed"

EarlierWaveUnfinished(r, n) ==
    \E m \in Entries(r) : r.wave[m] < r.wave[n] /\ r.plan.entry[m].state # "succeeded"

\* Why the entry of node n cannot go on; "" when the view knows no reason.
BlockedReason(r, n) ==
    LET entry == r.plan.entry[n]
    IN  IF r.plan.state = "aborted" THEN "plan_aborted"
        ELSE IF entry.state = "failed" THEN "failed"
        ELSE IF entry.state \in LiveCatchup /\ ~BaselineCurrent(r, n)
             THEN "baseline_changed"
        ELSE IF Expired(entry) THEN "lease_expired_reclaimable"
        ELSE IF entry.state = "pending" /\ EarlierWaveUnfinished(r, n)
             THEN "earlier_wave_unfinished"
        ELSE ""

CatchupViewOf(r) ==
    [ state |-> r.plan.state, attempt |-> r.attempt,
      total |-> Cardinality(Entries(r)),
      succeeded |-> Cardinality({n \in Entries(r) : r.plan.entry[n].state = "succeeded"}),
      failed |-> Cardinality({n \in Entries(r) : r.plan.entry[n].state = "failed"}),
      entry |-> [n \in Entries(r) |->
          [ state |-> r.plan.entry[n].state, epoch |-> r.plan.entry[n].epoch,
            reason |-> BlockedReason(r, n) ]] ]

\* The entries whose configuration GetCatchupConfig hands out; it does not settle
\* the release.
Served(id) ==
    LET r == releases[id]
    IN  {n \in Entries(r) : /\ r.plan.entry[n].state = "claimed"
                            /\ r.plan.entry[n].leaseUntil > now}

-----------------------------------------------------------------------------

\* The catch-up view of a live plan offers what the next claim may take: without a
\* failed entry in the first unfinished wave, the entries shown pending without a
\* reason or shown reclaimable are exactly those ClaimCatchup chooses from; a plan
\* shown done has nothing left, and one shown live has (catchup.go 284-315 against
\* 622-706).
CatchupViewTruthful ==
    \A id \in Created :
        LET r == Settled(id)
            view == CatchupViewOf(r)
            offered == {n \in DOMAIN view.entry :
                \/ view.entry[n].reason = "lease_expired_reclaimable"
                \/ view.entry[n].state = "pending" /\ view.entry[n].reason = ""}
        IN  /\ PlanLive(r) /\ ~Blocked(r) => offered = Claimable(r)
            /\ view.state = "done" => view.succeeded = view.total
            /\ PlanLive(r) => view.succeeded < view.total

\* A configuration is handed out for catch-up only to a node of a plan whose release
\* stands and which nothing has moved since the plan was made: the leases of a plan
\* end with it, though GetCatchupConfig looks at the entry alone (catchup.go 528-556
\* against 173-223).
ServedPlanStands ==
    \A id \in Created : \A n \in Served(id) :
        /\ PlanLive(releases[id])
        /\ BaselineCurrent(releases[id], n)
        /\ releases[id].state \in {"active", "paused", "completed"}
=============================================================================
