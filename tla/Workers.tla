------------------------------- MODULE Workers -------------------------------
(***************************************************************************)
(* The workers of catch-up (the callers of ClaimCatchup and                *)
(* CompleteCatchup): every lease a claim ever handed out, in the hands of  *)
(* a worker that may report on it at any time, any number of times, with   *)
(* either outcome, or never.  A worker sends what CompleteCatchup takes:   *)
(* release, node and epoch; the attempt, which its lease also carries, is  *)
(* not part of a report.                                                   *)
(***************************************************************************)
EXTENDS Catchup

VARIABLES
    leases,     \* the CatchupLease values handed out so far
    accepted    \* the reports that gave an entry its result, with the attempt
                \* whose entry that was

workerVars == <<vars, leases, accepted>>

WorkersInit == Init /\ leases = {} /\ accepted = {}

\* The lease ClaimCatchup returns: none when it found no work.
NewLeases(id) ==
    LET before == releases[id]
        after == releases'[id]
    IN  {[release |-> id, attempt |-> after.attempt, node |-> n,
          epoch |-> after.plan.entry[n].epoch] :
            n \in {m \in Node : after.plan.entry[m].epoch > before.plan.entry[m].epoch}}

WorkerClaims(id) ==
    /\ ClaimCatchup(id)
    /\ leases' = leases \cup NewLeases(id)
    /\ UNCHANGED accepted

WorkerReports(l) ==
    LET before == releases[l.release].plan.entry[l.node].state
        after == releases'[l.release].plan.entry[l.node].state
        tookEffect == after # before /\ after \in {"succeeded", "failed"}
    IN  /\ CompleteCatchup(l.release, l.node, l.epoch)
        /\ accepted' = IF tookEffect
                       THEN accepted \cup {[lease |-> l, result |-> after,
                                            into |-> releases[l.release].attempt]}
                       ELSE accepted
        /\ UNCHANGED leases

\* Everything else goes on meanwhile.
Others ==
    /\ \/ Next
       \/ \E id \in Created : CreateCatchupPlan(id) \/ RebuildCatchupPlan(id)
    /\ UNCHANGED <<leases, accepted>>

WorkersNext ==
    \/ Others
    \/ \E id \in Created : WorkerClaims(id)
    \/ \E l \in leases : WorkerReports(l)

WorkersSpec == WorkersInit /\ [][WorkersNext]_workerVars

-----------------------------------------------------------------------------
(* Safety *)

\* Within an attempt the epoch fences: the report an entry takes is on the last
\* lease handed out for it, however many workers hold one (catchup.go 437-441).
LastClaimWins ==
    \A a \in accepted : \A l \in leases :
        /\ a.lease.release = l.release
        /\ a.lease.node = l.node
        /\ a.lease.attempt = a.into
        /\ l.attempt = a.into
        => l.epoch <= a.lease.epoch

\* An entry takes one report, whichever of them comes first and whatever it says.
OneResultPerEntry ==
    \A a, b \in accepted :
        /\ a.lease.release = b.lease.release
        /\ a.lease.node = b.lease.node
        /\ a.into = b.into
        => a = b

\* An entry under a running lease is not handed out again: within an attempt, two workers
\* have the same node only when the first let its lease expire (catchup.go, ClaimCatchup).
ReclaimAfterExpiry ==
    [][\A l \in leases' \ leases :
          LET entry == releases[l.release].plan.entry[l.node]
          IN  entry.state = "claimed" => entry.leaseUntil <= now
      ]_workerVars

-----------------------------------------------------------------------------
(* A statement of the documentation that the code does not keep *)

\* "The old claimer's late success is always ErrClaimLost" and "a late success on an
\* old lease does not touch the rebuilt plan" (README.md 104, 275): a report takes
\* effect only in the attempt its lease was claimed in.
ReportsFencedByAttempt == \A a \in accepted : a.into = a.lease.attempt
=============================================================================
