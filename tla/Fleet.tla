-------------------------------- MODULE Fleet --------------------------------
(***************************************************************************)
(* The service and the nodes it configures: what a node really runs, next  *)
(* to what the service believes it runs.  Configurations are registered,   *)
(* named by a release, fetched by the nodes of the open wave, applied, and *)
(* reported; between any two of these steps the release may be paused,     *)
(* cancelled, completed, superseded or withdrawn (service.go 32-56 and     *)
(* 507-541, with the handlers of Rollout).                                 *)
(*                                                                         *)
(* The nodes are not part of the repository.  They are modelled as it tells*)
(* them to behave (README.md 83-84 and 195-212, health.go 278-283): fetch, *)
(* apply, report; on a node.rollback notice restore the version the notice *)
(* names, whatever they run by then, and confirm that they have.  Assumed  *)
(* besides: a node does one of these jobs at a time, repeats a report until*)
(* it is answered, and follows a notice once.  Catch-up is left out: its   *)
(* workers move nodes in Workers.                                          *)
(***************************************************************************)
EXTENDS Rollout

VARIABLES
    configs,    \* State.Configs: the registered digests
    running,    \* the digest each node really runs
    job,        \* what each node is doing
    strayed     \* nodes whose last move the service did not follow

fleetVars == <<vars, configs, running, job, strayed>>
fleet == <<running, job, strayed>>

Idle == [kind |-> "idle"]
Job == [kind : {"idle"}]
           \cup [kind : {"fetched", "restored"}, release : ReleaseId]
           \cup [kind : {"applied"}, release : ReleaseId,
                 before : Digest \cup {NoDigest}]

FleetInit ==
    /\ Init
    /\ configs = {}
    /\ running = [n \in Node |-> NoDigest]
    /\ job = [n \in Node |-> Idle]
    /\ strayed = {}

-----------------------------------------------------------------------------
(* The registry *)

\* The digest is the hash of the content, so that registering again changes nothing.
RegisterConfig(d) ==
    /\ configs' = configs \cup {d}
    /\ UNCHANGED <<vars, fleet>>

\* Faulty: releases may name what nobody registered.
CreateRegisteredUnchecked(id, in) ==
    CreateRelease(id, in) /\ UNCHANGED <<configs, fleet>>

CreateRegistered(id, in) ==
    /\ in.digest \in configs
    /\ CreateRelease(id, in)
    /\ UNCHANGED <<configs, fleet>>

-----------------------------------------------------------------------------
(* A rollout, seen from a node *)

\* The gate of GetConfigForNode: it does not settle the release, and looks neither at
\* the node's result nor at newer releases.
ServesConfig(r, n) ==
    /\ r.state = "active"
    /\ r.wave[n] = r.currentWave
    /\ n \notin r.quarantined
    /\ r.input.digest \in configs

Fetch(id, n) ==
    /\ job[n] = Idle
    /\ ServesConfig(releases[id], n)
    /\ job' = [job EXCEPT ![n] = [kind |-> "fetched", release |-> id]]
    /\ UNCHANGED <<vars, configs, running, strayed>>

Apply(id, n) ==
    /\ job[n] = [kind |-> "fetched", release |-> id]
    /\ job' = [job EXCEPT ![n] =
                  [kind |-> "applied", release |-> id, before |-> running[n]]]
    /\ running' = [running EXCEPT ![n] = releases[id].input.digest]
    /\ UNCHANGED <<vars, configs, strayed>>

HasApplied(id, n) == job[n].kind = "applied" /\ job[n].release = id

\* The answer to a report arrives, and the job is done, or it is lost.
AnswerArrivesOrNot(n) == job' \in {job, [job EXCEPT ![n] = Idle]}

ReportTaken(id, n) ==
    /\ HasApplied(id, n)
    /\ AckSucceeded(id, n)
    /\ AnswerArrivesOrNot(n)
    /\ strayed' = strayed \ {n}
    /\ UNCHANGED <<configs, running>>

\* The node cannot tell from the answer why its report was ignored: it reported before,
\* or it failed before, or a newer release has moved it since.
ReportIgnored(id, n) ==
    /\ HasApplied(id, n)
    /\ AckIgnored(id, n)
    /\ AnswerArrivesOrNot(n)
    /\ strayed' = IF \/ releases[id].result[n] = "failed"
                     \/ nodes[n].releaseSeq > releases[id].seq
                  THEN strayed \cup {n} ELSE strayed
    /\ UNCHANGED <<configs, running>>

\* A receipt that no repetition will make good; on ErrNotActive the node waits.
Refused(r, n) ==
    /\ r.result[n] \notin {"succeeded", "failed"}
    /\ \/ nodes[n].releaseSeq > r.seq
       \/ r.state \in Terminal \cup {"rolling_back"}
       \/ r.state = "active" /\ r.wave[n] # r.currentWave

ReportRefusedForGood(id, n) ==
    /\ HasApplied(id, n)
    /\ Refused(EvaluateLocked(releases[id], now), n)
    /\ job' = [job EXCEPT ![n] = Idle]
    /\ strayed' = strayed \cup {n}
    /\ UNCHANGED <<vars, configs, running>>

\* The node could not apply the configuration and runs what it ran before.
ReportFailure(id, n) ==
    /\ job[n] = [kind |-> "fetched", release |-> id]
    /\ \/ AckFailed(id, n)
       \/ AckIgnored(id, n)
       \/ Refused(EvaluateLocked(releases[id], now), n) /\ UNCHANGED vars
    /\ job' = [job EXCEPT ![n] = Idle]
    /\ UNCHANGED <<configs, running, strayed>>

-----------------------------------------------------------------------------
(* A rollback, seen from a node *)

\* The notice names the version before this release.  The service does not follow a node
\* that a newer release has moved: the confirmation will change nothing it holds.
Restore(id, n) ==
    /\ job[n] = Idle
    /\ n \in releases[id].planned \ releases[id].restored
    /\ job' = [job EXCEPT ![n] = [kind |-> "restored", release |-> id]]
    /\ running' = [running EXCEPT ![n] = releases[id].prev[n]]
    /\ strayed' = IF nodes[n].releaseSeq > releases[id].seq
                  THEN strayed \cup {n} ELSE strayed \ {n}
    /\ UNCHANGED <<vars, configs>>

\* A confirmation whose answer is lost is repeated, and then ignored.
Confirm(id, n) ==
    /\ job[n] = [kind |-> "restored", release |-> id]
    /\ \/ ConfirmRollback(id, n) /\ AnswerArrivesOrNot(n)
       \/ /\ n \in releases[id].restored
          /\ job' = [job EXCEPT ![n] = Idle]
          /\ UNCHANGED vars
    /\ UNCHANGED <<configs, running, strayed>>

-----------------------------------------------------------------------------

\* The callers that are not nodes: operators, monitoring, the timer.  (A restart of the
\* service takes nothing from a node; Rollout and Outbox restart it.)
Elsewhere ==
    /\ \/ \E id \in Created :
             \/ TickTimeout(id) \/ Pause(id) \/ Resume(id) \/ Cancel(id)
             \/ \E n \in Node :
                   \/ QuarantineNode(id, n)
                   \/ \E event \in SampleId, healthy \in BOOLEAN :
                         ReportHealth(id, n, event, healthy)
       \/ ClockTick
    /\ UNCHANGED <<configs, fleet>>

FleetNext ==
    \/ \E d \in Digest : RegisterConfig(d)
    \/ \E id \in ReleaseId, in \in Inputs : CreateRegistered(id, in)
    \/ \E id \in Created, n \in Node :
          \/ Fetch(id, n) \/ Apply(id, n)
          \/ ReportTaken(id, n) \/ ReportIgnored(id, n)
          \/ ReportRefusedForGood(id, n) \/ ReportFailure(id, n)
          \/ Restore(id, n) \/ Confirm(id, n)
    \/ Elsewhere

FleetSpec == FleetInit /\ [][FleetNext]_fleetVars

-----------------------------------------------------------------------------
(* Safety *)

\* The types, and: every release names a registered configuration, so that
\* ErrConfigNotFound is never the answer to a node (service.go 532-535).
FleetTypeOK ==
    /\ configs \subseteq Digest
    /\ running \in [Node -> Digest \cup {NoDigest}]
    /\ job \in [Node -> Job]
    /\ strayed \subseteq Node
    /\ \A id \in Created : releases[id].input.digest \in configs

\* The service knows what a node runs once the node is done, unless it did not follow
\* the node's last move: a receipt refused for good, or ignored because the node had
\* failed before or a newer release had moved it, or a rollback that reached the node
\* under a newer release.  No other interleaving of releases, rollbacks, repeated reports
\* and lost answers sets the two apart, and the next move that the service follows
\* brings them together again (service.go 244-311, health.go 318-331).
KnownVersions ==
    \A n \in Node :
        job[n] = Idle /\ n \notin strayed => nodes[n].digest = running[n]

-----------------------------------------------------------------------------
(* What a step may never do *)

\* The version a rollback would restore is the one the node really ran before it applied
\* this release, however long ago it fetched it and whatever happened meanwhile; only
\* a node that strayed before has none to capture (service.go 293-299).
RestoresWhatRan ==
    [][\A id \in Created, n \in Node :
          /\ releases'[id].result[n] = "succeeded"
          /\ releases[id].result[n] # "succeeded"
          /\ n \notin strayed
          => releases'[id].prev[n] = job[n].before
      ]_fleetVars
=============================================================================
