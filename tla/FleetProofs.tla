----------------------------- MODULE FleetProofs -----------------------------
(***************************************************************************)
(* What a node runs and what the service believes it runs, proved of       *)
(* Fleet.  NodeInv says where the two are when the node is between two     *)
(* steps of its work: the service may only be behind by the receipt or the *)
(* confirmation that the node is about to send.  That the service then     *)
(* draws the right conclusion from it rests on PlanInv of CatchupProofs:   *)
(* the newest release a node succeeded in explains its version.            *)
(***************************************************************************)
EXTENDS CatchupProofs, Fleet

\* Node n runs what the service believes.
Known(n) == nodes[n].digest = running[n]

\* What a busy node has of the release it is busy with.
AtWork(n) ==
    LET r == releases[job[n].release]
    IN  /\ job[n].kind \in {"fetched", "applied"} => n \notin r.restored
        /\ job[n].kind = "applied" => running[n] = r.input.digest

\* A node that applied a release is ahead of the service until its receipt is taken,
\* and one that restored its former version until its confirmation is.
Ahead(n) ==
    LET r == releases[job[n].release]
    IN  job[n].kind = "restored" /\ n \notin r.restored /\ nodes[n].releaseSeq = r.seq

Tracked(n) ==
    LET r == releases[job[n].release]
    IN  IF job[n].kind = "applied"
        THEN n \notin Succeeded(r) => nodes[n].digest = job[n].before
        ELSE IF Ahead(n) THEN running[n] = r.prev[n]
        ELSE Known(n)

NodeOK(n) ==
    /\ job[n] # Idle => job[n].release \in Created /\ AtWork(n)
    /\ n \notin strayed => Tracked(n)

NodeInv == \A n \in Node : NodeOK(n)

FleetInv == PlanInv /\ FleetTypeOK /\ NodeInv

-----------------------------------------------------------------------------
(* A step seen from a node that it does not concern *)

SameNode(n) == job'[n] = job[n] /\ running'[n] = running[n]

\* No release changes what it holds of node n, and a new one holds nothing.
Unmoved(n) ==
    /\ nodes'[n] = nodes[n]
    /\ Created \subseteq Created'
    /\ \A i \in Created :
          LET b == releases[i]
              x == releases'[i]
          IN  /\ x.seq = b.seq /\ x.input = b.input /\ x.prev[n] = b.prev[n]
              /\ n \in x.restored <=> n \in b.restored
              /\ n \in Succeeded(x) <=> n \in Succeeded(b)
    /\ \A i \in Created' \ Created : n \notin Succeeded(releases'[i])

LEMMA UnmovedKnown ==
    ASSUME NEW n \in Node, Unmoved(n), Known(n), running'[n] = running[n]
    PROVE  Known(n)'
BY DEF Unmoved, Known

LEMMA UnmovedOK ==
    ASSUME NEW n \in Node, Unmoved(n), SameNode(n), NodeOK(n),
           n \notin strayed' => n \notin strayed
    PROVE  NodeOK(n)'
<1> DEFINE id == job[n].release
<1>1. /\ nodes'[n] = nodes[n] /\ job'[n] = job[n] /\ running'[n] = running[n]
      /\ Created \subseteq Created'
  BY DEF Unmoved, SameNode
<1>3. CASE job[n] = Idle
  <2>1. Tracked(n) <=> Known(n)
    BY <1>3 DEF Tracked, Ahead, Idle
  <2>2. Tracked(n)' <=> Known(n)'
    BY <1>1, <1>3 DEF Tracked, Ahead, Idle
  <2> QED BY <1>1, <1>3, <2>1, <2>2, UnmovedKnown DEF NodeOK
<1>4. CASE job[n] # Idle
  <2>1. id \in Created /\ AtWork(n)
    BY <1>4 DEF NodeOK
  <2>2. LET b == releases[id]
            x == releases'[id]
        IN  /\ x.seq = b.seq /\ x.input = b.input /\ x.prev[n] = b.prev[n]
            /\ n \in x.restored <=> n \in b.restored
            /\ n \in Succeeded(x) <=> n \in Succeeded(b)
    BY <2>1 DEF Unmoved
  <2>3. AtWork(n)'
    BY <1>1, <2>1, <2>2 DEF AtWork
  <2>4. Ahead(n)' <=> Ahead(n)
    BY <1>1, <2>2 DEF Ahead
  <2>5. Tracked(n) => Tracked(n)'
    BY <1>1, <2>2, <2>4, UnmovedKnown DEF Tracked
  <2> QED BY <1>1, <2>1, <2>3, <2>5 DEF NodeOK
<1> QED BY <1>3, <1>4

LEMMA QuietUnmoved ==
    ASSUME Quiet, NEW n \in Node
    PROVE  Unmoved(n)
BY DEF Quiet, Unmoved, Carries

LEMMA UnchangedQuiet ==
    ASSUME UNCHANGED vars
    PROVE  Quiet
<1>1. releases' = releases /\ nodes' = nodes /\ nextSeq' = nextSeq
  BY DEF vars
<1> QED BY <1>1, PlanKeptCarries DEF Quiet, Created

\* A release that moves a node does not concern the others, and no other release
\* changes what it holds of it.
LEMMA MovesUnmoved ==
    ASSUME TypeOK, NEW id \in Created, NEW n \in Node, NEW d, MovesNode(id, n, d)
    PROVE  /\ \A m \in Node \ {n} : Unmoved(m)
           /\ Created' = Created
           /\ releases'[id].seq = releases[id].seq
           /\ releases'[id].input = releases[id].input
           /\ n \in Succeeded(releases'[id])
           /\ \A i \in Created \ {id} :
                 /\ releases'[i].seq = releases[i].seq
                 /\ releases'[i].input = releases[i].input
                 /\ n \in releases'[i].restored <=> n \in releases[i].restored
                 /\ n \in Succeeded(releases'[i]) <=> n \in Succeeded(releases[i])
           /\ IF nodes[n].releaseSeq <= releases[id].seq
              THEN nodes'[n].releaseSeq = releases[id].seq /\ nodes'[n].digest = d
              ELSE nodes'[n] = nodes[n]
<1>1. /\ AdvanceNode(n, releases[id].seq, d)
      /\ MovesOn(releases[id], releases'[id], n, d) /\ Created' = Created
      /\ \A i \in Created \ {id} : Carries(releases[i], releases'[i])
  BY DEF MovesNode
<1>2. releases[id].seq \in Nat /\ nodes[n].releaseSeq \in Nat
  BY DEF TypeOK, Release, NodeState
<1>3. /\ \A m \in Node \ {n} : nodes'[m] = nodes[m]
      /\ IF nodes[n].releaseSeq <= releases[id].seq
         THEN nodes'[n].releaseSeq = releases[id].seq /\ nodes'[n].digest = d
         ELSE nodes'[n] = nodes[n]
  BY <1>1, <1>2, AdvanceNodeMoves
<1>4. ASSUME NEW m \in Node \ {n} PROVE Unmoved(m)
  <2>1. ASSUME NEW i \in Created
        PROVE  LET b == releases[i]
                   x == releases'[i]
               IN  /\ x.seq = b.seq /\ x.input = b.input /\ x.prev[m] = b.prev[m]
                   /\ m \in x.restored <=> m \in b.restored
                   /\ m \in Succeeded(x) <=> m \in Succeeded(b)
    <3>1. CASE i = id
      BY <1>1, <3>1 DEF MovesOn
    <3>2. CASE i # id
      BY <1>1, <3>2 DEF Carries
    <3> QED BY <3>1, <3>2
  <2> QED BY <1>1, <1>3, <2>1 DEF Unmoved
<1>5. /\ releases'[id].seq = releases[id].seq /\ n \in Succeeded(releases'[id])
      /\ releases'[id].input = releases[id].input
  BY <1>1 DEF MovesOn
<1>6. \A i \in Created \ {id} :
         /\ releases'[i].seq = releases[i].seq
         /\ releases'[i].input = releases[i].input
         /\ n \in releases'[i].restored <=> n \in releases[i].restored
         /\ n \in Succeeded(releases'[i]) <=> n \in Succeeded(releases[i])
  BY <1>1 DEF Carries
<1> QED BY <1>1, <1>3, <1>4, <1>5, <1>6

LEMMA CreateReleaseUnmoved ==
    ASSUME PlanInv, NEW id \in ReleaseId, NEW in \in Inputs, CreateRelease(id, in)
    PROVE  /\ \A n \in Node : Unmoved(n)
           /\ Created' = Created \cup {id} /\ releases'[id].input = in
           /\ \A i \in Created : releases'[i] = releases[i]
<1> DEFINE new == NewRelease(nextSeq + 1, in, now)
<1>1. in \in Input /\ ValidInput(in) /\ nextSeq \in Nat /\ id \notin Created
  BY InputsAssumption DEF CreateRelease, PlanInv, WaveInv, Inv, TypeOK
<1>2. new.input = in /\ \A n \in Node : new.result[n] # "succeeded"
  BY <1>1, NewReleasePlans
<1>3. /\ releases' = [i \in Created \cup {id} |-> IF i = id THEN new ELSE releases[i]]
      /\ nodes' = nodes
  BY DEF CreateRelease
<1> HIDE DEF new
<1>4. /\ Created' = Created \cup {id} /\ releases'[id] = new
      /\ \A i \in Created : releases'[i] = releases[i]
  BY <1>1, <1>3 DEF Created
<1> QED BY <1>2, <1>3, <1>4 DEF Unmoved, Succeeded

-----------------------------------------------------------------------------
(* The steps of a node *)

\* A step that concerns node n only.
Concerns(n) ==
    \A m \in Node \ {n} : Unmoved(m) /\ SameNode(m) /\ (m \in strayed' <=> m \in strayed)

LEMMA OneNode ==
    ASSUME NodeInv, NEW n \in Node, Concerns(n), NodeOK(n)'
    PROVE  NodeInv'
BY UnmovedOK DEF NodeInv, Concerns

\* What a change of one node's job, version or mark leaves of the others.
LEMMA OthersSame ==
    ASSUME FleetTypeOK, NEW n \in Node,
           job' = job \/ (\E j : job' = [job EXCEPT ![n] = j]),
           running' = running \/ (\E d : running' = [running EXCEPT ![n] = d]),
           strayed' \in {strayed, strayed \cup {n}, strayed \ {n}},
           \A m \in Node \ {n} : Unmoved(m)
    PROVE  Concerns(n)
BY DEF FleetTypeOK, Concerns, SameNode

LEMMA ActiveUnrestored ==
    ASSUME PlanInv, NEW id \in Created, releases[id].state = "active"
    PROVE  releases[id].restored = {}
BY DEF PlanInv, WaveInv, Inv, RollbackJustifiedAndComplete, RollbackCoherent, Withdrawn,
       Coherent

\* What the node of a version that the service took runs, as the service sees it.
LEMMA TakenExplained ==
    ASSUME PlanInv, NEW id \in Created, NEW n \in Node, n \in Succeeded(releases[id])
    PROVE  /\ nodes[n].releaseSeq >= releases[id].seq
           /\ nodes[n].releaseSeq = releases[id].seq /\ n \notin releases[id].restored =>
                  nodes[n].digest = releases[id].input.digest
<1>1. releases[id].result[n] = "succeeded" /\ AppliedVersionExplained
  BY DEF Succeeded, PlanInv, Plans
<1>2. nodes[n].releaseSeq >= releases[id].seq
  BY <1>1 DEF AppliedVersionExplained
<1>3. ASSUME nodes[n].releaseSeq = releases[id].seq, n \notin releases[id].restored
      PROVE  nodes[n].digest = releases[id].input.digest
  <2>1. nodes[n].releaseSeq # 0
    BY <1>3 DEF PlanInv, Plans, SeqsUnique
  <2>2. PICK i \in Created : Explains(releases[i], n)
    BY <1>1, <2>1 DEF AppliedVersionExplained
  <2>3. i = id
    BY <1>3, <2>2 DEF Explains, PlanInv, Plans, SeqsUnique
  <2> QED BY <1>3, <2>2, <2>3 DEF Explains
<1> QED BY <1>2, <1>3

LEMMA IdleTracked ==
    ASSUME NEW n \in Node, job[n] = Idle
    PROVE  Tracked(n) <=> Known(n)
BY DEF Tracked, Ahead, Idle

LEMMA FetchNodes ==
    ASSUME FleetInv, NEW id \in Created, NEW n \in Node, Fetch(id, n)
    PROVE  NodeInv'
<1>1. /\ job[n] = Idle /\ releases[id].state = "active"
      /\ job' = [job EXCEPT ![n] = [kind |-> "fetched", release |-> id]]
      /\ UNCHANGED vars /\ running' = running /\ strayed' = strayed
  BY DEF Fetch, ServesConfig
<1>2. \A m \in Node : Unmoved(m)
  BY <1>1, UnchangedQuiet, QuietUnmoved
<1>3. Concerns(n)
  BY <1>1, <1>2, OthersSame DEF FleetInv
<1>4. NodeOK(n) /\ job'[n] = [kind |-> "fetched", release |-> id]
  BY <1>1 DEF FleetInv, NodeInv, FleetTypeOK
<1>5. releases' = releases /\ Created' = Created
  BY <1>1 DEF vars, Created
<1>6. AtWork(n)'
  BY <1>1, <1>4, <1>5, ActiveUnrestored DEF AtWork, FleetInv
<1>7. n \notin strayed' => Tracked(n)'
  <2>1. SUFFICES ASSUME n \notin strayed PROVE Tracked(n)'
    BY <1>1
  <2>2. Known(n)
    BY <1>1, <1>4, <2>1, IdleTracked DEF NodeOK
  <2>3. Known(n)'
    BY <1>1, <1>2, <1>4, <2>2, UnmovedKnown DEF NodeOK
  <2> QED BY <1>4, <2>3 DEF Tracked, Ahead
<1>8. NodeOK(n)'
  BY <1>1, <1>4, <1>5, <1>6, <1>7 DEF NodeOK
<1> QED BY <1>3, <1>8, OneNode DEF FleetInv

\* The service still knows what the node ran before.
LEMMA ApplyNodes ==
    ASSUME FleetInv, NEW id \in Created, NEW n \in Node, Apply(id, n)
    PROVE  NodeInv'
<1> DEFINE applied == [kind |-> "applied", release |-> id, before |-> running[n]]
<1>1. /\ job[n] = [kind |-> "fetched", release |-> id]
      /\ job' = [job EXCEPT ![n] = applied]
      /\ running' = [running EXCEPT ![n] = releases[id].input.digest]
      /\ UNCHANGED vars /\ strayed' = strayed
  BY DEF Apply
<1>2. \A m \in Node : Unmoved(m)
  BY <1>1, UnchangedQuiet, QuietUnmoved
<1>3. Concerns(n)
  BY <1>1, <1>2, OthersSame DEF FleetInv
<1>4. /\ NodeOK(n) /\ job'[n] = applied
      /\ running'[n] = releases[id].input.digest
  BY <1>1 DEF FleetInv, NodeInv, FleetTypeOK
<1>5. releases' = releases /\ Created' = Created /\ nodes' = nodes
  BY <1>1 DEF vars, Created
<1>6. n \notin releases[id].restored
  BY <1>1, <1>4 DEF NodeOK, AtWork, Idle
<1>7. AtWork(n)'
  BY <1>4, <1>5, <1>6 DEF AtWork
<1>8. n \notin strayed' => Tracked(n)'
  <2>1. SUFFICES ASSUME n \notin strayed PROVE Tracked(n)'
    BY <1>1
  <2>2. nodes[n].digest = running[n]
    BY <1>1, <1>4, <2>1 DEF NodeOK, Tracked, Ahead, Known
  <2> QED BY <1>4, <1>5, <2>2 DEF Tracked
<1>9. NodeOK(n)'
  BY <1>4, <1>5, <1>7, <1>8 DEF NodeOK
<1> QED BY <1>3, <1>9, OneNode DEF FleetInv

\* A node that applied release id and a service that took its receipt agree, whether or
\* not the node learned of it.
LEMMA AppliedAgrees ==
    ASSUME PlanInv', NEW id \in Created', NEW n \in Node,
           nodes'[n].digest = releases'[id].input.digest,
           n \in Succeeded(releases'[id]) \ releases'[id].restored,
           running'[n] = releases'[id].input.digest,
           HasApplied(id, n)' \/ job'[n] = Idle
    PROVE  NodeOK(n)'
<1>2. Known(n)'
  BY DEF Known
<1>3. CASE HasApplied(id, n)'
  <2>1. job'[n].kind = "applied" /\ job'[n].release = id
    BY <1>3 DEF HasApplied
  <2> QED BY <2>1 DEF NodeOK, AtWork, Tracked
<1>4. CASE job'[n] = Idle
  <2>1. Tracked(n)'
    BY <1>2, <1>4 DEF Tracked, Ahead, Idle
  <2> QED BY <1>4, <2>1 DEF NodeOK
<1> QED BY <1>3, <1>4

\* The job of a node whose answer may be lost.
LEMMA AnswerJob ==
    ASSUME FleetTypeOK, NEW n \in Node, AnswerArrivesOrNot(n)
    PROVE  /\ job' = job \/ (\E j : job' = [job EXCEPT ![n] = j])
           /\ job'[n] \in {job[n], Idle}
BY DEF FleetTypeOK, AnswerArrivesOrNot

LEMMA AppliedWork ==
    ASSUME NodeInv, NEW id, NEW n \in Node, HasApplied(id, n)
    PROVE  /\ id \in Created /\ n \notin releases[id].restored
           /\ running[n] = releases[id].input.digest
           /\ n \notin strayed /\ n \notin Succeeded(releases[id]) =>
                  nodes[n].digest = job[n].before
BY DEF NodeInv, NodeOK, HasApplied, AtWork, Tracked, Idle

LEMMA ReportTakenNodes ==
    ASSUME FleetInv, PlanInv', NEW id \in Created, NEW n \in Node, ReportTaken(id, n)
    PROVE  NodeInv'
<1>1. /\ HasApplied(id, n) /\ AckSucceeded(id, n) /\ AnswerArrivesOrNot(n)
      /\ strayed' = strayed \ {n} /\ running' = running
  BY DEF ReportTaken
<1>2. /\ MovesNode(id, n, releases[id].input.digest)
      /\ nodes[n].releaseSeq <= releases[id].seq /\ n \notin releases'[id].restored
  BY <1>1, AckSucceededMoves DEF FleetInv, PlanInv
<1>3. /\ \A m \in Node \ {n} : Unmoved(m)
      /\ Created' = Created /\ n \in Succeeded(releases'[id])
      /\ releases'[id].seq = releases[id].seq
      /\ releases'[id].input = releases[id].input
      /\ nodes'[n].releaseSeq = releases[id].seq
      /\ nodes'[n].digest = releases[id].input.digest
  BY <1>2, MovesUnmoved DEF FleetInv, PlanInv, WaveInv, Inv
<1>4. job'[n] \in {job[n], Idle} /\ Concerns(n)
  BY <1>1, <1>3, AnswerJob, OthersSame DEF FleetInv
<1>5. running[n] = releases[id].input.digest
  BY <1>1, AppliedWork DEF FleetInv
<1>6. HasApplied(id, n)' \/ job'[n] = Idle
  BY <1>1, <1>4 DEF HasApplied
<1>7. NodeOK(n)'
  BY <1>1, <1>2, <1>3, <1>5, <1>6, AppliedAgrees
<1> QED BY <1>4, <1>7, OneNode DEF FleetInv

LEMMA ReportIgnoredNodes ==
    ASSUME FleetInv, PlanInv', NEW id \in Created, NEW n \in Node, ReportIgnored(id, n)
    PROVE  NodeInv'
<1> DEFINE r == releases[id]
<1>1. /\ HasApplied(id, n) /\ AckIgnored(id, n) /\ AnswerArrivesOrNot(n)
      /\ strayed' = IF r.result[n] = "failed" \/ nodes[n].releaseSeq > r.seq
                    THEN strayed \cup {n} ELSE strayed
      /\ running' = running
  BY DEF ReportIgnored
<1>2. r.result[n] \in {"succeeded", "failed"} /\ Quiet
  BY <1>1, TickTimeoutQuiet DEF AckIgnored, FleetInv, PlanInv
<1>3. \A m \in Node : Unmoved(m)
  BY <1>2, QuietUnmoved
<1>4. job'[n] \in {job[n], Idle} /\ Concerns(n)
  BY <1>1, <1>3, AnswerJob, OthersSame DEF FleetInv
<1>5. running[n] = r.input.digest /\ n \notin r.restored
  BY <1>1, AppliedWork DEF FleetInv
<1>6. HasApplied(id, n)' \/ job'[n] = Idle
  BY <1>1, <1>4 DEF HasApplied
<1>7. LET x == releases'[id]
      IN  /\ Created' = Created /\ nodes' = nodes /\ x.seq = r.seq /\ x.input = r.input
          /\ n \notin x.restored /\ (n \in Succeeded(x) <=> n \in Succeeded(r))
  BY <1>2, <1>5 DEF Quiet, Carries
<1> HIDE DEF r
<1>8. CASE r.result[n] = "failed" \/ nodes[n].releaseSeq > r.seq
  <2>1. n \in strayed'
    BY <1>1, <1>8
  <2>2. CASE job'[n] = Idle
    <3>1. NodeOK(n)'
      BY <2>1, <2>2 DEF NodeOK
    <3> QED BY <1>4, <3>1, OneNode DEF FleetInv
  <2>3. CASE HasApplied(id, n)'
    <3>1. job'[n].kind = "applied" /\ job'[n].release = id
      BY <2>3 DEF HasApplied
    <3>2. running'[n] = releases'[id].input.digest /\ n \notin releases'[id].restored
      BY <1>1, <1>5, <1>7
    <3>3. NodeOK(n)'
      BY <1>7, <2>1, <3>1, <3>2 DEF NodeOK, AtWork
    <3> QED BY <1>4, <3>3, OneNode DEF FleetInv
  <2> QED BY <1>6, <2>2, <2>3
<1>9. CASE ~(r.result[n] = "failed" \/ nodes[n].releaseSeq > r.seq)
  <2>1. n \in Succeeded(r)
    BY <1>2, <1>9 DEF Succeeded
  <2>2. /\ nodes[n].releaseSeq >= r.seq
        /\ nodes[n].releaseSeq = r.seq => nodes[n].digest = r.input.digest
    BY <1>5, <2>1, TakenExplained DEF FleetInv, r
  <2>3. nodes[n].releaseSeq \in Nat /\ r.seq \in Nat
    BY DEF FleetInv, PlanInv, WaveInv, Inv, TypeOK, NodeState, Release, r
  <2>4. nodes[n].releaseSeq = r.seq
    BY <1>9, <2>2, <2>3
  <2>5. NodeOK(n)'
    BY <1>1, <1>5, <1>6, <1>7, <2>1, <2>2, <2>4, AppliedAgrees
  <2> QED BY <1>4, <2>5, OneNode DEF FleetInv
<1> QED BY <1>8, <1>9

LEMMA ReportRefusedForGoodNodes ==
    ASSUME FleetInv, NEW id \in Created, NEW n \in Node, ReportRefusedForGood(id, n)
    PROVE  NodeInv'
<1>1. /\ job' = [job EXCEPT ![n] = Idle] /\ strayed' = strayed \cup {n}
      /\ UNCHANGED vars /\ running' = running
  BY DEF ReportRefusedForGood
<1>2. \A m \in Node : Unmoved(m)
  BY <1>1, UnchangedQuiet, QuietUnmoved
<1>3. Concerns(n)
  BY <1>1, <1>2, OthersSame DEF FleetInv
<1>4. /\ NodeOK(n) /\ job'[n] = Idle /\ n \in strayed' /\ Created' = Created
  BY <1>1 DEF FleetInv, NodeInv, FleetTypeOK, vars, Created
<1>5. NodeOK(n)'
  BY <1>1, <1>4 DEF NodeOK
<1> QED BY <1>3, <1>5, OneNode DEF FleetInv

LEMMA ReportFailureNodes ==
    ASSUME FleetInv, NEW id \in Created, NEW n \in Node, ReportFailure(id, n)
    PROVE  NodeInv'
<1>1. /\ job[n] = [kind |-> "fetched", release |-> id]
      /\ AckFailed(id, n) \/ AckIgnored(id, n) \/ UNCHANGED vars
      /\ job' = [job EXCEPT ![n] = Idle]
      /\ running' = running /\ strayed' = strayed
  BY DEF ReportFailure
<1>2. Quiet
  BY <1>1, AckFailedQuiet, TickTimeoutQuiet, UnchangedQuiet
     DEF AckIgnored, FleetInv, PlanInv
<1>3. \A m \in Node : Unmoved(m)
  BY <1>2, QuietUnmoved
<1>4. Concerns(n)
  BY <1>1, <1>3, OthersSame DEF FleetInv
<1>5. NodeOK(n) /\ job'[n] = Idle /\ Created' = Created
  BY <1>1, <1>2 DEF FleetInv, NodeInv, FleetTypeOK, Quiet
<1>6. n \notin strayed' => Tracked(n)'
  <2>1. SUFFICES ASSUME n \notin strayed PROVE Tracked(n)'
    BY <1>1
  <2>2. Known(n)
    BY <1>1, <1>5, <2>1 DEF NodeOK, Tracked, Ahead
  <2>3. Known(n)'
    BY <1>1, <1>3, <1>5, <2>2, UnmovedKnown DEF NodeOK
  <2> QED BY <1>5, <2>3 DEF Tracked, Ahead, Idle
<1>7. NodeOK(n)'
  BY <1>1, <1>5, <1>6 DEF NodeOK
<1> QED BY <1>4, <1>7, OneNode DEF FleetInv

\* A node that follows a notice is ahead of the service by its confirmation, or it strays.
LEMMA RestoreNodes ==
    ASSUME FleetInv, NEW id \in Created, NEW n \in Node, Restore(id, n)
    PROVE  NodeInv'
<1> DEFINE r == releases[id]
           restoring == [kind |-> "restored", release |-> id]
<1>1. /\ job[n] = Idle /\ n \in r.planned \ r.restored
      /\ job' = [job EXCEPT ![n] = restoring]
      /\ running' = [running EXCEPT ![n] = r.prev[n]]
      /\ strayed' = IF nodes[n].releaseSeq > r.seq THEN strayed \cup {n}
                    ELSE strayed \ {n}
      /\ UNCHANGED vars
  BY DEF Restore
<1>2. \A m \in Node : Unmoved(m)
  BY <1>1, UnchangedQuiet, QuietUnmoved
<1>3. Concerns(n)
  BY <1>1, <1>2, OthersSame DEF FleetInv
<1>4. job'[n] = restoring /\ running'[n] = r.prev[n]
  BY <1>1 DEF FleetInv, FleetTypeOK
<1>5. releases' = releases /\ Created' = Created /\ nodes' = nodes
  BY <1>1 DEF vars, Created
<1>6. n \in Succeeded(r)
  BY <1>1 DEF FleetInv, PlanInv, WaveInv, Inv, RollbackJustifiedAndComplete, Coherent,
              RollbackCoherent
<1>7. nodes[n].releaseSeq >= r.seq /\ nodes[n].releaseSeq \in Nat /\ r.seq \in Nat
  BY <1>6, TakenExplained
     DEF FleetInv, PlanInv, WaveInv, Inv, TypeOK, NodeState, Release
<1>8. AtWork(n)'
  BY <1>4 DEF AtWork
<1>9. n \notin strayed' => Tracked(n)'
  <2>1. SUFFICES ASSUME n \notin strayed' PROVE Tracked(n)'
    OBVIOUS
  <2>2. nodes[n].releaseSeq = r.seq
    BY <1>1, <1>7, <2>1
  <2>3. Ahead(n)'
    BY <1>1, <1>4, <1>5, <2>2 DEF Ahead
  <2> QED BY <1>4, <1>5, <2>3 DEF Tracked
<1>10. NodeOK(n)'
  BY <1>4, <1>5, <1>8, <1>9 DEF NodeOK
<1> QED BY <1>3, <1>10, OneNode DEF FleetInv

\* A confirmation puts the service where the node is already.
LEMMA ConfirmTaken ==
    ASSUME FleetInv, PlanInv', NEW id \in Created, NEW n \in Node,
           job[n] = [kind |-> "restored", release |-> id], ConfirmRollback(id, n),
           AnswerArrivesOrNot(n),
           running' = running, strayed' = strayed
    PROVE  NodeInv'
<1> DEFINE r == releases[id]
           x == releases'[id]
<1>1. /\ MovesNode(id, n, r.prev[n]) /\ n \in Succeeded(r) \ r.restored
      /\ n \in x.restored
  BY ConfirmRollbackMoves DEF FleetInv, PlanInv
<1>2. /\ \A m \in Node \ {n} : Unmoved(m)
      /\ Created' = Created
      /\ IF nodes[n].releaseSeq <= r.seq
         THEN nodes'[n].digest = r.prev[n]
         ELSE nodes'[n] = nodes[n]
  BY <1>1, MovesUnmoved DEF FleetInv, PlanInv, WaveInv, Inv
<1>3. job'[n] \in {job[n], Idle} /\ Concerns(n)
  BY <1>2, AnswerJob, OthersSame DEF FleetInv
<1>4. NodeOK(n)
  BY DEF FleetInv, NodeInv
<1>5. nodes[n].releaseSeq >= r.seq /\ nodes[n].releaseSeq \in Nat /\ r.seq \in Nat
  BY <1>1, TakenExplained
     DEF FleetInv, PlanInv, WaveInv, Inv, TypeOK, NodeState, Release
<1>7. ASSUME n \notin strayed PROVE Known(n)'
  <2>1. Tracked(n)
    BY <1>4, <1>7 DEF NodeOK
  <2>2. CASE nodes[n].releaseSeq = r.seq
    <3>1. running[n] = r.prev[n]
      BY <1>1, <2>1, <2>2 DEF Tracked, Ahead
    <3> QED BY <1>2, <1>5, <2>2, <3>1 DEF Known
  <2>3. CASE nodes[n].releaseSeq # r.seq
    <3>1. Known(n)
      BY <1>1, <2>1, <2>3 DEF Tracked, Ahead
    <3> QED BY <1>2, <1>5, <2>3, <3>1 DEF Known
  <2> QED BY <2>2, <2>3
<1>8. NodeOK(n)'
  <2>1. ~Ahead(n)' /\ job'[n].kind \in {"restored", "idle"}
    BY <1>1, <1>3 DEF Ahead, Idle
  <2>2. n \notin strayed' => Tracked(n)'
    BY <1>7, <2>1 DEF Tracked
  <2>3. job'[n] # Idle => job'[n].release \in Created' /\ AtWork(n)'
    BY <1>2, <1>3, <2>1 DEF AtWork, Idle
  <2> QED BY <1>2, <1>4, <2>2, <2>3 DEF NodeOK
<1> QED BY <1>3, <1>8, OneNode DEF FleetInv

LEMMA ConfirmNodes ==
    ASSUME FleetInv, PlanInv', NEW id \in Created, NEW n \in Node, Confirm(id, n)
    PROVE  NodeInv'
<1>1. /\ job[n] = [kind |-> "restored", release |-> id]
      /\ \/ ConfirmRollback(id, n) /\ AnswerArrivesOrNot(n)
         \/ /\ n \in releases[id].restored
            /\ job' = [job EXCEPT ![n] = Idle]
            /\ UNCHANGED vars
      /\ running' = running /\ strayed' = strayed
  BY DEF Confirm
<1>2. CASE ConfirmRollback(id, n) /\ AnswerArrivesOrNot(n)
  BY <1>1, <1>2, ConfirmTaken
<1>3. CASE /\ n \in releases[id].restored
           /\ job' = [job EXCEPT ![n] = Idle]
           /\ UNCHANGED vars
  <2>1. \A m \in Node : Unmoved(m)
    BY <1>3, UnchangedQuiet, QuietUnmoved
  <2>2. Concerns(n)
    BY <1>1, <1>3, <2>1, OthersSame DEF FleetInv
  <2>3. NodeOK(n) /\ job'[n] = Idle /\ Created' = Created
    BY <1>3 DEF FleetInv, NodeInv, FleetTypeOK, vars, Created
  <2>4. n \notin strayed' => Tracked(n)'
    <3>1. SUFFICES ASSUME n \notin strayed PROVE Tracked(n)'
      BY <1>1
    <3>2. Known(n)
      BY <1>1, <1>3, <2>3, <3>1 DEF NodeOK, Tracked, Ahead
    <3>3. Known(n)'
      BY <1>1, <2>1, <2>3, <3>2, UnmovedKnown DEF NodeOK
    <3> QED BY <2>3, <3>3 DEF Tracked, Ahead, Idle
  <2>5. NodeOK(n)'
    BY <1>1, <2>3, <2>4 DEF NodeOK
  <2> QED BY <2>2, <2>5, OneNode DEF FleetInv
<1> QED BY <1>1, <1>2, <1>3

-----------------------------------------------------------------------------
(* Every step of Fleet *)

LEMMA ElsewhereQuiet ==
    ASSUME PlanInv, Elsewhere
    PROVE  Quiet
<1>1. WaveInv
  BY DEF PlanInv
<1>2. ASSUME NEW id \in Created,
             TickTimeout(id) \/ Pause(id) \/ Resume(id) \/ Cancel(id)
      PROVE  Quiet
  BY <1>1, <1>2, TickTimeoutQuiet, PauseQuiet, ResumeQuiet, CancelQuiet
<1>3. ASSUME NEW id \in Created, NEW n \in Node, QuarantineNode(id, n)
      PROVE  Quiet
  BY <1>1, <1>3, QuarantineNodeQuiet
<1>4. ASSUME NEW id \in Created, NEW n \in Node, NEW event \in SampleId,
             NEW healthy \in BOOLEAN, ReportHealth(id, n, event, healthy)
      PROVE  Quiet
  BY <1>1, <1>4, ReportHealthQuiet
<1>5. CASE ClockTick
  <2>1. releases' = releases /\ nodes' = nodes /\ nextSeq' = nextSeq
    BY <1>5 DEF ClockTick
  <2> QED BY <2>1, PlanKeptCarries DEF Quiet, Created
<1> QED BY <1>2, <1>3, <1>4, <1>5 DEF Elsewhere

\* The service sees of a step of the fleet: nothing that moves a node, a new release,
\* a receipt or a confirmation.
LEMMA StepKinds ==
    ASSUME PlanInv, [FleetNext]_fleetVars
    PROVE  \/ Quiet
           \/ \E id \in ReleaseId, in \in Inputs : CreateRegistered(id, in)
           \/ \E id \in Created, n \in Node :
                 \/ ReportTaken(id, n)
                 \/ ConfirmRollback(id, n) /\ Confirm(id, n)
<1>1. CASE UNCHANGED vars
  BY <1>1, UnchangedQuiet
<1>2. CASE Elsewhere
  BY <1>2, ElsewhereQuiet
<1>3. ASSUME NEW id \in Created, NEW n \in Node,
             ReportIgnored(id, n) \/ ReportFailure(id, n)
      PROVE  Quiet
  BY <1>3, TickTimeoutQuiet, AckFailedQuiet, UnchangedQuiet
     DEF ReportIgnored, ReportFailure, AckIgnored, PlanInv
<1>4. ASSUME NEW id \in Created, NEW n \in Node, Confirm(id, n)
      PROVE  ConfirmRollback(id, n) \/ UNCHANGED vars
  BY <1>4 DEF Confirm
<1>5. CASE \E d \in Digest : RegisterConfig(d)
  BY <1>1, <1>5 DEF RegisterConfig
<1>6. ASSUME NEW id \in Created, NEW n \in Node,
             Fetch(id, n) \/ Apply(id, n) \/ ReportRefusedForGood(id, n)
                \/ Restore(id, n)
      PROVE  UNCHANGED vars
  BY <1>6 DEF Fetch, Apply, ReportRefusedForGood, Restore
<1>7. UNCHANGED fleetVars => UNCHANGED vars
  BY DEF fleetVars
<1> QED BY <1>1, <1>2, <1>3, <1>4, <1>5, <1>6, <1>7 DEF FleetNext

\* What the fleet adds to the service are its own variables.
LEMMA FleetStepsRollout == [FleetNext]_fleetVars => [Next]_vars
<1> SUFFICES ASSUME [FleetNext]_fleetVars PROVE [Next]_vars
  OBVIOUS
<1>1. ASSUME NEW id \in Created, NEW n \in Node,
             AckSucceeded(id, n) \/ AckIgnored(id, n) \/ AckFailed(id, n)
                \/ ConfirmRollback(id, n)
      PROVE  Next
  BY <1>1 DEF Next, AckReceipt
<1>2. CASE Elsewhere
  BY <1>2 DEF Elsewhere, Next
<1>3. ASSUME NEW id \in ReleaseId, NEW in \in Inputs, CreateRegistered(id, in)
      PROVE  Next
  BY <1>3 DEF CreateRegistered, Next
<1>4. ASSUME NEW id \in Created, NEW n \in Node,
             ReportTaken(id, n) \/ ReportIgnored(id, n) \/ ReportFailure(id, n)
                \/ Confirm(id, n)
      PROVE  [Next]_vars
  BY <1>1, <1>4 DEF ReportTaken, ReportIgnored, ReportFailure, Confirm
<1>5. ASSUME NEW id \in Created, NEW n \in Node,
             Fetch(id, n) \/ Apply(id, n) \/ ReportRefusedForGood(id, n)
                \/ Restore(id, n)
      PROVE  UNCHANGED vars
  BY <1>5 DEF Fetch, Apply, ReportRefusedForGood, Restore
<1>6. CASE \E d \in Digest : RegisterConfig(d)
  BY <1>6 DEF RegisterConfig
<1>7. CASE UNCHANGED fleetVars
  BY <1>7 DEF fleetVars
<1> QED BY <1>2, <1>3, <1>4, <1>5, <1>6, <1>7 DEF FleetNext

\* A release keeps its configuration, and a new one names one from the registry.
LEMMA ConfigsStay ==
    ASSUME PlanInv, FleetTypeOK, [FleetNext]_fleetVars
    PROVE  /\ configs \subseteq configs' /\ configs' \subseteq Digest
           /\ \A id \in Created' : releases'[id].input.digest \in configs'
<1>1. configs \subseteq configs' /\ configs' \subseteq Digest
  <2>1. CASE \E d \in Digest : RegisterConfig(d)
    BY <2>1 DEF RegisterConfig, FleetTypeOK
  <2>2. ASSUME NEW id \in Created, NEW n \in Node,
               \/ Fetch(id, n) \/ Apply(id, n)
               \/ ReportTaken(id, n) \/ ReportIgnored(id, n)
               \/ ReportRefusedForGood(id, n) \/ ReportFailure(id, n)
               \/ Restore(id, n) \/ Confirm(id, n)
        PROVE  configs' = configs
    BY <2>2 DEF Fetch, Apply, ReportTaken, ReportIgnored, ReportRefusedForGood,
                ReportFailure, Restore, Confirm
  <2>3. CASE \/ \E id \in ReleaseId, in \in Inputs : CreateRegistered(id, in)
             \/ Elsewhere \/ UNCHANGED fleetVars
    BY <2>3 DEF CreateRegistered, Elsewhere, fleetVars, FleetTypeOK
  <2>4. configs \subseteq Digest
    BY DEF FleetTypeOK
  <2> QED BY <2>1, <2>2, <2>3, <2>4 DEF FleetNext
<1>2. \A id \in Created : releases[id].input.digest \in configs'
  BY <1>1 DEF FleetTypeOK
<1>3. CASE Quiet
  BY <1>1, <1>2, <1>3 DEF Quiet, Carries
<1>4. ASSUME NEW id \in ReleaseId, NEW in \in Inputs, CreateRegistered(id, in)
      PROVE  \A i \in Created' : releases'[i].input.digest \in configs'
  <2>1. CreateRelease(id, in) /\ in.digest \in configs
    BY <1>4 DEF CreateRegistered
  <2> QED BY <1>1, <1>2, <2>1, CreateReleaseUnmoved
<1>5. ASSUME NEW id \in Created, NEW n \in Node,
             ReportTaken(id, n) \/ ConfirmRollback(id, n)
      PROVE  \A i \in Created' : releases'[i].input.digest \in configs'
  <2>1. \E d : MovesNode(id, n, d)
    BY <1>5, AckSucceededMoves, ConfirmRollbackMoves DEF ReportTaken, PlanInv
  <2>2. Created' = Created /\ \A i \in Created : releases'[i].input = releases[i].input
    BY <2>1, MovesUnmoved DEF PlanInv, WaveInv, Inv
  <2> QED BY <1>2, <2>2
<1> QED BY <1>1, <1>3, <1>4, <1>5, StepKinds

LEMMA FleetNextTypeOK ==
    ASSUME FleetInv, [FleetNext]_fleetVars
    PROVE  FleetTypeOK'
<1> DEFINE Typed == /\ running' \in [Node -> Digest \cup {NoDigest}]
                    /\ job' \in [Node -> Job] /\ strayed' \subseteq Node
<1>1. /\ running \in [Node -> Digest \cup {NoDigest}]
      /\ job \in [Node -> Job] /\ strayed \subseteq Node /\ Created \subseteq ReleaseId
  BY DEF FleetInv, FleetTypeOK, PlanInv, WaveInv, Inv, TypeOK
<1>2. \A id \in Created, n \in Node : /\ releases[id].input.digest \in Digest
                                      /\ releases[id].prev[n] \in Digest \cup {NoDigest}
  BY DEF FleetInv, PlanInv, WaveInv, Inv, TypeOK, Release, Input
<1>3. SUFFICES Typed
  BY ConfigsStay DEF FleetInv, FleetTypeOK
<1>4. CASE UNCHANGED fleet
  BY <1>1, <1>4 DEF fleet
<1>5. ASSUME NEW id \in Created, NEW n \in Node, Fetch(id, n)
      PROVE  Typed
  <2>1. [kind |-> "fetched", release |-> id] \in Job
    BY <1>1 DEF Job
  <2> QED BY <1>1, <1>5, <2>1 DEF Fetch
<1>6. ASSUME NEW id \in Created, NEW n \in Node, Apply(id, n)
      PROVE  Typed
  <2>1. [kind |-> "applied", release |-> id, before |-> running[n]] \in Job
    BY <1>1 DEF Job
  <2> QED BY <1>1, <1>2, <1>6, <2>1 DEF Apply
<1>7. Idle \in Job
  BY DEF Idle, Job
<1>8. ASSUME NEW id \in Created, NEW n \in Node,
             \/ ReportTaken(id, n) \/ ReportIgnored(id, n) \/ ReportFailure(id, n)
             \/ ReportRefusedForGood(id, n) \/ Confirm(id, n)
      PROVE  Typed
  <2>1. /\ job' = job \/ job' = [job EXCEPT ![n] = Idle]
        /\ running' = running
        /\ strayed' \in {strayed, strayed \cup {n}, strayed \ {n}}
    BY <1>8 DEF ReportTaken, ReportIgnored, ReportFailure, ReportRefusedForGood, Confirm,
                AnswerArrivesOrNot
  <2> QED BY <1>1, <1>7, <2>1
<1>9. ASSUME NEW id \in Created, NEW n \in Node, Restore(id, n)
      PROVE  Typed
  <2>1. [kind |-> "restored", release |-> id] \in Job
    BY <1>1 DEF Job
  <2> QED BY <1>1, <1>2, <1>9, <2>1 DEF Restore
<1>10. CASE \/ \E d \in Digest : RegisterConfig(d)
            \/ \E id \in ReleaseId, in \in Inputs : CreateRegistered(id, in)
            \/ Elsewhere
            \/ UNCHANGED fleetVars
  BY <1>4, <1>10 DEF RegisterConfig, CreateRegistered, Elsewhere, fleetVars, fleet
<1> QED BY <1>5, <1>6, <1>8, <1>9, <1>10 DEF FleetNext

LEMMA FleetNextNodes ==
    ASSUME FleetInv, PlanInv', [FleetNext]_fleetVars
    PROVE  NodeInv'
<1>1. ASSUME \A n \in Node : Unmoved(n), UNCHANGED fleet
      PROVE  NodeInv'
  BY <1>1, UnmovedOK DEF FleetInv, NodeInv, SameNode, fleet
<1>2. CASE UNCHANGED vars /\ UNCHANGED fleet
  BY <1>1, <1>2, UnchangedQuiet, QuietUnmoved
<1>3. CASE Elsewhere
  <2>1. Quiet /\ UNCHANGED fleet
    BY <1>3, ElsewhereQuiet DEF FleetInv, Elsewhere
  <2> QED BY <1>1, <2>1, QuietUnmoved
<1>4. ASSUME NEW id \in ReleaseId, NEW in \in Inputs, CreateRegistered(id, in)
      PROVE  NodeInv'
  <2>1. CreateRelease(id, in) /\ UNCHANGED fleet
    BY <1>4 DEF CreateRegistered
  <2> QED BY <1>1, <2>1, CreateReleaseUnmoved DEF FleetInv
<1>5. ASSUME NEW id \in Created, NEW n \in Node,
             \/ Fetch(id, n) \/ Apply(id, n)
             \/ ReportTaken(id, n) \/ ReportIgnored(id, n)
             \/ ReportRefusedForGood(id, n) \/ ReportFailure(id, n)
             \/ Restore(id, n) \/ Confirm(id, n)
      PROVE  NodeInv'
  BY <1>5, FetchNodes, ApplyNodes, ReportTakenNodes, ReportIgnoredNodes,
     ReportRefusedForGoodNodes, ReportFailureNodes, RestoreNodes, ConfirmNodes
<1>6. (\E d \in Digest : RegisterConfig(d)) \/ UNCHANGED fleetVars =>
          UNCHANGED vars /\ UNCHANGED fleet
  BY DEF RegisterConfig, fleetVars, fleet
<1> QED BY <1>2, <1>3, <1>4, <1>5, <1>6 DEF FleetNext

LEMMA FleetInitInv == FleetInit => FleetInv
<1> SUFFICES ASSUME FleetInit PROVE FleetInv
  OBVIOUS
<1>1. PlanInv /\ Created = {} /\ nodes = [n \in Node |-> NeverApplied]
  BY InitPlanInv DEF FleetInit, Init, Created
<1>2. FleetTypeOK
  BY <1>1 DEF FleetInit, FleetTypeOK, Job, Idle
<1>3. NodeInv
  <2>1. SUFFICES ASSUME NEW n \in Node PROVE NodeOK(n)
    BY DEF NodeInv
  <2>2. /\ job[n] = Idle /\ running[n] = NoDigest
        /\ nodes[n].digest = NoDigest
    BY <1>1 DEF FleetInit, NeverApplied
  <2>3. Known(n)
    BY <1>1, <2>2 DEF Known
  <2> QED BY <2>2, <2>3, IdleTracked DEF NodeOK
<1> QED BY <1>1, <1>2, <1>3 DEF FleetInv

LEMMA FleetNextInv == FleetInv /\ [FleetNext]_fleetVars => FleetInv'
<1> SUFFICES ASSUME FleetInv, [FleetNext]_fleetVars PROVE FleetInv'
  OBVIOUS
<1>1. PlanInv'
  BY FleetStepsRollout, CatchupNextPlanInv DEF FleetInv, CatchupNext
<1>2. FleetTypeOK'
  BY FleetNextTypeOK
<1>3. NodeInv'
  BY <1>1, FleetNextNodes
<1> QED BY <1>1, <1>2, <1>3 DEF FleetInv

LEMMA FleetInvariant == FleetSpec => []FleetInv
BY FleetInitInv, FleetNextInv, PTL DEF FleetSpec

-----------------------------------------------------------------------------
(* The theorems *)

\* For any number of nodes and releases: the state of the nodes is well typed, and what
\* a release names is in the registry, so that a node is never told ErrConfigNotFound
\* (service.go 532-535).
THEOREM FleetTypeCorrect == FleetSpec => []FleetTypeOK
BY FleetInvariant, PTL DEF FleetInv

\* Whatever releases, rollbacks, repeated reports and lost answers interleave, the service
\* knows what an idle node runs, unless it did not follow the node's last move: a receipt
\* it refused or ignored, or a rollback that reached the node under a newer release
\* (service.go 244-311, health.go 318-331).
THEOREM VersionsKnown == FleetSpec => []KnownVersions
<1>1. FleetInv => KnownVersions
  BY IdleTracked DEF FleetInv, NodeInv, NodeOK, KnownVersions, Known
<1> QED BY <1>1, FleetInvariant, PTL

\* Only a receipt that is taken makes a success, and it finds the service at the version
\* the node ran before.
LEMMA NewSuccess ==
    ASSUME FleetInv, [FleetNext]_fleetVars, NEW id \in Created, NEW n \in Node,
           releases'[id].result[n] = "succeeded", releases[id].result[n] # "succeeded",
           n \notin strayed
    PROVE  releases'[id].prev[n] = job[n].before
<1>1. n \in Succeeded(releases'[id]) /\ n \notin Succeeded(releases[id])
  BY DEF Succeeded
<1>2. ~Unmoved(n)
  BY <1>1 DEF Unmoved
<1>3. TypeOK
  BY DEF FleetInv, PlanInv, WaveInv, Inv
<1>4. ASSUME NEW i \in Created, NEW m \in Node, NEW d, MovesNode(i, m, d)
      PROVE  i = id /\ m = n
  BY <1>1, <1>2, <1>3, <1>4, MovesUnmoved
<1>5. CASE Quiet
  BY <1>2, <1>5, QuietUnmoved
<1>6. ASSUME NEW i \in ReleaseId, NEW in \in Inputs, CreateRegistered(i, in)
      PROVE  FALSE
  BY <1>2, <1>6, CreateReleaseUnmoved DEF FleetInv, CreateRegistered
<1>7. ASSUME NEW i \in Created, NEW m \in Node, ConfirmRollback(i, m)
      PROVE  FALSE
  <2>1. MovesNode(i, m, releases[i].prev[m]) /\ m \in Succeeded(releases[i])
    BY <1>7, ConfirmRollbackMoves DEF FleetInv, PlanInv
  <2> QED BY <1>1, <1>4, <2>1
<1>8. ASSUME NEW i \in Created, NEW m \in Node, ReportTaken(i, m)
      PROVE  releases'[id].prev[n] = job[n].before
  <2>1. HasApplied(i, m) /\ AckSucceeded(i, m)
    BY <1>8 DEF ReportTaken
  <2>2. /\ MovesNode(i, m, releases[i].input.digest)
        /\ releases'[i].prev[m] = nodes[m].digest
    BY <2>1, AckSucceededMoves DEF FleetInv, PlanInv
  <2>3. i = id /\ m = n
    BY <1>4, <2>2
  <2>4. nodes[n].digest = job[n].before
    BY <1>1, <2>1, <2>3, AppliedWork DEF FleetInv
  <2> QED BY <2>2, <2>3, <2>4
<1> QED BY <1>5, <1>6, <1>7, <1>8, StepKinds DEF FleetInv

\* A rollback would restore what the node ran before it applied the release, however late
\* its receipt comes, unless the service had lost track of the node before
\* (service.go 293-299).
THEOREM RestoresFormer == FleetSpec => RestoresWhatRan
<1> DEFINE Captures == \A id \in Created, n \in Node :
                          /\ releases'[id].result[n] = "succeeded"
                          /\ releases[id].result[n] # "succeeded"
                          /\ n \notin strayed
                          => releases'[id].prev[n] = job[n].before
<1>1. FleetInv /\ [FleetNext]_fleetVars => Captures
  BY NewSuccess
<1>2. RestoresWhatRan <=> [][Captures]_fleetVars
  BY DEF RestoresWhatRan
<1> HIDE DEF Captures
<1> QED BY <1>1, <1>2, FleetInvariant, PTL DEF FleetSpec

\* The nodes only use the service: a fleet at work is a behaviour of Rollout, and all that
\* is proved of Spec holds of it.
THEOREM FleetImplementsRollout == FleetSpec => Spec
<1>1. FleetInit => Init
  BY DEF FleetInit
<1> QED BY <1>1, FleetStepsRollout, PTL DEF FleetSpec, Spec
=============================================================================
