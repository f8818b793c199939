------------------------------ MODULE Lifecycle ------------------------------
(***************************************************************************)
(* The abstract life of releases: the legal migrations that model.go 7-17  *)
(* lists, with the waves an active release opens one after the other.      *)
(* Everything that decides *when* a release migrates (receipts, samples,   *)
(* timeouts, limits) is left out.                                          *)
(*                                                                         *)
(* A transaction may make more than one migration: it may resume a release *)
(* and settle it, or settle it and then take a receipt for the wave that   *)
(* this opened.  It makes at most two, and the release is active between   *)
(* them; it never touches the life of another release.                     *)
(***************************************************************************)
EXTENDS Naturals

CONSTANTS
    ReleaseId,      \* identifiers of releases
    LastWave        \* the numbers that the last wave of a release may have

VARIABLE life       \* the life of each release created so far

Init == life = [id \in {} |-> {}]

-----------------------------------------------------------------------------
(* Migrations of one release, from s to t *)

To(s, state) == [s EXCEPT !.state = state]
NextWave(s) == [s EXCEPT !.wave = @ + 1]

Pauses(s, t)    == s.state = "active" /\ t = To(s, "paused")
Resumes(s, t)   == s.state = "paused" /\ t = To(s, "active")
Cancels(s, t)   == s.state \in {"active", "paused"} /\ t = To(s, "cancelled")
Opens(s, t)     == s.state = "active" /\ s.wave < s.last /\ t = NextWave(s)
Completes(s, t) == s.state = "active" /\ s.wave = s.last /\ t = To(s, "completed")
Withdraws(s, t) == s.state = "active" /\ t = To(s, "rolling_back")
Restores(s, t)  == s.state = "rolling_back" /\ t = To(s, "rolled_back")

Migrates(s, t) ==
    \/ Pauses(s, t) \/ Resumes(s, t) \/ Cancels(s, t) \/ Opens(s, t)
    \/ Completes(s, t) \/ Withdraws(s, t) \/ Restores(s, t)

\* Two migrations in one transaction: the first resumes the release or opens a wave.
MigratesTwice(s, t) ==
    \E between \in {To(s, "active"), NextWave(s)} :
        /\ Resumes(s, between) \/ Opens(s, between)
        /\ Migrates(between, t)

-----------------------------------------------------------------------------

Create(id) ==
    /\ id \notin DOMAIN life
    /\ \E last \in LastWave :
          life' = [i \in DOMAIN life \cup {id} |->
                      IF i = id THEN [state |-> "active", wave |-> 0, last |-> last]
                      ELSE life[i]]

Transact(id) ==
    /\ DOMAIN life' = DOMAIN life
    /\ \A i \in DOMAIN life \ {id} : life'[i] = life[i]
    /\ Migrates(life[id], life'[id]) \/ MigratesTwice(life[id], life'[id])

Next ==
    \/ \E id \in ReleaseId : Create(id)
    \/ \E id \in DOMAIN life : Transact(id)

Spec == Init /\ [][Next]_life
=============================================================================
