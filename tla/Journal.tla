------------------------------- MODULE Journal -------------------------------
(***************************************************************************)
(* What the store and its outbox promise together (README.md,              *)
(* "Persistence and outbox"): transactions enter an append-only log, one   *)
(* at a time and never twice; the sink sees the log from the front, each   *)
(* entry for the first time in the order of the log; no crash takes away   *)
(* what was logged or seen.  Deliveries of what was seen before are        *)
(* stuttering steps.                                                       *)
(***************************************************************************)
EXTENDS Naturals, Sequences

CONSTANT Txn        \* transactions

VARIABLES
    log,            \* the committed transactions
    seen            \* how many of them the sink has seen

JournalInit == log = <<>> /\ seen = 0

Commit(t) ==
    /\ \A i \in DOMAIN log : log[i] # t
    /\ log' = Append(log, t)
    /\ UNCHANGED seen

Deliver ==
    /\ seen < Len(log)
    /\ seen' = seen + 1
    /\ UNCHANGED log

JournalSpec == JournalInit /\ [][Deliver \/ \E t \in Txn : Commit(t)]_<<log, seen>>
=============================================================================
