-------------------------------- MODULE Outbox --------------------------------
(***************************************************************************)
(* The file store (store.go) and the outbox it keeps with the state: how   *)
(* transactions reach the disk, and how dispatchers hand events to a sink  *)
(* (service.go, PendingEvents, MarkDelivered, DispatchOutbox).             *)
(*                                                                         *)
(* What the handlers do to the state is the subject of Rollout; here a     *)
(* transaction is a number and writes one event, whose Seq is its place in *)
(* the outbox.  A handler that returns an error changes nothing and is     *)
(* left out.  The process may crash at any step; NewFileStore then reads   *)
(* the file back.                                                          *)
(***************************************************************************)
EXTENDS Naturals, Sequences, FiniteSets

CONSTANTS
    Client,         \* callers of handlers
    Dispatcher,     \* callers of DispatchOutbox
    MaxTxn,         \* bound: transactions
    MaxCrashes,     \* bound: crashes of the process
    MaxFailures     \* bound: failures to write the file (disk full, rename, ...)

ASSUME BoundsAssumption ==
    MaxTxn \in Nat /\ MaxCrashes \in Nat /\ MaxFailures \in Nat

Process == Client \cup Dispatcher
Free == "free"
Txn == 1 .. MaxTxn

ASSUME ProcessAssumption == Client \cap Dispatcher = {} /\ Free \notin Process

VARIABLES
    mem,            \* MemoryStore.state: the events of the outbox
    disk,           \* the state file
    lock,           \* MemoryStore.mu: who holds it, or Free
    pc,             \* where each process is
    current,        \* the Seq of the event a dispatcher works on
    txns,           \* transactions begun so far
    ok, failed,     \* transactions whose callers were told nil, or an error
    sunk,           \* the events the sink has seen
    crashes, failures

vars == <<mem, disk, lock, pc, current, txns, ok, failed, sunk, crashes, failures>>

Event == [txn : Txn, delivered : BOOLEAN]

Init ==
    /\ mem = <<>> /\ disk = <<>>
    /\ lock = Free
    /\ pc = [p \in Process |-> "idle"]
    /\ current = [d \in Dispatcher |-> 0]
    /\ txns = 0
    /\ ok = {} /\ failed = {}
    /\ sunk = {}
    /\ crashes = 0 /\ failures = 0

Goto(p, label) == pc' = [pc EXCEPT ![p] = label]

-----------------------------------------------------------------------------
(* mutate: lock, run the handler on a copy, swap the copy in, write the file *)

\* The candidate replaces the state in memory before it is written.
Swap(p, candidate) ==
    /\ lock = Free
    /\ lock' = p
    /\ mem' = candidate
    /\ Goto(p, "persisting")

Begin(c) ==
    /\ pc[c] = "idle"
    /\ txns < MaxTxn
    /\ txns' = txns + 1
    /\ Swap(c, Append(mem, [txn |-> txns + 1, delivered |-> FALSE]))
    /\ UNCHANGED <<disk, current, ok, failed, sunk, crashes, failures>>

\* The transaction of a client: the lock keeps it the last event until it returns.
Own == mem[Len(mem)].txn

\* Faulty: the caller is answered before the file is written.
PersistLater(p) ==
    /\ pc[p] = "persisting"
    /\ lock' = Free
    /\ Goto(p, "idle")
    /\ ok' = IF p \in Client THEN ok \cup {Own} ELSE ok
    /\ UNCHANGED <<mem, disk, current, txns, failed, sunk, crashes, failures>>

\* Temporary file, fsync, rename: the file is replaced as a whole.
Persist(p) ==
    /\ pc[p] = "persisting"
    /\ disk' = mem
    /\ lock' = Free
    /\ Goto(p, "idle")
    /\ ok' = IF p \in Client THEN ok \cup {Own} ELSE ok
    /\ UNCHANGED <<mem, current, txns, failed, sunk, crashes, failures>>

\* The error is returned; the candidate stays in memory.
PersistFails(p) ==
    /\ pc[p] = "persisting"
    /\ failures < MaxFailures
    /\ failures' = failures + 1
    /\ lock' = Free
    /\ Goto(p, "idle")
    /\ failed' = IF p \in Client THEN failed \cup {Own} ELSE failed
    /\ UNCHANGED <<mem, disk, current, txns, ok, sunk, crashes>>

-----------------------------------------------------------------------------
(* DispatchOutbox *)

Undelivered == {i \in DOMAIN mem : ~mem[i].delivered}

\* Faulty: the latest event goes first.
FirstLatest(i) == \A j \in Undelivered : j <= i

First(i) == \A j \in Undelivered : i <= j

\* The first undelivered event, read under the lock; the lock is released before
\* the event goes to the sink.
Read(d) ==
    /\ pc[d] = "idle"
    /\ lock = Free
    /\ \E i \in Undelivered : First(i) /\ current' = [current EXCEPT ![d] = i]
    /\ Goto(d, "sinking")
    /\ UNCHANGED <<mem, disk, lock, txns, ok, failed, sunk, crashes, failures>>

\* What the sink sees: the events of memory never change but for Delivered.
Seen(d) == [seq |-> current[d], txn |-> mem[current[d]].txn]

Sink(d) ==
    /\ pc[d] = "sinking"
    /\ sunk' = sunk \cup {Seen(d)}
    /\ Goto(d, "marking")
    /\ UNCHANGED <<mem, disk, lock, current, txns, ok, failed, crashes, failures>>

\* Faulty: an event is marked whatever the sink says.
SinkFailsMarks(d) ==
    /\ pc[d] = "sinking"
    /\ sunk' \in {sunk, sunk \cup {Seen(d)}}
    /\ Goto(d, "marking")
    /\ UNCHANGED <<mem, disk, lock, current, txns, ok, failed, crashes, failures>>

\* Faulty: after an error of the sink there is no way to dispatch again.
SinkFailsForGood(d) ==
    /\ pc[d] = "sinking"
    /\ sunk' \in {sunk, sunk \cup {Seen(d)}}
    /\ Goto(d, "stopped")
    /\ UNCHANGED <<mem, disk, lock, current, txns, ok, failed, crashes, failures>>

\* The sink reports an error and this call of DispatchOutbox is over.  A sink that
\* fails may have seen the event all the same.
SinkFails(d) ==
    /\ pc[d] = "sinking"
    /\ sunk' \in {sunk, sunk \cup {Seen(d)}}
    /\ Goto(d, "idle")
    /\ UNCHANGED <<mem, disk, lock, current, txns, ok, failed, crashes, failures>>

MarkDelivered(d) ==
    /\ pc[d] = "marking"
    /\ Swap(d, [mem EXCEPT ![current[d]].delivered = TRUE])
    /\ UNCHANGED <<disk, current, txns, ok, failed, sunk, crashes, failures>>

-----------------------------------------------------------------------------
(* The process dies and is started again *)

\* Faulty: the file is not read back.
CrashForgets ==
    /\ crashes < MaxCrashes
    /\ crashes' = crashes + 1
    /\ mem' = <<>>
    /\ lock' = Free
    /\ pc' = [p \in Process |-> "idle"]
    /\ current' = [d \in Dispatcher |-> 0]
    /\ UNCHANGED <<disk, txns, ok, failed, sunk, failures>>

\* Who holds the lock may or may not have got to the rename; nobody is answered.
Crash ==
    /\ crashes < MaxCrashes
    /\ crashes' = crashes + 1
    /\ disk' = disk \/ (lock # Free /\ disk' = mem)
    /\ mem' = disk'
    /\ lock' = Free
    /\ pc' = [p \in Process |-> "idle"]
    /\ current' = [d \in Dispatcher |-> 0]
    /\ UNCHANGED <<txns, ok, failed, sunk, failures>>

Next ==
    \/ \E c \in Client : Begin(c)
    \/ \E p \in Process : Persist(p) \/ PersistFails(p)
    \/ \E d \in Dispatcher : Read(d) \/ Sink(d) \/ SinkFails(d) \/ MarkDelivered(d)
    \/ Crash

Spec == Init /\ [][Next]_vars

\* The lock is granted and the file is written in the end; dispatchers are called
\* again, and a sink that is called again and again does not fail every time.
FairSpec ==
    /\ Spec
    /\ \A p \in Process : WF_vars(Persist(p))
    /\ \A d \in Dispatcher :
          WF_vars(Read(d)) /\ SF_vars(Sink(d)) /\ WF_vars(MarkDelivered(d))

-----------------------------------------------------------------------------
(* Safety *)

Written(t, events) == \E i \in DOMAIN events : events[i].txn = t

\* A transaction whose caller was told that it succeeded is in the file, whatever
\* failed or crashed before or after (store.go 56-73).
AnsweredDurable == \A t \in ok : Written(t, disk)

\* At least once: an event is marked, in memory or in the file, only when the sink has
\* seen that very event, by its Seq and its contents (service.go 711-717).
MarkedWasSunk ==
    \A events \in {mem, disk} : \A i \in DOMAIN events :
        events[i].delivered => [seq |-> i, txn |-> events[i].txn] \in sunk

\* In order: the sink sees no event for the first time before it has seen all the
\* events that precede it, however many dispatchers run (service.go 695-719).
SunkInOrder == \A e \in sunk : \A i \in 1 .. e.seq : \E s \in sunk : s.seq = i

\* The file store implements the journal as long as the file can be written.
SunkSeqs == {e.seq : e \in sunk}
Logged == [i \in DOMAIN disk |-> disk[i].txn]
J == INSTANCE Journal WITH log <- Logged, seen <- Cardinality(SunkSeqs)
ImplementsJournal == J!JournalSpec

-----------------------------------------------------------------------------
(* Liveness *)

\* Every transaction that succeeded is announced to the sink.
SucceededAnnounced == \A t \in Txn : (t \in ok) ~> (\E e \in sunk : e.txn = t)

-----------------------------------------------------------------------------
(* A statement of the documentation that the code does not keep *)

\* "A failure to write is a failure to commit" (store.go 68): a transaction whose
\* caller was told that it failed left nothing behind.
FailedLeavesNoTrace == \A t \in failed : ~Written(t, mem)
=============================================================================
