----------------------------- MODULE OutboxProofs -----------------------------
(***************************************************************************)
(* The safety of the file store and its outbox, whatever fails or crashes. *)
(* Two facts carry the proof: the file never holds anything the memory     *)
(* does not extend, so writing the file forgets nothing; and the event a   *)
(* dispatcher works on keeps its place, although the lock is free while    *)
(* the sink has it.  As long as every write succeeds the memory is at most *)
(* one transaction ahead of the file, and nobody but its writer can see    *)
(* that transaction: the store then implements the journal.                *)
(***************************************************************************)
EXTENDS Outbox, FiniteSetTheorems, TLAPS

Pc == {"idle", "persisting", "sinking", "marking"}

Typed ==
    /\ mem \in Seq(Event) /\ disk \in Seq(Event)
    /\ pc \in [Process -> Pc]
    /\ current \in [Dispatcher -> Nat]
    /\ txns \in 0 .. MaxTxn

\* The memory extends the file, up to what was delivered since.
Extends ==
    /\ Len(disk) <= Len(mem)
    /\ \A i \in DOMAIN disk :
          disk[i].txn = mem[i].txn /\ (disk[i].delivered => mem[i].delivered)

\* Who is about to write has something to write.
WritersHaveEvents == \A p \in Process : pc[p] = "persisting" => mem # <<>>

\* What a dispatcher knows of its event once it has let go of the lock: it is there,
\* everything before it was seen, and at the end it was seen too.
DispatchersKnow ==
    \A d \in Dispatcher :
        /\ pc[d] \in {"sinking", "marking"} =>
              /\ current[d] \in DOMAIN mem
              /\ \A i \in 1 .. (current[d] - 1) : \E s \in sunk : s.seq = i
        /\ pc[d] = "marking" => Seen(d) \in sunk

SunkIsTyped == \A e \in sunk : e.seq \in Nat

Inv ==
    /\ Typed /\ SunkIsTyped
    /\ Extends
    /\ WritersHaveEvents
    /\ DispatchersKnow
    /\ AnsweredDurable
    /\ MarkedWasSunk
    /\ SunkInOrder

LEMMA InitInv == Init => Inv
<1> SUFFICES ASSUME Init PROVE Inv
  OBVIOUS
<1>1. Typed
  BY BoundsAssumption DEF Init, Typed, Pc
<1>2. Extends /\ MarkedWasSunk
  BY DEF Init, Extends, MarkedWasSunk
<1> QED
  BY <1>1, <1>2 DEF Init, Inv, SunkIsTyped, WritersHaveEvents, DispatchersKnow,
     AnsweredDurable, SunkInOrder, Process

-----------------------------------------------------------------------------
(* A transaction *)

LEMMA BeginInv ==
    ASSUME Inv, NEW c \in Client, Begin(c)
    PROVE  Inv'
<1> DEFINE event == [txn |-> txns + 1, delivered |-> FALSE]
<1>1. event \in Event /\ mem' = Append(mem, event)
  BY BoundsAssumption DEF Begin, Swap, Inv, Typed, Event, Txn
<1>2. /\ mem' \in Seq(Event) /\ Len(mem') = Len(mem) + 1
      /\ \A i \in DOMAIN mem : i \in DOMAIN mem' /\ mem'[i] = mem[i]
      /\ \A i \in DOMAIN mem' : i \in DOMAIN mem \/ mem'[i] = event
      /\ mem' # <<>>
  <2> HIDE DEF event
  <2>1. mem \in Seq(Event) /\ Len(mem) \in Nat /\ DOMAIN mem = 1 .. Len(mem)
    BY DEF Inv, Typed
  <2>2. mem' \in Seq(Event) /\ Len(mem') = Len(mem) + 1 /\ DOMAIN mem' = 1 .. (Len(mem) + 1)
    BY <1>1, <2>1
  <2>3. \A i \in 1 .. Len(mem) : mem'[i] = mem[i]
    BY <1>1, <2>1
  <2>4. mem'[Len(mem) + 1] = event
    BY <1>1, <2>1
  <2>5. mem' # <<>>
    BY <2>1, <2>2
  <2> QED BY <2>1, <2>2, <2>3, <2>4, <2>5
<1> HIDE DEF event
<1>3. pc' = [pc EXCEPT ![c] = "persisting"] /\ pc \in [Process -> Pc] /\ c \notin Dispatcher
  BY ProcessAssumption DEF Begin, Swap, Goto, Inv, Typed
<1>4. UNCHANGED <<disk, current, ok, sunk>> /\ txns' = txns + 1 /\ txns < MaxTxn
  BY DEF Begin
<1>5. Typed'
  BY <1>2, <1>3, <1>4, BoundsAssumption DEF Inv, Typed, Pc, Process
<1>6. Extends'
  BY <1>2, <1>4 DEF Inv, Typed, Extends
<1>7. WritersHaveEvents'
  BY <1>2 DEF WritersHaveEvents
<1>8. DispatchersKnow'
  BY <1>2, <1>3, <1>4 DEF Inv, DispatchersKnow, Seen, Process
<1>9. MarkedWasSunk'
  <2>1. ~event.delivered
    BY DEF event
  <2> QED BY <1>2, <1>4, <2>1 DEF Inv, MarkedWasSunk
<1> QED
  BY <1>4, <1>5, <1>6, <1>7, <1>8, <1>9 DEF Inv, SunkIsTyped, AnsweredDurable, SunkInOrder, Written

\* Writing the file forgets nothing that was answered, and makes Own durable.
LEMMA PersistInv ==
    ASSUME Inv, NEW p \in Process, Persist(p)
    PROVE  Inv'
<1>1. disk' = mem /\ UNCHANGED <<mem, current, txns, sunk>>
  BY DEF Persist
<1>2. pc' = [pc EXCEPT ![p] = "idle"] /\ pc \in [Process -> Pc]
  BY DEF Persist, Goto, Inv, Typed
<1>3. Typed' /\ Extends'
  BY <1>1, <1>2 DEF Inv, Typed, Extends, Pc
<1>4. WritersHaveEvents' /\ DispatchersKnow'
  BY <1>1, <1>2 DEF Inv, WritersHaveEvents, DispatchersKnow, Seen, Process
<1>5. AnsweredDurable'
  <2>1. Len(mem) \in DOMAIN mem
    BY DEF Persist, Inv, WritersHaveEvents, Typed
  <2>2. Written(Own, mem)
    BY <2>1 DEF Written, Own
  <2>3. \A t \in ok : Written(t, mem)
    BY DEF Inv, AnsweredDurable, Extends, Typed, Written
  <2>4. ok' \subseteq ok \cup {Own}
    BY DEF Persist
  <2> QED BY <1>1, <2>2, <2>3, <2>4 DEF AnsweredDurable, Written
<1>6. MarkedWasSunk'
  BY <1>1 DEF Inv, MarkedWasSunk
<1> QED
  BY <1>1, <1>3, <1>4, <1>5, <1>6 DEF Inv, SunkIsTyped, SunkInOrder

LEMMA PersistFailsInv ==
    ASSUME Inv, NEW p \in Process, PersistFails(p)
    PROVE  Inv'
<1>1. UNCHANGED <<mem, disk, current, txns, ok, sunk>>
  BY DEF PersistFails
<1>2. pc' = [pc EXCEPT ![p] = "idle"] /\ pc \in [Process -> Pc]
  BY DEF PersistFails, Goto, Inv, Typed
<1>3. Typed' /\ WritersHaveEvents'
  BY <1>1, <1>2 DEF Inv, Typed, Pc, WritersHaveEvents
<1>4. DispatchersKnow'
  BY <1>1, <1>2 DEF Inv, DispatchersKnow, Seen, Process
<1> QED
  BY <1>1, <1>3, <1>4 DEF Inv, Extends, SunkIsTyped, AnsweredDurable, MarkedWasSunk,
     SunkInOrder, Written

-----------------------------------------------------------------------------
(* A dispatcher *)

\* Everything before the first undelivered event is marked, so the sink has seen it.
LEMMA ReadInv ==
    ASSUME Inv, NEW d \in Dispatcher, Read(d)
    PROVE  Inv'
<1>1. UNCHANGED <<mem, disk, txns, ok, sunk>>
  BY DEF Read
<1>2. pc' = [pc EXCEPT ![d] = "sinking"] /\ pc \in [Process -> Pc] /\ d \in Process
  BY DEF Read, Goto, Inv, Typed, Process
<1>3. PICK i \in Undelivered : First(i) /\ current' = [current EXCEPT ![d] = i]
  BY DEF Read
<1>4. i \in DOMAIN mem /\ i \in Nat
  BY <1>3 DEF Undelivered, Inv, Typed
<1>5. \A j \in 1 .. (i - 1) : \E s \in sunk : s.seq = j
  <2> SUFFICES ASSUME NEW j \in 1 .. (i - 1) PROVE \E s \in sunk : s.seq = j
    OBVIOUS
  <2>1. j \in DOMAIN mem /\ j \notin Undelivered
    BY <1>3, <1>4 DEF First, Inv, Typed
  <2>2. [seq |-> j, txn |-> mem[j].txn] \in sunk
    BY <2>1 DEF Undelivered, Inv, MarkedWasSunk
  <2> QED BY <2>2
<1>6. Typed' /\ WritersHaveEvents'
  BY <1>1, <1>2, <1>3, <1>4 DEF Inv, Typed, Pc, WritersHaveEvents
<1>7. DispatchersKnow'
  BY <1>1, <1>2, <1>3, <1>4, <1>5 DEF Inv, Typed, DispatchersKnow, Seen, Process
<1> QED
  BY <1>1, <1>6, <1>7 DEF Inv, Extends, SunkIsTyped, AnsweredDurable, MarkedWasSunk,
     SunkInOrder, Written

\* The sink sees an event all of whose predecessors it has seen.
LEMMA SunkGrows ==
    ASSUME Inv, NEW d \in Dispatcher, pc[d] = "sinking", NEW label,
           label \in {"idle", "marking"},
           sunk' \in {sunk, sunk \cup {Seen(d)}}, Goto(d, label),
           label = "marking" => Seen(d) \in sunk',
           UNCHANGED <<mem, disk, current, txns, ok>>
    PROVE  Inv'
<1>1. pc' = [pc EXCEPT ![d] = label] /\ pc \in [Process -> Pc] /\ d \in Process
  BY DEF Goto, Inv, Typed, Process
<1>2. /\ current[d] \in DOMAIN mem /\ current[d] \in Nat
      /\ \A i \in 1 .. (current[d] - 1) : \E s \in sunk : s.seq = i
  BY DEF Inv, DispatchersKnow, Typed
<1>3. sunk \subseteq sunk' /\ \A e \in sunk' : e \in sunk \/ e = Seen(d)
  OBVIOUS
<1>4. Typed' /\ WritersHaveEvents'
  BY <1>1 DEF Inv, Typed, Pc, WritersHaveEvents
<1>5. DispatchersKnow'
  BY <1>1, <1>3 DEF Inv, DispatchersKnow, Seen, Process
<1>6. MarkedWasSunk'
  BY <1>3 DEF Inv, MarkedWasSunk
<1>7. SunkInOrder' /\ SunkIsTyped'
  <2>1. Seen(d).seq = current[d]
    BY DEF Seen
  <2>2. SunkIsTyped'
    BY <1>2, <1>3, <2>1 DEF Inv, SunkIsTyped
  <2>3. ASSUME NEW e \in sunk', NEW i \in 1 .. e.seq PROVE \E s \in sunk' : s.seq = i
    <3>1. CASE e \in sunk
      BY <1>3, <3>1 DEF Inv, SunkInOrder
    <3>2. CASE e = Seen(d)
      <4>1. i = e.seq \/ i \in 1 .. (current[d] - 1)
        BY <1>2, <2>1, <3>2
      <4> QED BY <1>2, <1>3, <4>1
    <3> QED BY <1>3, <3>1, <3>2
  <2> QED BY <2>2, <2>3 DEF SunkInOrder
<1> QED
  BY <1>4, <1>5, <1>6, <1>7 DEF Inv, Extends, AnsweredDurable, Written

LEMMA EventTxn ==
    ASSUME NEW e \in Event
    PROVE  e.txn \in Txn /\ e.txn \in Nat
<1>1. e.txn \in Txn
  BY DEF Event
<1> QED BY <1>1, BoundsAssumption DEF Txn

LEMMA EventMarked ==
    ASSUME NEW e \in Event
    PROVE  /\ [e EXCEPT !.delivered = TRUE] \in Event
           /\ [e EXCEPT !.delivered = TRUE].txn = e.txn
           /\ [e EXCEPT !.delivered = TRUE].delivered = TRUE
<1>1. [e EXCEPT !.delivered = TRUE] \in Event
  BY DEF Event
<1>2. [e EXCEPT !.delivered = TRUE].txn = e.txn
  BY DEF Event
<1>3. [e EXCEPT !.delivered = TRUE].delivered = TRUE
  BY DEF Event
<1> QED BY <1>1, <1>2, <1>3

\* The event keeps its place until it is marked; a failing mark is found in PersistFails.
LEMMA MarkDeliveredInv ==
    ASSUME Inv, NEW d \in Dispatcher, MarkDelivered(d)
    PROVE  Inv'
<1> DEFINE k == current[d]
<1>1. /\ k \in DOMAIN mem /\ Seen(d) \in sunk /\ mem \in Seq(Event)
      /\ mem' = [mem EXCEPT ![k].delivered = TRUE]
      /\ UNCHANGED <<disk, current, txns, ok, sunk>>
  BY DEF MarkDelivered, Swap, Inv, DispatchersKnow, Typed
<1>2. Seen(d) = [seq |-> k, txn |-> mem[k].txn]
  BY DEF Seen
<1> HIDE DEF k
<1>3. /\ mem' \in Seq(Event) /\ Len(mem') = Len(mem) /\ DOMAIN mem' = DOMAIN mem
      /\ \A i \in DOMAIN mem :
            /\ mem'[i].txn = mem[i].txn
            /\ mem'[i].delivered <=> (i = k \/ mem[i].delivered)
      /\ mem' # <<>>
  <2>1. /\ [mem[k] EXCEPT !.delivered = TRUE] \in Event
        /\ [mem[k] EXCEPT !.delivered = TRUE].txn = mem[k].txn
        /\ [mem[k] EXCEPT !.delivered = TRUE].delivered = TRUE
    BY <1>1, EventMarked
  <2>2. mem' = [mem EXCEPT ![k] = [mem[k] EXCEPT !.delivered = TRUE]]
    BY <1>1
  <2>3. mem' \in Seq(Event) /\ Len(mem') = Len(mem) /\ DOMAIN mem' = DOMAIN mem
    BY <1>1, <2>1, <2>2
  <2>4. mem'[k] = [mem[k] EXCEPT !.delivered = TRUE]
    BY <1>1, <2>2
  <2>5. \A i \in DOMAIN mem : i # k => mem'[i] = mem[i]
    BY <1>1, <2>2
  <2>6. mem' # <<>>
    BY <1>1, <2>3
  <2>7. ASSUME NEW i \in DOMAIN mem
        PROVE  mem'[i].txn = mem[i].txn /\ (mem'[i].delivered <=> (i = k \/ mem[i].delivered))
    <3>1. CASE i = k
      BY <2>1, <2>4, <3>1
    <3>2. CASE i # k
      BY <2>5, <3>2
    <3> QED BY <3>1, <3>2
  <2> QED BY <2>3, <2>6, <2>7
<1>4. pc' = [pc EXCEPT ![d] = "persisting"] /\ pc \in [Process -> Pc] /\ d \in Process
  BY DEF MarkDelivered, Swap, Goto, Inv, Typed, Process
<1>5. Typed'
  BY <1>1, <1>3, <1>4 DEF Inv, Typed, Pc
<1>6. Extends'
  BY <1>1, <1>3 DEF Inv, Typed, Extends
<1>7. WritersHaveEvents'
  BY <1>3 DEF WritersHaveEvents
<1>8. DispatchersKnow'
  <2>1. SUFFICES ASSUME NEW e \in Dispatcher, pc'[e] \in {"sinking", "marking"}
                 PROVE  /\ current'[e] \in DOMAIN mem'
                        /\ \A i \in 1 .. (current'[e] - 1) : \E s \in sunk' : s.seq = i
                        /\ pc'[e] = "marking" => Seen(e)' \in sunk'
    BY DEF DispatchersKnow
  <2>2. pc'[e] = pc[e] /\ current'[e] = current[e] /\ sunk' = sunk
    BY <1>1, <1>4, <2>1 DEF Process
  <2>3. /\ current[e] \in DOMAIN mem
        /\ \A i \in 1 .. (current[e] - 1) : \E s \in sunk : s.seq = i
        /\ pc[e] = "marking" => Seen(e) \in sunk
    BY <2>1, <2>2 DEF Inv, DispatchersKnow
  <2>4. Seen(e)' = Seen(e)
    BY <1>3, <2>2, <2>3 DEF Seen
  <2> QED BY <1>3, <2>2, <2>3, <2>4
<1>9. MarkedWasSunk'
  <2>1. \A i \in DOMAIN mem' :
           mem'[i].delivered => [seq |-> i, txn |-> mem'[i].txn] \in sunk'
    BY <1>1, <1>2, <1>3 DEF Inv, MarkedWasSunk
  <2>2. \A i \in DOMAIN disk' :
           disk'[i].delivered => [seq |-> i, txn |-> disk'[i].txn] \in sunk'
    BY <1>1 DEF Inv, MarkedWasSunk
  <2> QED BY <2>1, <2>2 DEF MarkedWasSunk
<1> QED
  BY <1>1, <1>5, <1>6, <1>7, <1>8, <1>9 DEF Inv, SunkIsTyped, AnsweredDurable,
     SunkInOrder, Written

-----------------------------------------------------------------------------
(* A crash: whatever the file is then, it says nothing that is not so *)

LEMMA CrashInv ==
    ASSUME Inv, Crash
    PROVE  Inv'
<1>1. /\ disk' \in {disk, mem} /\ mem' = disk' /\ UNCHANGED <<txns, ok, sunk>>
      /\ pc' = [p \in Process |-> "idle"] /\ current' = [d \in Dispatcher |-> 0]
  BY DEF Crash
<1>2. Typed' /\ Extends'
  BY <1>1 DEF Inv, Typed, Extends, Pc
<1>3. WritersHaveEvents' /\ DispatchersKnow'
  BY <1>1 DEF WritersHaveEvents, DispatchersKnow, Process
<1>4. MarkedWasSunk'
  BY <1>1 DEF Inv, MarkedWasSunk
<1>5. AnsweredDurable'
  <2>1. \A t \in ok : Written(t, disk) /\ Written(t, mem)
    BY DEF Inv, AnsweredDurable, Extends, Typed, Written
  <2> QED BY <1>1, <2>1 DEF AnsweredDurable, Written
<1> QED
  BY <1>1, <1>2, <1>3, <1>4, <1>5 DEF Inv, SunkIsTyped, SunkInOrder

-----------------------------------------------------------------------------
(* Every step *)

LEMMA NextInv == Inv /\ [Next]_vars => Inv'
<1> SUFFICES ASSUME Inv, [Next]_vars PROVE Inv'
  OBVIOUS
<1>1. CASE UNCHANGED vars
  BY <1>1 DEF vars, Inv, Typed, SunkIsTyped, Extends, WritersHaveEvents, DispatchersKnow,
     Seen, AnsweredDurable, MarkedWasSunk, SunkInOrder, Written
<1>2. ASSUME NEW c \in Client, Begin(c) PROVE Inv'
  BY <1>2, BeginInv
<1>3. ASSUME NEW p \in Process, Persist(p) \/ PersistFails(p) PROVE Inv'
  BY <1>3, PersistInv, PersistFailsInv
<1>4. ASSUME NEW d \in Dispatcher, Read(d) PROVE Inv'
  BY <1>4, ReadInv
<1>5. ASSUME NEW d \in Dispatcher, Sink(d) PROVE Inv'
  BY <1>5, SunkGrows DEF Sink, Pc
<1>6. ASSUME NEW d \in Dispatcher, SinkFails(d) PROVE Inv'
  BY <1>6, SunkGrows DEF SinkFails, Pc
<1>7. ASSUME NEW d \in Dispatcher, MarkDelivered(d) PROVE Inv'
  BY <1>7, MarkDeliveredInv
<1>8. CASE Crash
  BY <1>8, CrashInv
<1> QED BY <1>1, <1>2, <1>3, <1>4, <1>5, <1>6, <1>7, <1>8 DEF Next

-----------------------------------------------------------------------------
(* The refinement of Journal, as long as no write has failed *)

\* The memory is ahead of the file by the event of the client that holds the lock, and
\* by no other.
AheadByOwn ==
    /\ Len(mem) \in {Len(disk), Len(disk) + 1}
    /\ lock \notin Client => Len(mem) = Len(disk)

\* No transaction is in the outbox twice.
Distinct ==
    /\ \A i \in DOMAIN mem : mem[i].txn <= txns
    /\ \A i, j \in DOMAIN mem : mem[i].txn = mem[j].txn => i = j

\* A dispatcher works on an event that is in the file.
KnownIsWritten ==
    \A d \in Dispatcher : pc[d] \in {"sinking", "marking"} => current[d] <= Len(disk)

\* What the sink has seen is the front of the file.
SunkIsFront == \E n \in 0 .. Len(disk) : SunkSeqs = 1 .. n

Journaled == AheadByOwn /\ Distinct /\ KnownIsWritten /\ SunkIsFront

JournaledInv ==
    /\ Inv
    /\ failures \in Nat
    /\ failures = 0 => Journaled

LEMMA JournaledInit == Init => JournaledInv
<1> SUFFICES ASSUME Init PROVE JournaledInv
  OBVIOUS
<1>1. Len(mem) = 0 /\ Len(disk) = 0 /\ DOMAIN mem = {} /\ failures = 0
  BY DEF Init
<1>2. AheadByOwn /\ Distinct
  BY <1>1 DEF AheadByOwn, Distinct
<1>3. KnownIsWritten
  BY DEF Init, KnownIsWritten, Process
<1>4. SunkIsFront
  <2>1. SunkSeqs = {} /\ 1 .. 0 = {}
    BY DEF Init, SunkSeqs
  <2> QED BY <1>1, <2>1 DEF SunkIsFront
<1> QED BY <1>1, <1>2, <1>3, <1>4, InitInv DEF JournaledInv, Journaled

LEMMA BeginJournaled ==
    ASSUME Inv, Journaled, NEW c \in Client, Begin(c)
    PROVE  Journaled'
<1> DEFINE event == [txn |-> txns + 1, delivered |-> FALSE]
<1>1. /\ mem' = Append(mem, event) /\ txns' = txns + 1 /\ txns \in Nat
      /\ lock = Free /\ lock' = c /\ UNCHANGED <<disk, current, sunk>>
      /\ mem \in Seq(Event) /\ Len(mem) \in Nat /\ DOMAIN mem = 1 .. Len(mem)
  BY BoundsAssumption DEF Begin, Swap, Inv, Typed
<1>2. event.txn = txns + 1 /\ event \in Event
  BY BoundsAssumption DEF Begin, Inv, Typed, Event, Txn
<1> HIDE DEF event
<1>3. /\ Len(mem') = Len(mem) + 1 /\ DOMAIN mem' = 1 .. (Len(mem) + 1)
      /\ \A i \in 1 .. Len(mem) : mem'[i] = mem[i]
      /\ mem'[Len(mem) + 1] = event
  BY <1>1, <1>2
<1>4. AheadByOwn'
  BY <1>1, <1>3, ProcessAssumption DEF Journaled, AheadByOwn, Process
<1>5. Distinct'
  <2>1. \A i \in DOMAIN mem : mem[i].txn \in Nat
    BY <1>1, EventTxn
  <2>2. \A i \in DOMAIN mem' : (i \in DOMAIN mem /\ mem'[i] = mem[i]) \/ i = Len(mem) + 1
    BY <1>1, <1>3
  <2> QED BY <1>1, <1>2, <1>3, <2>1, <2>2 DEF Journaled, Distinct
<1>6. KnownIsWritten'
  <2>1. pc' = [pc EXCEPT ![c] = "persisting"] /\ c \notin Dispatcher /\ pc \in [Process -> Pc]
    BY ProcessAssumption DEF Begin, Swap, Goto, Inv, Typed
  <2> QED BY <1>1, <2>1 DEF Journaled, KnownIsWritten, Process
<1>7. SunkIsFront'
  BY <1>1 DEF Journaled, SunkIsFront, SunkSeqs
<1> QED BY <1>4, <1>5, <1>6, <1>7 DEF Journaled

LEMMA PersistJournaled ==
    ASSUME Inv, Journaled, NEW p \in Process, Persist(p)
    PROVE  Journaled'
<1>1. /\ disk' = mem /\ lock' = Free /\ UNCHANGED <<mem, current, txns, sunk>>
      /\ Len(disk) \in Nat /\ Len(mem) \in Nat /\ Len(disk) <= Len(mem)
      /\ pc' = [pc EXCEPT ![p] = "idle"] /\ pc \in [Process -> Pc]
  BY DEF Persist, Goto, Inv, Typed, Extends
<1>2. AheadByOwn' /\ Distinct'
  BY <1>1 DEF Journaled, AheadByOwn, Distinct
<1>3. KnownIsWritten'
  <2>1. \A d \in Dispatcher : current[d] \in Nat
    BY DEF Inv, Typed
  <2> QED BY <1>1, <2>1 DEF Journaled, KnownIsWritten, Process
<1>4. SunkIsFront'
  BY <1>1 DEF Journaled, SunkIsFront, SunkSeqs
<1> QED BY <1>2, <1>3, <1>4 DEF Journaled

\* A dispatcher reads under the lock, and then the memory is what the file is.
LEMMA ReadJournaled ==
    ASSUME Inv, Journaled, NEW d \in Dispatcher, Read(d)
    PROVE  Journaled'
<1>1. UNCHANGED <<mem, disk, lock, txns, sunk>> /\ lock = Free
  BY DEF Read
<1>2. PICK i \in Undelivered : current' = [current EXCEPT ![d] = i]
  BY DEF Read
<1>3. i <= Len(disk)
  <2>1. i \in DOMAIN mem /\ Len(mem) = Len(disk)
    BY <1>1, ProcessAssumption DEF Undelivered, Journaled, AheadByOwn, Process
  <2> QED BY <2>1 DEF Inv, Typed
<1>4. pc' = [pc EXCEPT ![d] = "sinking"] /\ current \in [Dispatcher -> Nat] /\ pc \in [Process -> Pc]
  BY DEF Read, Goto, Inv, Typed
<1>5. KnownIsWritten'
  BY <1>1, <1>2, <1>3, <1>4 DEF Journaled, KnownIsWritten, Process
<1> QED
  BY <1>1, <1>5 DEF Journaled, AheadByOwn, Distinct, SunkIsFront, SunkSeqs

\* What the sink sees is what it has seen, or the next entry of the file.
LEMMA SunkMoves ==
    ASSUME Inv, Journaled, NEW d \in Dispatcher, pc[d] = "sinking",
           sunk' \in {sunk, sunk \cup {Seen(d)}}, UNCHANGED disk
    PROVE  /\ Cardinality(SunkSeqs) \in Nat
           /\ \/ SunkSeqs' = SunkSeqs
              \/ /\ Cardinality(SunkSeqs) < Len(disk)
                 /\ Cardinality(SunkSeqs)' = Cardinality(SunkSeqs) + 1
           /\ SunkIsFront'
<1>1. PICK n \in 0 .. Len(disk) : SunkSeqs = 1 .. n
  BY DEF Journaled, SunkIsFront
<1>2. Len(disk) \in Nat /\ n \in Nat
  BY DEF Inv, Typed
<1>3. Cardinality(SunkSeqs) = n
  BY <1>1, <1>2, FS_Interval
<1>4. /\ current[d] \in Nat /\ current[d] >= 1 /\ current[d] <= Len(disk)
      /\ Seen(d).seq = current[d]
      /\ \A i \in 1 .. (current[d] - 1) : i \in SunkSeqs
  <2>1. current[d] \in DOMAIN mem /\ mem \in Seq(Event)
    BY DEF Inv, DispatchersKnow, Typed
  <2>2. current[d] <= Len(disk)
    BY DEF Journaled, KnownIsWritten
  <2>3. \A i \in 1 .. (current[d] - 1) : i \in SunkSeqs
    BY DEF Inv, DispatchersKnow, SunkSeqs
  <2> QED BY <2>1, <2>2, <2>3 DEF Seen
<1>5. current[d] <= n + 1
  <2>1. ASSUME current[d] > n + 1 PROVE FALSE
    <3>1. n + 1 \in 1 .. (current[d] - 1)
      BY <1>2, <1>4, <2>1
    <3>2. n + 1 \in 1 .. n
      BY <1>1, <1>4, <3>1
    <3> QED BY <1>2, <3>2
  <2> QED BY <1>2, <1>4, <2>1
<1>6. CASE SunkSeqs' = SunkSeqs
  BY <1>1, <1>2, <1>3, <1>6 DEF SunkIsFront
<1>7. CASE SunkSeqs' # SunkSeqs
  <2>1. SunkSeqs' = SunkSeqs \cup {current[d]}
    BY <1>4, <1>7 DEF SunkSeqs
  <2>2. current[d] = n + 1
    BY <1>1, <1>2, <1>4, <1>5, <1>7, <2>1
  <2>3. SunkSeqs' = 1 .. (n + 1)
    BY <1>1, <1>2, <2>1, <2>2
  <2>4. Cardinality(SunkSeqs') = n + 1
    BY <1>2, <2>3, FS_Interval
  <2>5. n + 1 \in 0 .. Len(disk')
    BY <1>2, <1>4, <2>2
  <2> QED BY <1>2, <1>3, <1>4, <2>2, <2>3, <2>4, <2>5 DEF SunkIsFront
<1> QED BY <1>6, <1>7

LEMMA SunkJournaled ==
    ASSUME Inv, Journaled, NEW d \in Dispatcher, Sink(d) \/ SinkFails(d)
    PROVE  Journaled'
<1>1. /\ pc[d] = "sinking" /\ sunk' \in {sunk, sunk \cup {Seen(d)}}
      /\ UNCHANGED <<mem, disk, lock, current, txns>>
      /\ pc' = [pc EXCEPT ![d] = "marking"] \/ pc' = [pc EXCEPT ![d] = "idle"]
  BY DEF Sink, SinkFails, Goto
<1>2. SunkIsFront'
  BY <1>1, SunkMoves
<1>3. KnownIsWritten'
  <2>1. \A e \in Dispatcher : e \in Process /\ pc \in [Process -> Pc]
    BY DEF Inv, Typed, Process
  <2> QED BY <1>1, <2>1 DEF Journaled, KnownIsWritten
<1> QED BY <1>1, <1>2, <1>3 DEF Journaled, AheadByOwn, Distinct

\* Marking adds no event and moves none.
LEMMA MarkDeliveredJournaled ==
    ASSUME Inv, Journaled, NEW d \in Dispatcher, MarkDelivered(d)
    PROVE  Journaled'
<1>1. /\ lock = Free /\ lock' = d /\ UNCHANGED <<disk, current, txns, sunk>>
      /\ pc' = [pc EXCEPT ![d] = "persisting"] /\ pc \in [Process -> Pc]
      /\ d \notin Client
  BY ProcessAssumption DEF MarkDelivered, Swap, Goto, Inv, Typed
<1>2. /\ mem' = [mem EXCEPT ![current[d]] = [mem[current[d]] EXCEPT !.delivered = TRUE]]
      /\ current[d] \in DOMAIN mem /\ mem[current[d]] \in Event /\ mem \in Seq(Event)
  BY DEF MarkDelivered, Swap, Inv, Typed, DispatchersKnow
<1>3. [mem[current[d]] EXCEPT !.delivered = TRUE].txn = mem[current[d]].txn
  BY <1>2, EventMarked
<1>4. Len(mem') = Len(mem) /\ DOMAIN mem' = DOMAIN mem
  BY <1>2
<1>5. \A i \in DOMAIN mem : mem'[i].txn = mem[i].txn
  BY <1>2, <1>3
<1>6. AheadByOwn'
  BY <1>1, <1>4, ProcessAssumption DEF Journaled, AheadByOwn, Process
<1>7. Distinct'
  BY <1>1, <1>4, <1>5 DEF Journaled, Distinct
<1>8. KnownIsWritten'
  BY <1>1 DEF Journaled, KnownIsWritten, Process
<1> QED BY <1>1, <1>6, <1>7, <1>8 DEF Journaled, SunkIsFront, SunkSeqs

LEMMA CrashJournaled ==
    ASSUME Inv, Journaled, Crash
    PROVE  Journaled'
<1>1. /\ disk' \in {disk, mem} /\ mem' = disk' /\ UNCHANGED <<txns, sunk>>
      /\ pc' = [p \in Process |-> "idle"]
  BY DEF Crash
<1>2. Len(disk) \in Nat /\ Len(mem) \in Nat /\ Len(disk) <= Len(mem)
  BY DEF Inv, Typed, Extends
<1>3. AheadByOwn'
  BY <1>1, <1>2 DEF AheadByOwn
<1>4. Distinct'
  <2>1. \A i \in DOMAIN disk : i \in DOMAIN mem /\ disk[i].txn = mem[i].txn
    BY DEF Inv, Typed, Extends
  <2>2. \A i, j \in DOMAIN disk : disk[i].txn = disk[j].txn => i = j
    BY <2>1 DEF Journaled, Distinct
  <2>3. \A i \in DOMAIN disk : disk[i].txn <= txns
    BY <2>1 DEF Journaled, Distinct
  <2> QED BY <1>1, <2>2, <2>3 DEF Journaled, Distinct
<1>5. KnownIsWritten'
  BY <1>1 DEF KnownIsWritten, Process
<1>6. SunkIsFront'
  BY <1>1, <1>2 DEF Journaled, SunkIsFront, SunkSeqs
<1> QED BY <1>3, <1>4, <1>5, <1>6 DEF Journaled

LEMMA NextJournaled == JournaledInv /\ [Next]_vars => JournaledInv'
<1> SUFFICES ASSUME JournaledInv, [Next]_vars PROVE JournaledInv'
  OBVIOUS
<1>1. Inv /\ Inv'
  BY NextInv DEF JournaledInv
<1>2. failures' \in Nat /\ (failures' = 0 => failures = 0 /\ UNCHANGED failures)
  <2>1. failures \in Nat /\ (failures' = failures \/ failures' = failures + 1)
    BY DEF JournaledInv, Next, vars, Begin, Persist, PersistFails, Read, Sink, SinkFails,
       MarkDelivered, Crash
  <2> QED BY <2>1
<1>3. ASSUME failures' = 0 PROVE Journaled'
  <2>1. Journaled /\ failures = 0
    BY <1>2, <1>3 DEF JournaledInv
  <2>2. CASE UNCHANGED vars
    BY <2>1, <2>2 DEF vars, Journaled, AheadByOwn, Distinct, KnownIsWritten, SunkIsFront,
       SunkSeqs
  <2>3. ASSUME NEW c \in Client, Begin(c) PROVE Journaled'
    BY <1>1, <2>1, <2>3, BeginJournaled
  <2>4. ASSUME NEW p \in Process, Persist(p) PROVE Journaled'
    BY <1>1, <2>1, <2>4, PersistJournaled
  <2>5. ASSUME NEW p \in Process PROVE ~PersistFails(p)
    BY <1>3, <2>1 DEF PersistFails
  <2>6. ASSUME NEW d \in Dispatcher, Read(d) PROVE Journaled'
    BY <1>1, <2>1, <2>6, ReadJournaled
  <2>7. ASSUME NEW d \in Dispatcher, Sink(d) \/ SinkFails(d) PROVE Journaled'
    BY <1>1, <2>1, <2>7, SunkJournaled
  <2>8. ASSUME NEW d \in Dispatcher, MarkDelivered(d) PROVE Journaled'
    BY <1>1, <2>1, <2>8, MarkDeliveredJournaled
  <2>9. CASE Crash
    BY <1>1, <2>1, <2>9, CrashJournaled
  <2> QED
    BY <2>2, <2>3, <2>4, <2>5, <2>6, <2>7, <2>8, <2>9 DEF Next
<1> QED BY <1>1, <1>2, <1>3 DEF JournaledInv

\* The file is replaced by one that holds the same log, or one more transaction.
LEMMA LogStep ==
    ASSUME Inv, Journaled, disk' = mem
    PROVE  \/ Logged' = Logged
           \/ \E t \in Txn : /\ \A i \in DOMAIN Logged : Logged[i] # t
                             /\ Logged' = Append(Logged, t)
<1>1. /\ mem \in Seq(Event) /\ disk \in Seq(Event)
      /\ Len(mem) \in Nat /\ Len(disk) \in Nat
      /\ DOMAIN mem = 1 .. Len(mem) /\ DOMAIN disk = 1 .. Len(disk)
      /\ Len(mem) \in {Len(disk), Len(disk) + 1}
      /\ \A i \in 1 .. Len(disk) : disk[i].txn = mem[i].txn
  BY DEF Inv, Typed, Extends, Journaled, AheadByOwn
<1>2. /\ Logged = [i \in 1 .. Len(disk) |-> mem[i].txn]
      /\ Logged' = [i \in 1 .. Len(mem) |-> mem[i].txn]
  BY <1>1 DEF Logged
<1>3. CASE Len(mem) = Len(disk)
  BY <1>2, <1>3
<1>4. \A i \in 1 .. Len(mem) : mem[i].txn \in Txn
  <2>1. mem \in Seq(Event)
    BY <1>1
  <2>2. \A i \in 1 .. Len(mem) : mem[i] \in Event
    BY <2>1
  <2> QED BY <2>2, EventTxn
<1>5. CASE Len(mem) = Len(disk) + 1
  <2> DEFINE n == Len(mem)
             t == mem[n].txn
  <2>1. n \in 1 .. Len(mem)
    BY <1>1, <1>5
  <2>2. t \in Txn
    BY <1>4, <2>1
  <2>3. \A i \in DOMAIN Logged : Logged[i] # t
    <3>1. \A i \in DOMAIN Logged : i \in DOMAIN mem /\ i # n /\ Logged[i] = mem[i].txn
      BY <1>1, <1>2, <1>5
    <3>2. \A i \in DOMAIN mem : mem[i].txn = mem[n].txn => i = n
      BY <1>1, <2>1 DEF Journaled, Distinct
    <3> QED BY <3>1, <3>2
  <2>4. Logged' = Append(Logged, t)
    <3>2. Logged \in Seq(Txn) /\ Len(Logged) = Len(disk)
      BY <1>1, <1>2, <1>5, <1>4
    <3>3. Append(Logged, t) = [i \in 1 .. (Len(Logged) + 1) |->
                                  IF i = Len(Logged) + 1 THEN t ELSE Logged[i]]
      BY <2>2, <3>2
    <3>4. \A i \in 1 .. n : i = n \/ (i \in 1 .. Len(disk) /\ Logged[i] = mem[i].txn)
      BY <1>1, <1>2, <1>5
    <3> QED BY <1>1, <1>2, <1>5, <3>2, <3>3, <3>4
  <2> QED BY <2>2, <2>3, <2>4
<1> QED BY <1>1, <1>3, <1>5

LEMMA JournalInit == Init => J!JournalInit
<1> SUFFICES ASSUME Init PROVE J!JournalInit
  OBVIOUS
<1>1. Logged = <<>>
  BY DEF Init, Logged
<1>2. SunkSeqs = {}
  BY DEF Init, SunkSeqs
<1> QED BY <1>1, <1>2, FS_EmptySet DEF J!JournalInit

\* Each step of the store is a commit, a delivery or nothing at all to the journal.
LEMMA JournalStep ==
    ASSUME JournaledInv, failures = 0, [Next]_vars
    PROVE  [J!Deliver \/ \E t \in Txn : J!Commit(t)]_<<Logged, Cardinality(SunkSeqs)>>
<1>1. Inv /\ Journaled
  BY DEF JournaledInv
<1> DEFINE Step == [J!Deliver \/ \E t \in Txn : J!Commit(t)]_<<Logged, Cardinality(SunkSeqs)>>
<1>2. ASSUME UNCHANGED <<disk, sunk>> PROVE Step
  BY <1>2 DEF Logged, SunkSeqs
<1>3. ASSUME disk' = mem, UNCHANGED sunk PROVE Step
  <2>1. UNCHANGED Cardinality(SunkSeqs)
    BY <1>3 DEF SunkSeqs
  <2>2. CASE Logged' = Logged
    BY <2>1, <2>2
  <2>3. CASE \E t \in Txn : /\ \A i \in DOMAIN Logged : Logged[i] # t
                            /\ Logged' = Append(Logged, t)
    BY <2>1, <2>3 DEF J!Commit
  <2> QED BY <1>1, <1>3, <2>2, <2>3, LogStep
<1>4. ASSUME NEW d \in Dispatcher, Sink(d) \/ SinkFails(d) PROVE Step
  <2>1. /\ pc[d] = "sinking" /\ sunk' \in {sunk, sunk \cup {Seen(d)}}
        /\ UNCHANGED disk
    BY <1>4 DEF Sink, SinkFails
  <2>2. UNCHANGED Logged /\ Len(Logged) = Len(disk)
    BY <1>1, <2>1 DEF Logged, Inv, Typed
  <2>3. CASE SunkSeqs' = SunkSeqs
    BY <2>2, <2>3
  <2>4. CASE /\ Cardinality(SunkSeqs) < Len(disk)
             /\ Cardinality(SunkSeqs)' = Cardinality(SunkSeqs) + 1
    BY <2>2, <2>4 DEF J!Deliver
  <2> QED BY <1>1, <2>1, <2>3, <2>4, SunkMoves
<1>5. ASSUME NEW c \in Client, Begin(c) PROVE Step
  BY <1>2, <1>5 DEF Begin
<1>6. ASSUME NEW p \in Process, Persist(p) \/ PersistFails(p) PROVE Step
  BY <1>2, <1>3, <1>6 DEF Persist, PersistFails
<1>7. ASSUME NEW d \in Dispatcher, Read(d) \/ MarkDelivered(d) PROVE Step
  BY <1>2, <1>7 DEF Read, MarkDelivered
<1>8. ASSUME Crash PROVE Step
  BY <1>2, <1>3, <1>8 DEF Crash
<1>9. ASSUME UNCHANGED vars PROVE Step
  BY <1>2, <1>9 DEF vars
<1>10. Step
  <2> HIDE DEF Step
  <2> QED BY <1>4, <1>5, <1>6, <1>7, <1>8, <1>9 DEF Next
<1> QED BY <1>10

-----------------------------------------------------------------------------
(* The theorems *)

\* Whatever fails or crashes, and for any number of callers: a transaction that was
\* answered without an error is in the state file (MemoryStore.mutate).
THEOREM Durable == Spec => []AnsweredDurable
<1>1. Inv => AnsweredDurable
  BY DEF Inv
<1> QED BY InitInv, NextInv, <1>1, PTL DEF Spec

\* For any number of dispatchers: no event is marked as delivered, in memory or in the
\* file, that the sink has not seen (DispatchOutbox, MarkDelivered).
THEOREM DeliveredAtLeastOnce == Spec => []MarkedWasSunk
<1>1. Inv => MarkedWasSunk
  BY DEF Inv
<1> QED BY InitInv, NextInv, <1>1, PTL DEF Spec

\* For any number of dispatchers, failures and crashes: the sink sees the events for the
\* first time in the order in which they were written (DispatchOutbox).
THEOREM DeliveredInOrder == Spec => []SunkInOrder
<1>1. Inv => SunkInOrder
  BY DEF Inv
<1> QED BY InitInv, NextInv, <1>1, PTL DEF Spec

\* For any number of clients, dispatchers and crashes, as long as every write of the file
\* succeeds: the file is an append-only log that commits one transaction at a time and
\* none twice, and the sink follows it from the front (MemoryStore.mutate, NewFileStore,
\* DispatchOutbox).
THEOREM StoreImplementsJournal == Spec /\ [](failures = 0) => ImplementsJournal
<1>1. Spec => []JournaledInv
  BY JournaledInit, NextJournaled, PTL DEF Spec
<1>2. Init => J!JournalInit
  BY JournalInit
<1>3. JournaledInv /\ failures = 0 /\ [Next]_vars
      => [J!Deliver \/ \E t \in Txn : J!Commit(t)]_<<Logged, Cardinality(SunkSeqs)>>
  BY JournalStep
<1> QED
  BY <1>1, <1>2, <1>3, PTL DEF Spec, ImplementsJournal, J!JournalSpec
=============================================================================
