------------------------------- MODULE RwLock -------------------------------
(***************************************************************************)
(* The reader/writer lock of src/std/sync/rwlock.mc: an atomic count of    *)
(* readers and a gate, which is the ticket lock of module Spinlock with    *)
(* all of its steps.  A thread leaves what it entered before it calls      *)
(* again.                                                                  *)
(***************************************************************************)
EXTENDS Naturals, FiniteSets

CONSTANTS Threads, Width, MaxCalls

VARIABLES next_ticket, now_serving, pc, ticket, cur, calls,   \* the gate
          readers,
          rw   \* out; rlock, registered (in read_lock), reading;
               \* wlock (in write_lock), writing

Gate == INSTANCE Spinlock

ASSUME RwLockAssumption == Gate!SpinlockAssumption /\ Cardinality(Threads) < Width

gate == <<next_ticket, now_serving, pc, ticket, cur, calls>>
vars == <<gate, readers, rw>>

Goto(t, label) == rw' = [rw EXCEPT ![t] = label]

\* rwlock_init, or zero-initialized storage.
Init ==
    /\ Gate!Init
    /\ readers = 0
    /\ rw = [t \in Threads |-> "out"]

\* read_lock and write_lock start alike, by drawing a ticket of the gate.
Call(t) ==
    /\ rw[t] = "out"
    /\ Gate!Draw(t)
    /\ Goto(t, "rlock") \/ Goto(t, "wlock")
    /\ UNCHANGED readers

WaitAtGate(t) == Gate!Poll(t) /\ UNCHANGED <<readers, rw>>

\* Mutant of Register: the reader counts itself before it has the gate.
RegisterBeforeGate(t) ==
    /\ rw[t] = "rlock"
    /\ readers' = Gate!Wrap(readers)
    /\ Goto(t, "registered")
    /\ UNCHANGED gate

\* read_lock: readers.fetch_add(1), with the gate held.
Register(t) ==
    /\ rw[t] = "rlock" /\ pc[t] = "critical"
    /\ readers' = Gate!Wrap(readers)
    /\ Goto(t, "registered")
    /\ UNCHANGED gate

\* Mutant of Drain: the test of the loop is off by one.
DrainUntilOne(t) ==
    /\ rw[t] = "wlock" /\ pc[t] = "critical"
    /\ IF readers <= 1 THEN Goto(t, "writing") ELSE rw' = rw
    /\ UNCHANGED <<gate, readers>>

\* write_lock: one turn of the loop that waits for the readers to leave.
Drain(t) ==
    /\ rw[t] = "wlock" /\ pc[t] = "critical"
    /\ IF readers = 0 THEN Goto(t, "writing") ELSE rw' = rw
    /\ UNCHANGED <<gate, readers>>

\* spin_unlock of the gate, the end of read_lock and all of write_unlock.
\* A trap leaves the thread where it is.
OpenGate(t) ==
    /\ rw[t] \in {"registered", "writing"}
    /\ \/ Gate!UnlockLoad(t) /\ rw' = rw
       \/ /\ Gate!UnlockStore(t)
          /\ IF pc'[t] = "trapped" THEN rw' = rw
             ELSE Goto(t, IF rw[t] = "writing" THEN "out" ELSE "reading")
    /\ UNCHANGED readers

\* Mutant of ReadUnlock: the decrement is lost.
ReadUnlockLost(t) ==
    /\ rw[t] = "reading"
    /\ Goto(t, "out")
    /\ UNCHANGED <<gate, readers>>

\* read_unlock: readers.fetch_sub(1).
ReadUnlock(t) ==
    /\ rw[t] = "reading"
    /\ readers' = IF readers = 0 THEN Width - 1 ELSE readers - 1
    /\ Goto(t, "out")
    /\ UNCHANGED gate

Continue(t) ==
    \/ WaitAtGate(t) \/ Register(t) \/ Drain(t) \/ OpenGate(t) \/ ReadUnlock(t)

Next == \E t \in Threads : Call(t) \/ Continue(t)

Spec == Init /\ [][Next]_vars

\* Threads that are in a call go on, and readers and writers leave.
FairSpec == Spec /\ \A t \in Threads : WF_vars(Continue(t))

----------------------------------------------------------------------------
(* Properties.                                                             *)

\* The threads the count stands for.
Registered == {t \in Threads : rw[t] \in {"registered", "reading"}}

(***************************************************************************)
(* "A writer is exclusive against both other writers and new readers" and  *)
(* against the readers that were already inside.                           *)
(***************************************************************************)
WriterExclusive ==
    \A t, u \in Threads :
        (rw[t] = "writing" /\ t # u) => rw[u] \notin {"registered", "reading", "writing"}

(***************************************************************************)
(* The reader count is the number of threads between the fetch_add of      *)
(* read_lock and the fetch_sub of read_unlock, whatever the interleaving.  *)
(***************************************************************************)
ReadersCounted == readers = Cardinality(Registered)

(***************************************************************************)
(* A writer that has the gate is not overtaken: no reader is let in while  *)
(* write_lock drains the ones inside.                                      *)
(***************************************************************************)
NoReaderPassesWriter ==
    [][(\E t \in Threads : rw[t] = "wlock" /\ pc[t] = "critical") =>
          Registered' \subseteq Registered]_vars

\* The gate's counter is exhausted: spin_unlock has trapped.
GateTrapped == \E t \in Threads : pc[t] = "trapped"

(***************************************************************************)
(* Every read_lock and every write_lock returns, while the gate lasts:     *)
(* readers, which need the gate to enter, and the writer, which holds it   *)
(* while it waits for them to leave, never wait for each other.            *)
(***************************************************************************)
EveryCallReturns ==
    \A t \in Threads : /\ rw[t] = "rlock" ~> (rw[t] = "reading" \/ GateTrapped)
                       /\ rw[t] = "wlock" ~> (rw[t] = "writing" \/ GateTrapped)
============================================================================
