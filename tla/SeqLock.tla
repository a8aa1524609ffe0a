------------------------------- MODULE SeqLock -------------------------------
(***************************************************************************)
(* The sequence lock of src/std/sync/seqlock.mc, used the way its header   *)
(* prescribes: writers serialized by a gate (the ticket lock of module     *)
(* Spinlock) bump the sequence to odd, write the data and bump it to even; *)
(* readers copy the data between two loads of the sequence.                *)
(*                                                                         *)
(* The protected data are two words; every write adds one to each, so a    *)
(* copy is consistent when both words are equal.  They are ordinary        *)
(* memory, ordered only by the accesses to the sequence, and an access may *)
(* pass what acquire loads and release stores let it pass: the data stores *)
(* of a write may pass the release store of the odd sequence before them,  *)
(* the acquire load that ends a read the data loads before it.  A machine  *)
(* that keeps the program order is the case in which neither happens.      *)
(***************************************************************************)
EXTENDS Naturals, FiniteSets

CONSTANTS Threads,   \* the writers
          Readers,
          Width, MaxCalls

VARIABLES next_ticket, now_serving, pc, ticket, cur, calls,   \* the gate
          seq,
          data,       \* the two words
          w,          \* where each writer is
          loaded,     \* `cur` of seq_write_begin and seq_write_end
          written,    \* words stored by the write in progress
          r,          \* where each reader is
          start,      \* what seq_read_begin returned
          copy,       \* words copied: Words -> values, or partly
          check,      \* what seq_read_retry loaded, or NotLoaded
          reordered   \* history: the readers whose copy met an access out of
                      \* program order, the writer's or their own

Gate == INSTANCE Spinlock

\* Width is 2^32, and an even one in any instance: it is at an odd sequence,
\* in seq_write_end, that the checked addition traps.
ASSUME SeqLockAssumption ==
    /\ Gate!SpinlockAssumption
    /\ Width % 2 = 0

Words == {1, 2}
NotLoaded == Width

gate == <<next_ticket, now_serving, pc, ticket, cur, calls>>
writer == <<w, loaded, written>>
reader == <<r, start, copy, check, reordered>>
vars == <<gate, seq, data, writer, reader>>

IsOdd(n) == n % 2 = 1

\* A writer has stored words that its odd sequence does not announce yet.
StoredEarly == \E t \in Threads : w[t] = "odd" /\ written[t] # {}

\* seqlock_init, or zero-initialized storage.
Init ==
    /\ Gate!Init
    /\ seq = 0
    /\ data = [i \in Words |-> 0]
    /\ w = [t \in Threads |-> "out"]
    /\ loaded = [t \in Threads |-> 0]
    /\ written = [t \in Threads |-> {}]
    /\ r = [q \in Readers |-> "out"]
    /\ start = [q \in Readers |-> 0]
    /\ copy = [q \in Readers |-> << >>]
    /\ check = [q \in Readers |-> NotLoaded]
    /\ reordered = {}

----------------------------------------------------------------------------
(* Writers.                                                                *)

\* seq_write_begin: spin_lock of the gate.
WriteCall(t) ==
    /\ w[t] = "out"
    /\ Gate!Draw(t)
    /\ w' = [w EXCEPT ![t] = "gate"]
    /\ UNCHANGED <<seq, data, loaded, written, reader>>

WaitAtGate(t) ==
    /\ Gate!Poll(t)
    /\ w' = [w EXCEPT ![t] = IF pc'[t] = "critical" THEN "begin" ELSE @]
    /\ UNCHANGED <<seq, data, loaded, written, reader>>

\* The load of seq_write_begin and of seq_write_end.
LoadSeq(t) ==
    /\ \/ w[t] = "begin" /\ w' = [w EXCEPT ![t] = "odd"]
       \/ /\ w[t] = "body" /\ written[t] = Words
          /\ w' = [w EXCEPT ![t] = "even"]
    /\ loaded' = [loaded EXCEPT ![t] = seq]
    /\ UNCHANGED <<gate, seq, data, written, reader>>

\* Mutant of StoreSeq: seq_write_begin does not bump the sequence.
StoreSeqAtEndOnly(t) ==
    /\ w[t] \in {"odd", "even"}
    /\ IF w[t] = "even"
       THEN seq' = loaded[t] + 1 /\ w' = [w EXCEPT ![t] = "open"]
       ELSE UNCHANGED seq /\ w' = [w EXCEPT ![t] = "body"]
    /\ UNCHANGED <<gate, data, loaded, written, reader>>

\* The checked store of loaded + 1: odd on entry, even on exit.
StoreSeq(t) ==
    /\ w[t] \in {"odd", "even"}
    /\ IF loaded[t] = Width - 1
       THEN UNCHANGED seq /\ w' = [w EXCEPT ![t] = "trapped"]
       ELSE /\ seq' = loaded[t] + 1
            /\ w' = [w EXCEPT ![t] = IF @ = "odd" THEN "body" ELSE "open"]
    /\ UNCHANGED <<gate, data, loaded, written, reader>>

\* The caller's store to a protected word.  A release store orders the
\* accesses before it, not this one after it.
StoreWord(t, i) ==
    /\ w[t] \in {"odd", "body"}
    /\ i \notin written[t]
    /\ data' = [data EXCEPT ![i] = @ + 1]
    /\ written' = [written EXCEPT ![t] = @ \cup {i}]
    /\ reordered' = IF w[t] = "odd" THEN reordered \cup {q \in Readers : r[q] = "copying"}
                                    ELSE reordered
    /\ UNCHANGED <<gate, seq, w, loaded, r, start, copy, check>>

\* seq_write_end: spin_unlock of the gate.
OpenGate(t) ==
    /\ w[t] = "open"
    /\ \/ Gate!UnlockLoad(t) /\ UNCHANGED <<w, written>>
       \/ /\ Gate!UnlockStore(t)
          /\ w' = [w EXCEPT ![t] = IF pc'[t] = "trapped" THEN "trapped" ELSE "out"]
          /\ written' = [written EXCEPT ![t] = {}]
    /\ UNCHANGED <<seq, data, loaded, reader>>

----------------------------------------------------------------------------
(* Readers.                                                                *)

ReadCall(q) ==
    /\ r[q] \in {"out", "accepted"}
    /\ r' = [r EXCEPT ![q] = "begin"]
    /\ UNCHANGED <<gate, seq, data, writer, start, copy, check, reordered>>

\* Mutant of ReadBegin: does not wait for an even sequence.
ReadBeginAnyway(q) ==
    /\ r[q] = "begin"
    /\ r' = [r EXCEPT ![q] = "copying"]
    /\ start' = [start EXCEPT ![q] = seq]
    /\ reordered' = IF StoredEarly THEN reordered \cup {q} ELSE reordered \ {q}
    /\ copy' = [copy EXCEPT ![q] = << >>]
    /\ check' = [check EXCEPT ![q] = NotLoaded]
    /\ UNCHANGED <<gate, seq, data, writer>>

\* seq_read_begin: one turn of the loop.
ReadBegin(q) ==
    /\ r[q] = "begin"
    /\ IF IsOdd(seq) THEN UNCHANGED <<r, start, reordered>>
       ELSE /\ r' = [r EXCEPT ![q] = "copying"]
            /\ start' = [start EXCEPT ![q] = seq]
            /\ reordered' = IF StoredEarly THEN reordered \cup {q} ELSE reordered \ {q}
    /\ copy' = [copy EXCEPT ![q] = << >>]
    /\ check' = [check EXCEPT ![q] = NotLoaded]
    /\ UNCHANGED <<gate, seq, data, writer>>

\* The caller's load of a protected word.
LoadWord(q, i) ==
    /\ r[q] = "copying"
    /\ i \notin DOMAIN copy[q]
    /\ copy' = [copy EXCEPT ![q] =
                   [j \in DOMAIN @ \cup {i} |-> IF j = i THEN data[i] ELSE @[j]]]
    /\ reordered' = IF check[q] # NotLoaded THEN reordered \cup {q} ELSE reordered
    /\ UNCHANGED <<gate, seq, data, writer, r, start, check>>

\* The load of seq_read_retry.  An acquire load orders the accesses after
\* it, not the copy before it.
LoadCheck(q) ==
    /\ r[q] = "copying"
    /\ check[q] = NotLoaded
    /\ check' = [check EXCEPT ![q] = seq]
    /\ UNCHANGED <<gate, seq, data, writer, r, start, copy, reordered>>

\* Mutant of Decide: retries a copy that no write overlapped.
RetryAlways(q) ==
    /\ r[q] = "copying" /\ DOMAIN copy[q] = Words /\ check[q] # NotLoaded
    /\ r' = [r EXCEPT ![q] = "begin"]
    /\ UNCHANGED <<gate, seq, data, writer, start, copy, check, reordered>>

\* The result of seq_read_retry: accept the copy, or read again.
Decide(q) ==
    /\ r[q] = "copying" /\ DOMAIN copy[q] = Words /\ check[q] # NotLoaded
    /\ r' = [r EXCEPT ![q] = IF check[q] # start[q] THEN "begin" ELSE "accepted"]
    /\ UNCHANGED <<gate, seq, data, writer, start, copy, check, reordered>>

ContinueWrite(t) ==
    \/ WaitAtGate(t) \/ LoadSeq(t) \/ StoreSeq(t) \/ OpenGate(t)
    \/ \E i \in Words : StoreWord(t, i)

ContinueRead(q) ==
    \/ ReadBegin(q) \/ LoadCheck(q) \/ Decide(q)
    \/ \E i \in Words : LoadWord(q, i)

Next ==
    \/ \E t \in Threads : WriteCall(t) \/ ContinueWrite(t)
    \/ \E q \in Readers : ReadCall(q) \/ ContinueRead(q)

Spec == Init /\ [][Next]_vars

\* Calls in progress go on.
FairSpec ==
    /\ Spec
    /\ \A t \in Threads : WF_vars(ContinueWrite(t))
    /\ \A q \in Readers : WF_vars(ContinueRead(q))

----------------------------------------------------------------------------
(* Properties.                                                             *)

(***************************************************************************)
(* A copy that seq_read_retry accepts was overlapped by no write: a reader *)
(* "snapshots the sequence before reading and checks it after, retrying if *)
(* a write overlapped".  Only an access out of program order during that   *)
(* very copy can tear it: a word stored before the odd sequence that       *)
(* announces it, or one copied after the sequence was checked.  Both are   *)
(* orders that acquire and release allow, so that a machine with weakly    *)
(* ordered memory may show a torn copy; what no machine can do is tear one *)
(* in any other way, however the calls interleave.                         *)
(***************************************************************************)
AcceptedCopyConsistent ==
    \A q \in Readers :
        r[q] = "accepted" /\ q \notin reordered => copy[q][1] = copy[q][2]

(***************************************************************************)
(* The sequence is even exactly when no write is between its two stores, a *)
(* trapped one included, and then it counts the writes that are in the     *)
(* data, unless one stores early: "two writers cannot corrupt the          *)
(* sequence".                                                              *)
(***************************************************************************)
SequenceTellsWrite ==
    /\ IsOdd(seq) <=> \E t \in Threads :
                          \/ w[t] \in {"body", "even"}
                          \/ w[t] = "trapped" /\ pc[t] = "critical"
    /\ ~IsOdd(seq) /\ ~StoredEarly => data[1] = data[2] /\ seq = 2 * data[1]

(***************************************************************************)
(* Once the writers are done, every reader in a call gets its copy, unless *)
(* the sequence was exhausted and a writer trapped with it odd.            *)
(***************************************************************************)
ReadersServed ==
    \A q \in Readers :
        r[q] = "begin" ~> (r[q] = "accepted" \/ \E t \in Threads : w[t] = "trapped")
============================================================================
