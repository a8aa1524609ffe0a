---------------------------- MODULE RwLockProofs ----------------------------
(***************************************************************************)
(* Safety of the reader/writer lock, for any finite set of threads smaller *)
(* than the range of the counters and any number of calls.  The gate is    *)
(* the ticket lock, and what SpinlockProofs proves about it is used here:  *)
(* every step of the reader/writer lock is one of the gate or leaves the   *)
(* gate alone.                                                             *)
(***************************************************************************)
EXTENDS RwLock, FiniteSetTheorems, TLAPS

\* The ticket lock with its theorems.  Only its refinement of the FIFO lock
\* needs a value that is no thread.
Ticket == INSTANCE SpinlockProofs WITH NoThread <- CHOOSE x : x \notin Threads

----------------------------------------------------------------------------
(* The gate.                                                               *)

\* The assumption of this module and that of the gate, without instances.
LEMMA Constants ==
    /\ IsFiniteSet(Threads) /\ Cardinality(Threads) \in Nat
    /\ Width \in Nat \ {0} /\ Cardinality(Threads) < Width
    /\ MaxCalls \in Nat
<1>1. /\ Gate!IsFiniteSet(Threads) <=> IsFiniteSet(Threads)
      /\ Gate!Cardinality(Threads) = Cardinality(Threads)
  BY DEF Gate!Cardinality, Cardinality, Gate!IsFiniteSet, IsFiniteSet
<1>2. /\ IsFiniteSet(Threads) /\ Cardinality(Threads) < Width
      /\ Width \in Nat \ {0} /\ MaxCalls \in Nat
  BY <1>1, RwLockAssumption DEF Gate!SpinlockAssumption
<1> QED
  BY <1>2, FS_CardinalityType

\* Each step of the lock is a step of its gate, or leaves the gate alone.
LEMMA GateSteps == [Next]_vars => [Ticket!Next]_(Ticket!vars)
<1> SUFFICES ASSUME [Next]_vars PROVE Ticket!Next \/ UNCHANGED gate
  BY DEF Ticket!vars, gate
<1>1. ASSUME NEW t \in Threads, Call(t) PROVE Ticket!Next
  BY <1>1 DEF Call, Gate!Draw, Ticket!Draw, Gate!Goto, Ticket!Goto,
              Gate!Wrap, Ticket!Wrap, Ticket!Next
<1>2. ASSUME NEW t \in Threads, WaitAtGate(t) PROVE Ticket!Next
  BY <1>2 DEF WaitAtGate, Gate!Poll, Ticket!Poll, Gate!Goto, Ticket!Goto,
              Ticket!Next, Ticket!Continue
<1>3. ASSUME NEW t \in Threads, OpenGate(t) PROVE Ticket!Next
  BY <1>3 DEF OpenGate, Gate!UnlockLoad, Ticket!UnlockLoad,
              Gate!UnlockStore, Ticket!UnlockStore, Gate!Goto, Ticket!Goto,
              Ticket!Next, Ticket!Continue
<1> QED
  BY <1>1, <1>2, <1>3 DEF Next, Continue, Register, Drain, ReadUnlock, vars

(***************************************************************************)
(* The gate inside the reader/writer lock is a ticket lock: it keeps its   *)
(* types and is held by one thread at a time.                              *)
(***************************************************************************)
THEOREM GateExclusive == Spec => [](Ticket!TypeOK /\ Ticket!MutualExclusion)
<1>1. /\ Ticket!IsFiniteSet(Threads)
      /\ Width \in Nat \ {0}
      /\ Ticket!Cardinality(Threads) <= Width
      /\ MaxCalls \in Nat
  <2>1. /\ Ticket!IsFiniteSet(Threads) <=> IsFiniteSet(Threads)
        /\ Ticket!Cardinality(Threads) = Cardinality(Threads)
    BY DEF Ticket!Cardinality, Cardinality, Ticket!IsFiniteSet, IsFiniteSet
  <2> QED
    BY <2>1, Constants
<1>2. (CHOOSE x : x \notin Threads) \notin Threads
  BY NoSetContainsEverything
<1>3. Ticket!Spec => [](Ticket!TypeOK /\ Ticket!MutualExclusion)
  BY <1>1, <1>2, Ticket!TypeCorrect, Ticket!Exclusion, PTL
     DEF Ticket!IsFiniteSet, Ticket!Cardinality
<1>4. Init => Ticket!Init
  BY DEF Init, Gate!Init, Ticket!Init
<1> QED
  BY <1>3, <1>4, GateSteps, PTL DEF Spec, Ticket!Spec

----------------------------------------------------------------------------
(* The inductive invariant.                                                *)

TypeOK ==
    /\ readers \in 0 .. Width - 1
    /\ rw \in [Threads -> {"out", "rlock", "registered", "reading", "wlock", "writing"}]

\* Where a thread is in read_lock or write_lock and where it is in the calls
\* of the gate that these make.
GateMatches ==
    \A t \in Threads :
        /\ rw[t] \in {"out", "reading"} => pc[t] = "idle"
        /\ rw[t] \in {"rlock", "wlock"} => pc[t] \in {"spin", "critical"}
        /\ rw[t] \in {"registered", "writing"} => pc[t] \in {"critical", "unlock", "trapped"}

\* What draining achieves: the readers that do not need the gate are out.
Drained ==
    (\E t \in Threads : rw[t] = "writing") => \A u \in Threads : rw[u] # "reading"

RwInv == TypeOK /\ GateMatches /\ ReadersCounted /\ Drained

\* What the ticket lock contributes.
GateInv == Ticket!TypeOK /\ Ticket!MutualExclusion

\* A thread that enters the set or leaves it is counted once.
LEMMA CountOne ==
    ASSUME NEW t \in Threads
    PROVE  /\ IsFiniteSet(Registered) /\ Cardinality(Registered) \in Nat
           /\ Cardinality(Registered) <= Cardinality(Threads)
           /\ t \notin Registered =>
                /\ Cardinality(Registered \cup {t}) = Cardinality(Registered) + 1
                /\ Cardinality(Registered) < Cardinality(Threads)
           /\ t \in Registered =>
                /\ Cardinality(Registered \ {t}) = Cardinality(Registered) - 1
                /\ Cardinality(Registered) > 0
<1>1. Registered \subseteq Threads
  BY DEF Registered
<1>2. /\ IsFiniteSet(Registered) /\ Cardinality(Registered) \in Nat
      /\ Cardinality(Registered) <= Cardinality(Threads)
  BY <1>1, Constants, FS_Subset, FS_CardinalityType
<1>3. ASSUME t \notin Registered
      PROVE  /\ Cardinality(Registered \cup {t}) = Cardinality(Registered) + 1
             /\ Cardinality(Registered) < Cardinality(Threads)
  <2>1. Cardinality(Registered \cup {t}) = Cardinality(Registered) + 1
    BY <1>2, <1>3, FS_AddElement
  <2>2. Registered \cup {t} \subseteq Threads
    BY <1>1
  <2>3. Cardinality(Registered \cup {t}) <= Cardinality(Threads)
    BY <2>2, Constants, FS_Subset
  <2> QED
    BY <1>2, <2>1, <2>3, Constants
<1>4. ASSUME t \in Registered
      PROVE  /\ Cardinality(Registered \ {t}) = Cardinality(Registered) - 1
             /\ Cardinality(Registered) > 0
  <2>1. Cardinality(Registered \ {t}) = Cardinality(Registered) - 1
    BY <1>2, <1>4, FS_RemoveElement
  <2>2. Cardinality(Registered) # 0
    BY <1>2, <1>4, FS_EmptySet
  <2> QED
    BY <1>2, <2>1, <2>2
<1> QED
  BY <1>2, <1>3, <1>4

\* read_lock and write_lock draw a ticket: nobody is registered by that.
LEMMA CallInv ==
    ASSUME RwInv, GateInv, NEW t \in Threads, Call(t)
    PROVE  RwInv'
<1>1. /\ rw[t] = "out" /\ rw'[t] \in {"rlock", "wlock"} /\ pc'[t] = "spin"
      /\ \A u \in Threads \ {t} : rw'[u] = rw[u] /\ pc'[u] = pc[u]
      /\ readers' = readers
  BY DEF RwInv, TypeOK, GateInv, Ticket!TypeOK, Call, Goto, Gate!Draw, Gate!Goto
<1>2. TypeOK'
  BY DEF RwInv, TypeOK, Call, Goto
<1>3. GateMatches'
  BY <1>1 DEF RwInv, GateMatches
<1>4. Registered' = Registered
  BY <1>1 DEF Registered
<1>5. Drained'
  BY <1>1 DEF RwInv, Drained
<1> QED
  BY <1>1, <1>2, <1>3, <1>4, <1>5 DEF RwInv, ReadersCounted

\* A turn of the gate's loop.
LEMMA WaitInv ==
    ASSUME RwInv, GateInv, NEW t \in Threads, WaitAtGate(t)
    PROVE  RwInv'
<1>1. /\ rw' = rw /\ readers' = readers
      /\ pc[t] = "spin" /\ pc'[t] \in {"spin", "critical"}
      /\ \A u \in Threads \ {t} : pc'[u] = pc[u]
  BY DEF GateInv, Ticket!TypeOK, WaitAtGate, Gate!Poll, Gate!Goto
<1>2. GateMatches'
  BY <1>1 DEF RwInv, TypeOK, GateMatches
<1> QED
  BY <1>1, <1>2 DEF RwInv, TypeOK, ReadersCounted, Registered, Drained

\* The fetch_add of read_lock: the gate is held, so nobody writes, and the
\* count does not wrap.
LEMMA RegisterInv ==
    ASSUME RwInv, GateInv, NEW t \in Threads, Register(t)
    PROVE  RwInv'
<1>1. /\ rw[t] = "rlock" /\ rw'[t] = "registered" /\ pc[t] = "critical"
      /\ \A u \in Threads \ {t} : rw'[u] = rw[u]
      /\ pc' = pc
      /\ readers' = Gate!Wrap(readers)
  BY DEF RwInv, TypeOK, Register, Goto, gate
<1>2. Registered' = Registered \cup {t} /\ t \notin Registered
  BY <1>1 DEF Registered
<1>3. readers' = readers + 1 /\ readers' \in 0 .. Width - 1
  BY <1>1, <1>2, CountOne, Constants DEF RwInv, ReadersCounted, Gate!Wrap
<1>4. ReadersCounted'
  BY <1>2, <1>3, CountOne DEF RwInv, ReadersCounted
<1>5. TypeOK'
  BY <1>3 DEF RwInv, TypeOK, Register, Goto
<1>6. GateMatches'
  BY <1>1 DEF RwInv, GateMatches
<1>7. Drained'
  BY <1>1 DEF RwInv, Drained
<1> QED
  BY <1>4, <1>5, <1>6, <1>7 DEF RwInv

\* A turn of the draining loop: a count of zero means that nobody reads.
LEMMA DrainInv ==
    ASSUME RwInv, GateInv, NEW t \in Threads, Drain(t)
    PROVE  RwInv'
<1>1. /\ rw[t] = "wlock" /\ pc[t] = "critical" /\ pc' = pc /\ readers' = readers
      /\ rw'[t] \in {"wlock", "writing"}
      /\ rw'[t] = "writing" => readers = 0
      /\ \A u \in Threads \ {t} : rw'[u] = rw[u]
  BY DEF RwInv, TypeOK, Drain, Goto, gate
<1>2. TypeOK'
  BY DEF RwInv, TypeOK, Drain, Goto
<1>3. GateMatches'
  BY <1>1 DEF RwInv, GateMatches
<1>4. Registered' = Registered
  BY <1>1 DEF Registered
<1>5. Drained'
  <2>1. CASE rw'[t] = "wlock"
    BY <1>1, <2>1 DEF RwInv, Drained
  <2>2. CASE rw'[t] = "writing"
    <3>1. Cardinality(Registered) = 0 /\ IsFiniteSet(Registered)
      BY <1>1, <2>2, CountOne DEF RwInv, ReadersCounted
    <3>2. Registered = {}
      BY <3>1, FS_EmptySet
    <3> QED
      BY <1>1, <2>2, <3>2 DEF Registered, Drained
  <2> QED
    BY <1>1, <2>1, <2>2
<1> QED
  BY <1>1, <1>2, <1>3, <1>4, <1>5 DEF RwInv, ReadersCounted

\* spin_unlock of the gate: a reader that becomes independent of the gate
\* held it until now, so nobody writes.
LEMMA OpenGateInv ==
    ASSUME RwInv, GateInv, NEW t \in Threads, OpenGate(t)
    PROVE  RwInv'
<1>1. /\ readers' = readers
      /\ rw[t] \in {"registered", "writing"} /\ pc[t] \in {"critical", "unlock"}
      /\ \A u \in Threads \ {t} : rw'[u] = rw[u] /\ pc'[u] = pc[u]
      /\ \/ rw'[t] = rw[t] /\ pc'[t] \in {"unlock", "trapped"}
         \/ /\ rw'[t] = IF rw[t] = "writing" THEN "out" ELSE "reading"
            /\ pc'[t] = "idle"
  BY DEF RwInv, TypeOK, GateInv, Ticket!TypeOK, OpenGate, Goto,
         Gate!UnlockLoad, Gate!UnlockStore, Gate!Goto
<1>2. TypeOK'
  BY <1>1 DEF RwInv, TypeOK, OpenGate, Goto
<1>3. GateMatches'
  BY <1>1 DEF RwInv, GateMatches
<1>4. Registered' = Registered
  BY <1>1 DEF Registered
<1>5. \A u \in Threads \ {t} : rw[u] # "writing"
  <2> SUFFICES ASSUME NEW u \in Threads, u # t, rw[u] = "writing" PROVE FALSE
    OBVIOUS
  <2>1. Ticket!Holds(u) /\ Ticket!Holds(t)
    BY <1>1 DEF RwInv, GateMatches, Ticket!Holds
  <2> QED
    BY <2>1 DEF GateInv, Ticket!MutualExclusion
<1>6. Drained'
  BY <1>1, <1>5 DEF RwInv, Drained
<1> QED
  BY <1>1, <1>2, <1>3, <1>4, <1>6 DEF RwInv, ReadersCounted

\* The fetch_sub of read_unlock: the count is not zero, so it does not wrap.
LEMMA ReadUnlockInv ==
    ASSUME RwInv, GateInv, NEW t \in Threads, ReadUnlock(t)
    PROVE  RwInv'
<1>1. /\ rw[t] = "reading" /\ rw'[t] = "out" /\ pc' = pc
      /\ \A u \in Threads \ {t} : rw'[u] = rw[u]
      /\ readers' = IF readers = 0 THEN Width - 1 ELSE readers - 1
  BY DEF RwInv, TypeOK, ReadUnlock, Goto, gate
<1>2. Registered' = Registered \ {t} /\ t \in Registered
  BY <1>1 DEF Registered
<1>3. readers' = readers - 1 /\ readers' \in 0 .. Width - 1
  <2>1. readers \in 0 .. Width - 1 /\ readers = Cardinality(Registered)
    BY DEF RwInv, TypeOK, ReadersCounted
  <2>2. Cardinality(Registered) > 0
    BY <1>2, CountOne
  <2> QED
    BY <1>1, <2>1, <2>2, Constants
<1>4. ReadersCounted'
  BY <1>2, <1>3, CountOne DEF RwInv, ReadersCounted
<1>5. TypeOK'
  BY <1>3 DEF RwInv, TypeOK, ReadUnlock, Goto
<1>6. GateMatches'
  BY <1>1 DEF RwInv, GateMatches
<1>7. Drained'
  BY <1>1 DEF RwInv, Drained
<1> QED
  BY <1>4, <1>5, <1>6, <1>7 DEF RwInv

\* The invariant holds in every reachable state.
LEMMA RwInductive == Spec => []RwInv
<1>1. Init => RwInv
  <2> SUFFICES ASSUME Init PROVE RwInv
    OBVIOUS
  <2>1. TypeOK /\ GateMatches /\ Drained
    BY Constants DEF Init, Gate!Init, TypeOK, GateMatches, Drained
  <2>2. Registered = {}
    BY DEF Init, Registered
  <2> QED
    BY <2>1, <2>2, FS_EmptySet DEF RwInv, ReadersCounted, Init
<1>2. RwInv /\ GateInv /\ [Next]_vars => RwInv'
  <2> SUFFICES ASSUME RwInv, GateInv, [Next]_vars PROVE RwInv'
    OBVIOUS
  <2>1. CASE UNCHANGED vars
    BY <2>1 DEF vars, gate, RwInv, TypeOK, GateMatches, ReadersCounted,
                Registered, Drained
  <2> QED
    BY <2>1, CallInv, WaitInv, RegisterInv, DrainInv, OpenGateInv, ReadUnlockInv
       DEF Next, Continue
<1> QED
  BY <1>1, <1>2, GateExclusive, PTL DEF Spec, GateInv

----------------------------------------------------------------------------
(* The theorems.                                                           *)

(***************************************************************************)
(* While a thread is between write_lock and write_unlock no other writes   *)
(* or reads: not the readers that entered before, which Drain waited for,  *)
(* nor new ones, which need the gate that the writer holds.                *)
(***************************************************************************)
THEOREM WritersExclude == Spec => []WriterExclusive
<1>1. RwInv /\ GateInv => WriterExclusive
  <2> SUFFICES ASSUME RwInv, GateInv, NEW t \in Threads, NEW u \in Threads,
                      rw[t] = "writing", t # u
               PROVE  rw[u] \notin {"registered", "reading", "writing"}
    BY DEF WriterExclusive
  <2>1. rw[u] # "reading"
    BY DEF RwInv, Drained
  <2>2. ASSUME rw[u] \in {"registered", "writing"} PROVE FALSE
    <3>1. Ticket!Holds(t) /\ Ticket!Holds(u)
      BY <2>2 DEF RwInv, GateMatches, Ticket!Holds
    <3> QED
      BY <3>1 DEF GateInv, Ticket!MutualExclusion
  <2> QED
    BY <2>1, <2>2
<1> QED
  BY <1>1, RwInductive, GateExclusive, PTL DEF GateInv

(***************************************************************************)
(* The count of readers is exact in every interleaving of fetch_add and    *)
(* fetch_sub, and never wraps as long as there are fewer threads than      *)
(* values of the counter.                                                  *)
(***************************************************************************)
THEOREM CountExact == Spec => []ReadersCounted
BY RwInductive, PTL DEF RwInv

(***************************************************************************)
(* No reader is let in while write_lock drains: the fetch_add of read_lock *)
(* needs the gate, which the writer holds.                                 *)
(***************************************************************************)
THEOREM WriterNotOvertaken == Spec => NoReaderPassesWriter
<1> DEFINE Draining == \E t \in Threads : rw[t] = "wlock" /\ pc[t] = "critical"
<1>1. RwInv /\ GateInv /\ [Next]_vars => [Draining => Registered' \subseteq Registered]_vars
  <2> SUFFICES ASSUME RwInv, GateInv, Next,
                      NEW t \in Threads, rw[t] = "wlock", pc[t] = "critical",
                      NEW u \in Registered'
               PROVE  u \in Registered
    OBVIOUS
  <2>1. u \in Threads /\ rw'[u] \in {"registered", "reading"}
    BY DEF Registered
  <2>2. ASSUME NEW v \in Threads, Register(v) PROVE FALSE
    <3>1. Ticket!Holds(t) /\ Ticket!Holds(v) /\ t # v
      BY <2>2 DEF Register, Ticket!Holds
    <3> QED
      BY <3>1 DEF GateInv, Ticket!MutualExclusion
  <2>3. ASSUME NEW v \in Threads, Call(v) \/ WaitAtGate(v) \/ Drain(v) \/ ReadUnlock(v)
        PROVE  u \in Registered
    BY <2>1, <2>3 DEF RwInv, TypeOK, Registered, Call, WaitAtGate, Drain, ReadUnlock, Goto
  <2>4. ASSUME NEW v \in Threads, OpenGate(v) PROVE u \in Registered
    BY <2>1, <2>4 DEF RwInv, TypeOK, Registered, OpenGate, Goto
  <2> QED
    BY <2>2, <2>3, <2>4 DEF Next, Continue
<1> QED
  BY <1>1, RwInductive, GateExclusive, PTL DEF Spec, GateInv, NoReaderPassesWriter
============================================================================
