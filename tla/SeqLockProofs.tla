---------------------------- MODULE SeqLockProofs ----------------------------
(***************************************************************************)
(* Safety of the sequence lock, for any finite set of writers, any set of  *)
(* readers, any even width of the sequence and any number of writes.  That *)
(* the writers exclude each other is what SpinlockProofs proves about the  *)
(* gate.                                                                   *)
(***************************************************************************)
EXTENDS SeqLock, FiniteSetTheorems, TLAPS

\* The ticket lock with its theorems.  Only its refinement of the FIFO lock
\* needs a value that is no thread.
Ticket == INSTANCE SpinlockProofs WITH NoThread <- CHOOSE x : x \notin Threads

----------------------------------------------------------------------------
(* The gate.                                                               *)

\* The assumption of this module and that of the gate, without instances.
LEMMA Constants ==
    /\ IsFiniteSet(Threads) /\ Cardinality(Threads) <= Width
    /\ Width \in Nat \ {0} /\ Width % 2 = 0 /\ MaxCalls \in Nat
<1>1. /\ Gate!IsFiniteSet(Threads) <=> IsFiniteSet(Threads)
      /\ Gate!Cardinality(Threads) = Cardinality(Threads)
  BY DEF Gate!Cardinality, Cardinality, Gate!IsFiniteSet, IsFiniteSet
<1> QED
  BY <1>1, SeqLockAssumption DEF Gate!SpinlockAssumption

\* Each step of the sequence lock is a step of its gate, or leaves the gate
\* alone.
LEMMA GateSteps == [Next]_vars => [Ticket!Next]_(Ticket!vars)
<1> SUFFICES ASSUME [Next]_vars PROVE Ticket!Next \/ UNCHANGED gate
  BY DEF Ticket!vars, gate
<1>1. ASSUME NEW t \in Threads, WriteCall(t) PROVE Ticket!Next
  BY <1>1 DEF WriteCall, Gate!Draw, Ticket!Draw, Gate!Goto, Ticket!Goto,
              Gate!Wrap, Ticket!Wrap, Ticket!Next
<1>2. ASSUME NEW t \in Threads, WaitAtGate(t) PROVE Ticket!Next
  BY <1>2 DEF WaitAtGate, Gate!Poll, Ticket!Poll, Gate!Goto, Ticket!Goto,
              Ticket!Next, Ticket!Continue
<1>3. ASSUME NEW t \in Threads, OpenGate(t) PROVE Ticket!Next
  BY <1>3 DEF OpenGate, Gate!UnlockLoad, Ticket!UnlockLoad,
              Gate!UnlockStore, Ticket!UnlockStore, Gate!Goto, Ticket!Goto,
              Ticket!Next, Ticket!Continue
<1>4. ASSUME NEW t \in Threads, ContinueWrite(t) PROVE Ticket!Next \/ UNCHANGED gate
  BY <1>2, <1>3, <1>4 DEF ContinueWrite, LoadSeq, StoreSeq, StoreWord
<1>5. ASSUME NEW q \in Readers, ReadCall(q) \/ ContinueRead(q) PROVE UNCHANGED gate
  BY <1>5 DEF ReadCall, ContinueRead, ReadBegin, LoadCheck, Decide, LoadWord
<1> QED
  BY <1>1, <1>4, <1>5 DEF Next, vars

(***************************************************************************)
(* The gate inside the sequence lock is a ticket lock: it keeps its types  *)
(* and is held by one writer at a time.                                    *)
(***************************************************************************)
THEOREM GateExclusive == Spec => [](Ticket!TypeOK /\ Ticket!MutualExclusion)
<1>1. /\ Ticket!IsFiniteSet(Threads)
      /\ Width \in Nat \ {0}
      /\ Ticket!Cardinality(Threads) <= Width
      /\ MaxCalls \in Nat
  <2>1. /\ Ticket!IsFiniteSet(Threads) <=> IsFiniteSet(Threads)
        /\ Ticket!Cardinality(Threads) = Cardinality(Threads)
    BY DEF Ticket!Cardinality, Cardinality, Ticket!IsFiniteSet, IsFiniteSet
  <2> QED
    BY <2>1, Constants
<1>2. (CHOOSE x : x \notin Threads) \notin Threads
  BY NoSetContainsEverything
<1>3. Ticket!Spec => [](Ticket!TypeOK /\ Ticket!MutualExclusion)
  BY <1>1, <1>2, Ticket!TypeCorrect, Ticket!Exclusion, PTL
     DEF Ticket!IsFiniteSet, Ticket!Cardinality
<1>4. Init => Ticket!Init
  BY DEF Init, Gate!Init, Ticket!Init
<1> QED
  BY <1>3, <1>4, GateSteps, PTL DEF Spec, Ticket!Spec

----------------------------------------------------------------------------
(* The writers' invariant.                                                 *)

Values == 0 .. Width - 1

\* The types of what writers use.
WriterTypes ==
    /\ seq \in Values
    /\ data \in [Words -> Nat]
    /\ w \in [Threads -> {"out", "gate", "begin", "odd", "body", "even", "open", "trapped"}]
    /\ loaded \in [Threads -> Values]
    /\ written \in [Threads -> SUBSET Words]

\* Where a writer is in seq_write_begin, its write and seq_write_end, and
\* where it is in the calls of the gate.
GateMatches ==
    \A t \in Threads :
        /\ w[t] = "out" => pc[t] = "idle"
        /\ w[t] = "gate" => pc[t] = "spin"
        /\ w[t] \in {"begin", "odd", "body", "even"} => pc[t] = "critical"
        /\ w[t] = "open" => pc[t] \in {"critical", "unlock"}
        /\ w[t] = "trapped" => pc[t] \in {"critical", "trapped"}

\* A writer between its two stores to the sequence, or trapped at the second.
Between(t) == w[t] \in {"body", "even"} \/ (w[t] = "trapped" /\ pc[t] = "critical")

\* The sequence is odd exactly between the stores, and the sequence that a
\* writer has loaded is still the current one when it stores.
Parity ==
    /\ \A t \in Threads : Between(t) => IsOdd(seq)
    /\ IsOdd(seq) => \E t \in Threads : Between(t)
    /\ \A t \in Threads : w[t] \in {"odd", "even"} => loaded[t] = seq

\* A write in progress stored this word before its odd sequence.
Early(i) == \E t \in Threads : w[t] = "odd" /\ i \in written[t]

\* The sequence counts two for every completed write, and says of a write in
\* progress which words it has stored, of one that stores early too.
Counting ==
    /\ \A t \in Threads : w[t] \in {"out", "gate", "begin"} => written[t] = {}
    /\ \A t \in Threads : w[t] = "even" \/ (w[t] = "trapped" /\ pc[t] = "critical")
                             => written[t] = Words
    /\ ~IsOdd(seq) => \A i \in Words : IF Early(i) THEN seq + 2 = 2 * data[i]
                                       ELSE seq = 2 * data[i]
    /\ \A t \in Threads : Between(t) =>
          \A i \in Words : IF i \in written[t] THEN seq + 1 = 2 * data[i]
                           ELSE seq = 2 * data[i] + 1

WriterInv == WriterTypes /\ GateMatches /\ Parity /\ Counting

\* What the ticket lock contributes.
GateInv == Ticket!TypeOK /\ Ticket!MutualExclusion

----------------------------------------------------------------------------
(* The readers' invariant.                                                 *)

ReaderTypes ==
    /\ r \in [Readers -> {"out", "begin", "copying", "accepted"}]
    /\ start \in [Readers -> Values]
    /\ check \in [Readers -> 0 .. Width]
    /\ DOMAIN copy = Readers
    /\ \A q \in Readers : /\ DOMAIN copy[q] \subseteq Words
                          /\ \A i \in DOMAIN copy[q] : copy[q][i] \in Nat
    /\ reordered \subseteq Readers

\* Of a copy that met no access out of program order: as long as the sequence
\* is what the reader started with, no word is stored early and every word
\* copied is half of it; once the sequence was loaded again, the answer stays.
CopyInv ==
    \A q \in Readers :
      /\ r[q] = "copying" =>
           /\ ~IsOdd(start[q]) /\ start[q] <= seq
           /\ start[q] = seq /\ q \notin reordered =>
                /\ ~StoredEarly
                /\ \A i \in DOMAIN copy[q] : start[q] = 2 * copy[q][i]
           /\ check[q] = start[q] /\ q \notin reordered =>
                \A i \in DOMAIN copy[q] : start[q] = 2 * copy[q][i]
      /\ r[q] = "accepted" /\ q \notin reordered => copy[q][1] = copy[q][2]

ReaderInv == ReaderTypes /\ CopyInv

----------------------------------------------------------------------------
(* The writers' steps.                                                     *)

\* Odd and even alternate, and the last value of the sequence is odd.
LEMMA OddEven ==
    /\ \A n \in Nat : IsOdd(n) \in BOOLEAN /\ (IsOdd(n + 1) <=> ~IsOdd(n))
    /\ \A n \in Nat : ~IsOdd(2 * n)
    /\ IsOdd(Width - 1)
<1>1. \A n \in Nat : IsOdd(n) \in BOOLEAN /\ (IsOdd(n + 1) <=> ~IsOdd(n))
  BY DEF IsOdd
<1>2. \A n \in Nat : ~IsOdd(2 * n)
  BY DEF IsOdd
<1>3. IsOdd(Width - 1)
  BY Constants DEF IsOdd
<1> QED
  BY <1>1, <1>2, <1>3

\* Past the gate there is one writer, and only it can be between its stores.
LEMMA OneWriter ==
    ASSUME WriterTypes, GateMatches, GateInv,
           NEW t \in Threads, w[t] \notin {"out", "gate"},
           NEW u \in Threads, u # t
    PROVE  w[u] \in {"out", "gate"} /\ ~Between(u)
<1>1. Ticket!Holds(t)
  BY DEF WriterTypes, GateMatches, Ticket!Holds
<1>2. ~Ticket!Holds(u)
  BY <1>1 DEF GateInv, Ticket!MutualExclusion
<1>3. w[u] \in {"out", "gate"}
  BY <1>2 DEF WriterTypes, GateMatches, Ticket!Holds
<1> QED
  BY <1>3 DEF Between

\* What is stored is typed.
LEMMA WriterTypesInv ==
    ASSUME WriterTypes, [Next]_vars
    PROVE  WriterTypes'
<1>1. ASSUME NEW t \in Threads, WriteCall(t) PROVE WriterTypes'
  BY <1>1 DEF WriterTypes, WriteCall
<1>2. ASSUME NEW t \in Threads, WaitAtGate(t) PROVE WriterTypes'
  BY <1>2 DEF WriterTypes, WaitAtGate
<1>3. ASSUME NEW t \in Threads, LoadSeq(t) PROVE WriterTypes'
  BY <1>3 DEF WriterTypes, LoadSeq
<1>4. ASSUME NEW t \in Threads, StoreSeq(t) PROVE WriterTypes'
  BY <1>4, Constants DEF WriterTypes, StoreSeq, Values
<1>5. ASSUME NEW t \in Threads, NEW i \in Words, StoreWord(t, i) PROVE WriterTypes'
  BY <1>5 DEF WriterTypes, StoreWord
<1>6. ASSUME NEW t \in Threads, OpenGate(t) PROVE WriterTypes'
  BY <1>6 DEF WriterTypes, OpenGate
<1>7. ASSUME NEW q \in Readers, ReadCall(q) \/ ContinueRead(q) PROVE WriterTypes'
  BY <1>7 DEF WriterTypes, ReadCall, ContinueRead, ReadBegin, LoadCheck, Decide,
              LoadWord, writer
<1>8. CASE UNCHANGED vars
  BY <1>8 DEF WriterTypes, vars, writer
<1> QED
  BY <1>1, <1>2, <1>3, <1>4, <1>5, <1>6, <1>7, <1>8 DEF Next, ContinueWrite

\* A step of the gate before the writer has it: drawing, and polling without
\* success, change nothing that the sequence tells; with success, nobody else
\* is past the gate.
LEMMA EnterInv ==
    ASSUME WriterInv, GateInv, GateInv', WriterTypes',
           NEW t \in Threads, WriteCall(t) \/ WaitAtGate(t)
    PROVE  WriterInv'
<1>1. /\ UNCHANGED <<seq, data, loaded, written>>
      /\ \A u \in Threads \ {t} : w'[u] = w[u] /\ pc'[u] = pc[u]
      /\ \/ w[t] = "out" /\ w'[t] = "gate" /\ pc'[t] = "spin"
         \/ w[t] = "gate" /\ w'[t] = "gate" /\ pc'[t] = "spin"
         \/ w[t] = "gate" /\ w'[t] = "begin" /\ pc'[t] = "critical"
  <2>1. CASE WriteCall(t)
    BY <2>1 DEF WriterInv, WriterTypes, GateInv, Ticket!TypeOK, WriteCall, Gate!Draw, Gate!Goto
  <2>2. CASE WaitAtGate(t)
    BY <2>2 DEF WriterInv, WriterTypes, GateMatches, GateInv, Ticket!TypeOK,
                WaitAtGate, Gate!Poll, Gate!Goto
  <2> QED
    BY <2>1, <2>2
<1>2. GateMatches'
  BY <1>1 DEF WriterInv, GateMatches
<1>3. ~Between(t) /\ \A u \in Threads : Between(u)' <=> Between(u)
  BY <1>1 DEF Between
<1>4. Parity'
  BY <1>1, <1>3 DEF WriterInv, Parity
<1>5. \A i \in Words : Early(i)' <=> Early(i)
  BY <1>1 DEF WriterInv, Counting, Early
<1>6. Counting'
  BY <1>1, <1>3, <1>5 DEF WriterInv, Counting
<1> QED
  BY <1>2, <1>4, <1>6 DEF WriterInv

\* The loads of seq_write_begin and seq_write_end.
LEMMA LoadSeqInv ==
    ASSUME WriterInv, GateInv, WriterTypes', NEW t \in Threads, LoadSeq(t)
    PROVE  WriterInv'
<1>1. /\ UNCHANGED <<seq, data, written, pc>>
      /\ loaded'[t] = seq
      /\ \A u \in Threads \ {t} : w'[u] = w[u] /\ loaded'[u] = loaded[u]
      /\ \/ w[t] = "begin" /\ w'[t] = "odd"
         \/ w[t] = "body" /\ w'[t] = "even" /\ written[t] = Words
  BY DEF WriterInv, WriterTypes, LoadSeq, gate
<1>2. GateMatches'
  BY <1>1 DEF WriterInv, GateMatches
<1>3. \A u \in Threads : Between(u)' <=> Between(u)
  BY <1>1 DEF Between
<1>4. Parity'
  BY <1>1, <1>3 DEF WriterInv, Parity
<1>5. \A i \in Words : Early(i)' <=> Early(i)
  BY <1>1 DEF WriterInv, Counting, Early
<1>6. Counting'
  BY <1>1, <1>3, <1>5 DEF WriterInv, Counting
<1> QED
  BY <1>2, <1>4, <1>6 DEF WriterInv

\* The two stores to the sequence.  The first never traps, because an even
\* sequence is not the last one.
LEMMA StoreSeqInv ==
    ASSUME WriterInv, GateInv, WriterTypes', NEW t \in Threads, StoreSeq(t)
    PROVE  WriterInv'
<1>1. /\ UNCHANGED <<data, written, pc, loaded>>
      /\ \A u \in Threads \ {t} : w'[u] = w[u]
      /\ w[t] \in {"odd", "even"} /\ pc[t] = "critical" /\ loaded[t] = seq /\ seq \in Nat
  BY DEF WriterInv, WriterTypes, GateMatches, Parity, StoreSeq, gate, Values
<1>2. \A u \in Threads \ {t} : /\ w[u] \in {"out", "gate"} /\ ~Between(u)
                               /\ w'[u] \in {"out", "gate"} /\ ~Between(u)'
  BY <1>1, OneWriter DEF WriterInv, Between
<1>3. GateMatches'
  BY <1>1 DEF WriterInv, WriterTypes, GateMatches, StoreSeq
<1>4. w[t] = "odd" => ~IsOdd(seq)
  BY <1>2 DEF WriterInv, Parity, Between
<1>5. CASE w[t] = "odd"
  <2>1. seq # Width - 1
    BY <1>4, <1>5, OddEven
  <2>2. seq' = seq + 1 /\ w'[t] = "body"
    BY <1>1, <1>5, <2>1 DEF WriterInv, WriterTypes, StoreSeq
  <2>3. IsOdd(seq') /\ Between(t)'
    BY <1>1, <1>4, <1>5, <2>2, OddEven DEF Between
  <2>4. Parity'
    BY <1>2, <2>2, <2>3 DEF Parity
  <2>5. Counting'
    <3>1. \A i \in Words : Early(i) <=> i \in written[t]
      BY <1>2, <1>5 DEF Early
    <3>2. \A i \in Words : IF i \in written[t] THEN seq + 2 = 2 * data[i]
                           ELSE seq = 2 * data[i]
      BY <1>4, <1>5, <3>1 DEF WriterInv, Counting
    <3>3. \A i \in Words : data[i] \in Nat
      BY DEF WriterInv, WriterTypes
    <3>4. \A i \in Words : IF i \in written[t] THEN seq' + 1 = 2 * data[i]
                           ELSE seq' = 2 * data[i] + 1
      BY <1>1, <2>2, <3>2, <3>3
    <3>5. \A u \in Threads : w'[u] \in {"out", "gate", "begin"} => written[u] = {}
      BY <1>1, <2>2 DEF WriterInv, Counting
    <3>6. \A u \in Threads : w'[u] # "even" /\ w'[u] # "trapped"
      BY <1>2, <2>2
    <3> QED
      BY <1>1, <1>2, <2>3, <3>4, <3>5, <3>6 DEF Counting
  <2> QED
    BY <1>3, <2>4, <2>5 DEF WriterInv
<1>6. CASE w[t] = "even"
  <2>1. IsOdd(seq) /\ Between(t)
    BY <1>6 DEF WriterInv, Parity, Between
  <2>2. CASE seq = Width - 1
    <3>1. seq' = seq /\ w'[t] = "trapped" /\ pc'[t] = "critical"
      BY <1>1, <2>2 DEF WriterInv, WriterTypes, StoreSeq
    <3>2. Between(t)'
      BY <3>1 DEF Between
    <3>3. Parity'
      BY <1>2, <2>1, <3>1, <3>2 DEF Parity
    <3>4. Counting'
      BY <1>1, <1>2, <1>6, <2>1, <3>1, <3>2 DEF WriterInv, Counting
    <3> QED
      BY <1>3, <3>3, <3>4 DEF WriterInv
  <2>3. CASE seq # Width - 1
    <3>1. seq' = seq + 1 /\ w'[t] = "open"
      BY <1>1, <1>6, <2>3 DEF WriterInv, WriterTypes, StoreSeq
    <3>2. ~IsOdd(seq') /\ ~Between(t)'
      BY <1>1, <2>1, <3>1, OddEven DEF Between
    <3>3. Parity'
      BY <1>2, <3>1, <3>2 DEF Parity
    <3>4. Counting'
      <4>1. written[t] = Words /\ \A i \in Words : seq + 1 = 2 * data[i]
        BY <1>6, <2>1 DEF WriterInv, Counting
      <4>2. \A u \in Threads : w'[u] \in {"out", "gate", "begin"} => written[u] = {}
        BY <1>1, <3>1 DEF WriterInv, Counting
      <4>3. \A u \in Threads : w'[u] # "even" /\ w'[u] # "trapped"
        BY <1>2, <3>1
      <4>4. \A i \in Words : ~Early(i)'
        BY <1>2, <3>1 DEF Early
      <4> QED
        BY <1>1, <1>2, <3>1, <3>2, <4>1, <4>2, <4>3, <4>4 DEF Counting
    <3> QED
      BY <1>3, <3>3, <3>4 DEF WriterInv
  <2> QED
    BY <2>2, <2>3
<1> QED
  BY <1>1, <1>5, <1>6

\* A store to a protected word.
LEMMA StoreWordInv ==
    ASSUME WriterInv, GateInv, WriterTypes',
           NEW t \in Threads, NEW i \in Words, StoreWord(t, i)
    PROVE  WriterInv'
<1>1. /\ UNCHANGED <<seq, w, pc, loaded>>
      /\ data'[i] = data[i] + 1 /\ \A j \in Words \ {i} : data'[j] = data[j]
      /\ i \notin written[t] /\ written'[t] = written[t] \cup {i}
      /\ \A u \in Threads \ {t} : written'[u] = written[u]
      /\ w[t] \in {"odd", "body"}
  BY DEF WriterInv, WriterTypes, StoreWord, gate
<1>2. GateMatches' /\ Parity'
  BY <1>1 DEF WriterInv, GateMatches, Parity, Between
<1>3. \A u \in Threads \ {t} : /\ w[u] \in {"out", "gate"} /\ ~Between(u)
                               /\ ~Between(u)'
  BY <1>1, OneWriter DEF WriterInv, Between
<1>4. /\ \A u \in Threads : w'[u] \in {"out", "gate", "begin"} => written'[u] = {}
      /\ \A u \in Threads : w'[u] = "even" \/ (w'[u] = "trapped" /\ pc'[u] = "critical")
                               => written'[u] = Words
  BY <1>1 DEF WriterInv, Counting
<1>5. seq \in Nat /\ \A j \in Words : data[j] \in Nat
  BY DEF WriterInv, WriterTypes, Values
<1>6. CASE w[t] = "body"
  <2>1. Between(t) /\ IsOdd(seq)
    BY <1>6 DEF WriterInv, Parity, Between
  <2>2. \A j \in Words : IF j \in written[t] THEN seq + 1 = 2 * data[j]
                         ELSE seq = 2 * data[j] + 1
    BY <2>1 DEF WriterInv, Counting
  <2>3. \A j \in Words : IF j \in written'[t] THEN seq + 1 = 2 * data'[j]
                         ELSE seq = 2 * data'[j] + 1
    BY <1>1, <1>5, <2>2
  <2>4. Counting'
    BY <1>1, <1>3, <1>4, <2>1, <2>3 DEF Counting
  <2> QED
    BY <1>2, <2>4 DEF WriterInv
<1>7. CASE w[t] = "odd"
  <2>1. ~Between(t) /\ ~Between(t)'
    BY <1>1, <1>7 DEF Between
  <2>2. ~IsOdd(seq)
    BY <1>3, <2>1 DEF WriterInv, Parity
  <2>3. \A j \in Words : (Early(j) <=> j \in written[t]) /\ (Early(j)' <=> j \in written'[t])
    BY <1>1, <1>3, <1>7 DEF Early
  <2>4. \A j \in Words : IF j \in written[t] THEN seq + 2 = 2 * data[j]
                         ELSE seq = 2 * data[j]
    BY <2>2, <2>3 DEF WriterInv, Counting
  <2>5. \A j \in Words : IF j \in written'[t] THEN seq + 2 = 2 * data'[j]
                         ELSE seq = 2 * data'[j]
    BY <1>1, <1>5, <2>4
  <2>6. Counting'
    BY <1>1, <1>3, <1>4, <2>1, <2>3, <2>5 DEF Counting
  <2> QED
    BY <1>2, <2>6 DEF WriterInv
<1> QED
  BY <1>1, <1>6, <1>7

\* seq_write_end gives the gate up with the sequence even.
LEMMA OpenGateInv ==
    ASSUME WriterInv, GateInv, WriterTypes', NEW t \in Threads, OpenGate(t)
    PROVE  WriterInv'
<1>1. /\ UNCHANGED <<seq, data, loaded>>
      /\ w[t] = "open"
      /\ \A u \in Threads \ {t} : /\ w'[u] = w[u] /\ pc'[u] = pc[u]
                                  /\ written'[u] = written[u]
      /\ \/ w'[t] = "open" /\ pc'[t] = "unlock"
         \/ w'[t] = "trapped" /\ pc'[t] = "trapped"
         \/ w'[t] = "out" /\ pc'[t] = "idle" /\ written'[t] = {}
  BY DEF WriterInv, WriterTypes, GateInv, Ticket!TypeOK, OpenGate,
         Gate!UnlockLoad, Gate!UnlockStore, Gate!Goto
<1>2. GateMatches'
  BY <1>1 DEF WriterInv, GateMatches
<1>3. \A u \in Threads : ~Between(u) /\ ~Between(u)'
  <2>1. ~Between(t) /\ ~Between(t)'
    BY <1>1 DEF Between
  <2>2. \A u \in Threads \ {t} : ~Between(u) /\ ~Between(u)'
    BY <1>1, OneWriter DEF WriterInv, Between
  <2> QED
    BY <2>1, <2>2
<1>4. Parity'
  BY <1>1, <1>3 DEF WriterInv, Parity
<1>5. \A i \in Words : Early(i)' <=> Early(i)
  BY <1>1 DEF Early
<1>6. Counting'
  BY <1>1, <1>3, <1>5 DEF WriterInv, Counting, Parity
<1> QED
  BY <1>2, <1>4, <1>6 DEF WriterInv

\* The writers' invariant holds in every reachable state.
LEMMA WriterInductive == Spec => []WriterInv
<1>1. Init => WriterInv
  <2> SUFFICES ASSUME Init PROVE WriterInv
    OBVIOUS
  <2>1. WriterTypes /\ GateMatches
    BY Constants DEF Init, Gate!Init, WriterTypes, GateMatches, Values
  <2>2. ~IsOdd(seq)
    BY DEF Init, IsOdd
  <2>3. \A t \in Threads : w[t] = "out" /\ written[t] = {} /\ ~Between(t)
    BY DEF Init, Between
  <2>4. Parity
    BY <2>2, <2>3 DEF Parity
  <2>5. Counting
    BY <2>2, <2>3 DEF Init, Counting, Early
  <2> QED
    BY <2>1, <2>4, <2>5 DEF WriterInv
<1>2. WriterInv /\ GateInv /\ GateInv' /\ [Next]_vars => WriterInv'
  <2> SUFFICES ASSUME WriterInv, GateInv, GateInv', [Next]_vars PROVE WriterInv'
    OBVIOUS
  <2>1. WriterTypes'
    BY WriterTypesInv DEF WriterInv
  <2>2. ASSUME UNCHANGED <<gate, seq, data, writer>> PROVE WriterInv'
    BY <2>2 DEF gate, writer, WriterInv, WriterTypes, GateMatches, Parity, Between, Counting,
                Early
  <2>3. ASSUME NEW q \in Readers, ReadCall(q) \/ ContinueRead(q)
        PROVE  UNCHANGED <<gate, seq, data, writer>>
    BY <2>3 DEF ReadCall, ContinueRead, ReadBegin, LoadCheck, Decide, LoadWord
  <2>4. CASE UNCHANGED vars
    BY <2>2, <2>4 DEF vars
  <2> QED
    BY <2>1, <2>2, <2>3, <2>4, EnterInv, LoadSeqInv, StoreSeqInv, StoreWordInv,
       OpenGateInv DEF Next, ContinueWrite
<1> QED
  BY <1>1, <1>2, GateExclusive, PTL DEF Spec, GateInv

----------------------------------------------------------------------------
(* The readers' steps.                                                     *)

\* A reader's own steps.
LEMMA ReadInv ==
    ASSUME WriterInv, ReaderInv, NEW q \in Readers,
           ReadCall(q) \/ ContinueRead(q)
    PROVE  ReaderInv'
<1>1. /\ seq' = seq /\ seq \in Nat
      /\ ~IsOdd(seq) /\ ~StoredEarly => \A i \in Words : seq = 2 * data[i]
      /\ \A i \in Words : data[i] \in Nat
      /\ StoredEarly' <=> StoredEarly
  <2>1. seq' = seq /\ w' = w /\ written' = written
    BY DEF ReadCall, ContinueRead, ReadBegin, LoadCheck, Decide, LoadWord, writer
  <2>2. ~StoredEarly => \A i \in Words : ~Early(i)
    BY DEF StoredEarly, Early
  <2>3. StoredEarly' <=> StoredEarly
    BY <2>1 DEF StoredEarly
  <2> QED
    BY <2>1, <2>2, <2>3 DEF WriterInv, WriterTypes, Values, Counting
<1>2. CASE ReadCall(q)
  BY <1>1, <1>2 DEF ReaderInv, ReaderTypes, CopyInv, ReadCall
<1>3. CASE ReadBegin(q)
  <2>1. ReaderTypes'
    <3>1. /\ DOMAIN copy' = Readers
          /\ DOMAIN copy'[q] = {}
          /\ \A p \in Readers \ {q} : copy'[p] = copy[p]
      BY <1>3 DEF ReaderInv, ReaderTypes, ReadBegin
    <3>2. /\ r' \in [Readers -> {"out", "begin", "copying", "accepted"}]
          /\ start' \in [Readers -> Values]
      BY <1>3 DEF WriterInv, WriterTypes, ReaderInv, ReaderTypes, ReadBegin
    <3>3. check' \in [Readers -> 0 .. Width] /\ reordered' \subseteq Readers
      BY <1>3, Constants DEF ReaderInv, ReaderTypes, ReadBegin, NotLoaded
    <3> QED
      BY <3>1, <3>2, <3>3 DEF ReaderInv, ReaderTypes
  <2>2. CASE IsOdd(seq)
    BY <1>1, <1>3, <2>1, <2>2 DEF ReaderInv, ReaderTypes, CopyInv, ReadBegin
  <2>3. CASE ~IsOdd(seq)
    <3>1. /\ r'[q] = "copying" /\ start'[q] = seq /\ check'[q] = NotLoaded
          /\ DOMAIN copy'[q] = {}
          /\ \A p \in Readers \ {q} : /\ r'[p] = r[p] /\ start'[p] = start[p]
                                      /\ check'[p] = check[p] /\ copy'[p] = copy[p]
                                      /\ p \in reordered' <=> p \in reordered
          /\ q \in reordered' <=> StoredEarly
      BY <1>3, <2>3 DEF ReaderInv, ReaderTypes, ReadBegin
    <3>2. NotLoaded # seq
      BY Constants DEF NotLoaded, WriterInv, WriterTypes, Values
    <3>3. CopyInv'
      BY <1>1, <2>3, <3>1, <3>2 DEF ReaderInv, CopyInv, NotLoaded
    <3> QED
      BY <2>1, <3>3 DEF ReaderInv
  <2> QED
    BY <2>2, <2>3
<1>4. ASSUME NEW i \in Words, LoadWord(q, i) PROVE ReaderInv'
  <2>1. /\ UNCHANGED <<r, start, check>>
        /\ DOMAIN copy' = Readers
        /\ r[q] = "copying" /\ i \notin DOMAIN copy[q]
        /\ copy'[q] = [j \in DOMAIN copy[q] \cup {i} |-> IF j = i THEN data[i] ELSE copy[q][j]]
        /\ \A p \in Readers \ {q} : /\ copy'[p] = copy[p]
                                    /\ p \in reordered' <=> p \in reordered
        /\ q \in reordered' <=> (check[q] # NotLoaded \/ q \in reordered)
        /\ reordered' \subseteq Readers
    BY <1>4 DEF ReaderInv, ReaderTypes, LoadWord
  <2>2. /\ DOMAIN copy'[q] = DOMAIN copy[q] \cup {i}
        /\ copy'[q][i] = data[i]
        /\ \A j \in DOMAIN copy[q] : copy'[q][j] = copy[q][j]
    BY <2>1
  <2>3. ReaderTypes'
    BY <1>1, <2>1, <2>2 DEF ReaderInv, ReaderTypes
  <2>4. q \notin reordered' => check[q] # start[q] /\ q \notin reordered
    BY <2>1, Constants DEF ReaderInv, ReaderTypes, NotLoaded, Values
  <2>5. ASSUME start[q] = seq, q \notin reordered'
        PROVE  ~StoredEarly /\ \A j \in DOMAIN copy'[q] : start[q] = 2 * copy'[q][j]
    <3>1. ~IsOdd(seq) /\ ~StoredEarly /\ \A j \in DOMAIN copy[q] : start[q] = 2 * copy[q][j]
      BY <2>1, <2>4, <2>5 DEF ReaderInv, CopyInv
    <3> SUFFICES ASSUME NEW j \in DOMAIN copy'[q] PROVE start[q] = 2 * copy'[q][j]
      BY <3>1
    <3>2. CASE j = i
      BY <1>1, <2>2, <2>5, <3>1, <3>2
    <3>3. CASE j # i
      BY <2>2, <3>1, <3>3
    <3> QED
      BY <3>2, <3>3
  <2>6. CopyInv'
    BY <1>1, <2>1, <2>4, <2>5 DEF ReaderInv, CopyInv, NotLoaded
  <2> QED
    BY <2>3, <2>6 DEF ReaderInv
<1>5. CASE LoadCheck(q)
  <2>1. /\ UNCHANGED <<r, start, copy, reordered>>
        /\ r[q] = "copying" /\ check'[q] = seq
        /\ \A p \in Readers \ {q} : check'[p] = check[p]
    BY <1>5 DEF ReaderInv, ReaderTypes, LoadCheck
  <2>2. ReaderTypes'
    BY <1>5, Constants DEF WriterInv, WriterTypes, Values, ReaderInv, ReaderTypes, LoadCheck
  <2>3. CopyInv'
    BY <1>1, <2>1 DEF ReaderInv, CopyInv, NotLoaded
  <2> QED
    BY <2>2, <2>3 DEF ReaderInv
<1>6. CASE Decide(q)
  <2>1. /\ UNCHANGED <<start, copy, check, reordered>>
        /\ r[q] = "copying" /\ DOMAIN copy[q] = Words
        /\ r'[q] = IF check[q] # start[q] THEN "begin" ELSE "accepted"
        /\ \A p \in Readers \ {q} : r'[p] = r[p]
    BY <1>6 DEF ReaderInv, ReaderTypes, Decide
  <2>2. ReaderTypes'
    BY <1>6 DEF ReaderInv, ReaderTypes, Decide
  <2>3. check[q] = start[q] /\ q \notin reordered => copy[q][1] = copy[q][2]
    <3> SUFFICES ASSUME check[q] = start[q], q \notin reordered
                 PROVE  copy[q][1] = copy[q][2]
      OBVIOUS
    <3>1. start[q] = 2 * copy[q][1] /\ start[q] = 2 * copy[q][2]
      BY <2>1 DEF ReaderInv, CopyInv, Words
    <3>2. copy[q][1] \in Nat /\ copy[q][2] \in Nat
      BY <2>1 DEF ReaderInv, ReaderTypes, Words
    <3> QED
      BY <3>1, <3>2
  <2>4. CopyInv'
    BY <1>1, <2>1, <2>3 DEF ReaderInv, CopyInv, NotLoaded
  <2> QED
    BY <2>2, <2>4 DEF ReaderInv
<1> QED
  BY <1>2, <1>3, <1>4, <1>5, <1>6 DEF ContinueRead

\* A writer's step: the sequence stays or grows, and once it has grown it is
\* not what any reader started with.  A word stored early marks the readers
\* that are copying.
LEMMA WriteKeepsCopies ==
    ASSUME WriterInv, ReaderInv, NEW t \in Threads, WriteCall(t) \/ ContinueWrite(t)
    PROVE  ReaderInv'
<1>1. /\ UNCHANGED <<r, start, copy, check>>
      /\ reordered' \subseteq Readers
      /\ reordered \subseteq reordered'
  BY DEF WriteCall, ContinueWrite, WaitAtGate, LoadSeq, StoreSeq, StoreWord, OpenGate, reader,
         ReaderInv, ReaderTypes
<1>2. seq \in Nat /\ (seq' = seq \/ seq' = seq + 1)
  <2>1. CASE StoreSeq(t)
    BY <2>1 DEF WriterInv, WriterTypes, Parity, Values, StoreSeq
  <2>2. CASE ~StoreSeq(t)
    BY <2>2 DEF WriteCall, ContinueWrite, WaitAtGate, LoadSeq, StoreWord, OpenGate,
                WriterInv, WriterTypes, Values
  <2> QED
    BY <2>1, <2>2
<1>3. \A q \in Readers : start[q] \in Nat
  BY DEF ReaderInv, ReaderTypes, Values
<1>4. ReaderTypes'
  BY <1>1 DEF ReaderInv, ReaderTypes
<1>5. ASSUME NEW q \in Readers, r[q] = "copying", q \notin reordered', ~StoredEarly
      PROVE  ~StoredEarly'
  <2>1. CASE \E i \in Words : StoreWord(t, i)
    <3>1. /\ w[t] # "odd" /\ w' = w
          /\ \A u \in Threads \ {t} : written'[u] = written[u]
      BY <1>5, <2>1 DEF StoreWord, WriterInv, WriterTypes
    <3> QED
      BY <1>5, <3>1 DEF StoredEarly
  <2>2. CASE OpenGate(t)
    <3>1. /\ w'[t] # "odd"
          /\ \A u \in Threads \ {t} : w'[u] = w[u] /\ written'[u] = written[u]
      BY <2>2 DEF OpenGate, WriterInv, WriterTypes
    <3> QED
      BY <1>5, <3>1 DEF StoredEarly
  <2>3. CASE WriteCall(t) \/ WaitAtGate(t) \/ LoadSeq(t) \/ StoreSeq(t)
    <3>1. /\ written' = written
          /\ \A u \in Threads \ {t} : w'[u] = w[u]
          /\ w'[t] = "odd" => w[t] = "begin" \/ w[t] = "odd"
      BY <2>3 DEF WriteCall, WaitAtGate, LoadSeq, StoreSeq, WriterInv, WriterTypes
    <3>2. w[t] = "begin" => written[t] = {}
      BY DEF WriterInv, Counting
    <3> QED
      BY <1>5, <3>1, <3>2 DEF StoredEarly
  <2> QED
    BY <2>1, <2>2, <2>3 DEF ContinueWrite
<1>6. CopyInv'
  <2> SUFFICES ASSUME NEW q \in Readers
               PROVE  /\ r[q] = "copying" =>
                           /\ ~IsOdd(start[q]) /\ start[q] <= seq'
                           /\ start[q] = seq' /\ q \notin reordered' =>
                                /\ ~StoredEarly'
                                /\ \A i \in DOMAIN copy[q] : start[q] = 2 * copy[q][i]
                           /\ check[q] = start[q] /\ q \notin reordered' =>
                                \A i \in DOMAIN copy[q] : start[q] = 2 * copy[q][i]
                      /\ r[q] = "accepted" /\ q \notin reordered' => copy[q][1] = copy[q][2]
    BY <1>1 DEF CopyInv
  <2>1. q \notin reordered' => q \notin reordered
    BY <1>1
  <2>2. r[q] = "copying" /\ start[q] = seq' => start[q] = seq
    BY <1>2, <1>3 DEF ReaderInv, CopyInv
  <2>3. r[q] = "copying" => start[q] <= seq'
    BY <1>2, <1>3 DEF ReaderInv, CopyInv
  <2> QED
    BY <1>5, <2>1, <2>2, <2>3 DEF ReaderInv, CopyInv
<1> QED
  BY <1>4, <1>6 DEF ReaderInv

----------------------------------------------------------------------------
(* The theorems.                                                           *)

(***************************************************************************)
(* The sequence is odd exactly while a write is between its two stores, or *)
(* trapped there, and an even sequence is twice the number of the writes   *)
(* that are in the data, unless one has stored a word ahead of its odd     *)
(* sequence.                                                               *)
(***************************************************************************)
THEOREM SequenceTells == Spec => []SequenceTellsWrite
<1>1. WriterInv => SequenceTellsWrite
  <2> SUFFICES ASSUME WriterInv PROVE SequenceTellsWrite
    OBVIOUS
  <2>1. IsOdd(seq) <=> \E t \in Threads : Between(t)
    BY DEF WriterInv, Parity
  <2>2. ASSUME ~IsOdd(seq), ~StoredEarly PROVE data[1] = data[2] /\ seq = 2 * data[1]
    <3>1. seq = 2 * data[1] /\ seq = 2 * data[2]
      BY <2>2 DEF WriterInv, Counting, Words, StoredEarly, Early
    <3>2. data[1] \in Nat /\ data[2] \in Nat
      BY DEF WriterInv, WriterTypes, Words
    <3> QED
      BY <3>1, <3>2
  <2> QED
    BY <2>1, <2>2 DEF SequenceTellsWrite, Between
<1> QED
  BY <1>1, WriterInductive, PTL

(***************************************************************************)
(* Whatever order the machine gives the accesses within what acquire loads *)
(* and release stores permit, a copy that seq_read_retry accepts is the    *)
(* copy of one state of the data, however many writes began and ended      *)
(* meanwhile, unless during that very copy a writer stored a word ahead of *)
(* its odd sequence or the reader loaded one after the check.              *)
(***************************************************************************)
THEOREM AcceptedIsConsistent == Spec => []AcceptedCopyConsistent
<1>1. Init => ReaderInv
  BY Constants DEF Init, ReaderInv, ReaderTypes, CopyInv, NotLoaded, Values
<1>2. WriterInv /\ ReaderInv /\ [Next]_vars => ReaderInv'
  <2> SUFFICES ASSUME WriterInv, ReaderInv, [Next]_vars PROVE ReaderInv'
    OBVIOUS
  <2>1. CASE UNCHANGED vars
    BY <2>1 DEF vars, writer, reader, ReaderInv, ReaderTypes, CopyInv, NotLoaded, StoredEarly
  <2> QED
    BY <2>1, ReadInv, WriteKeepsCopies DEF Next
<1>3. ReaderInv => AcceptedCopyConsistent
  BY DEF ReaderInv, CopyInv, AcceptedCopyConsistent
<1> QED
  BY <1>1, <1>2, <1>3, WriterInductive, PTL DEF Spec
==============================================================================
