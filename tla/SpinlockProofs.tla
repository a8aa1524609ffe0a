--------------------------- MODULE SpinlockProofs ---------------------------
(***************************************************************************)
(* Mutual exclusion of the ticket lock, for any finite set of threads that *)
(* is not larger than the range of the counters and any number of calls.   *)
(***************************************************************************)
EXTENDS SpinlockFifo, FiniteSetTheorems, SequenceTheorems, TLAPS

USE SpinlockAssumption

(***************************************************************************)
(* The counters, the tickets and the labels of spin_lock and spin_unlock   *)
(* keep their types: next_ticket wraps, now_serving traps.                 *)
(***************************************************************************)
THEOREM TypeCorrect == Spec => []TypeOK
<1>1. Init => TypeOK
  BY DEF Init, TypeOK, Counter
<1>2. TypeOK /\ [Next]_vars => TypeOK'
  <2> SUFFICES ASSUME TypeOK, [Next]_vars PROVE TypeOK'
    OBVIOUS
  <2>1. ASSUME NEW t \in Threads, Draw(t) PROVE TypeOK'
    BY <2>1 DEF TypeOK, Draw, Goto, Wrap, Counter
  <2>2. ASSUME NEW t \in Threads, Poll(t) PROVE TypeOK'
    BY <2>2 DEF TypeOK, Poll, Goto
  <2>3. ASSUME NEW t \in Threads, UnlockLoad(t) PROVE TypeOK'
    BY <2>3 DEF TypeOK, UnlockLoad, Goto
  <2>4. ASSUME NEW t \in Threads, UnlockStore(t) PROVE TypeOK'
    BY <2>4 DEF TypeOK, UnlockStore, Goto, Counter
  <2>5. CASE UNCHANGED vars
    BY <2>5 DEF TypeOK, vars
  <2> QED
    BY <2>1, <2>2, <2>3, <2>4, <2>5 DEF Next, Continue
<1> QED
  BY <1>1, <1>2, PTL DEF Spec

(***************************************************************************)
(* While a thread is not using the lock there is a free number: every      *)
(* outstanding number belongs to a thread of its own.                      *)
(***************************************************************************)
LEMMA NumbersFit ==
    ASSUME TypeOK, TicketInv, NEW t \in Threads, pc[t] = "idle"
    PROVE  calls - now_serving < Width
<1> DEFINE S == now_serving .. calls - 1
           T == Threads \ {t}
           f == [n \in S |-> CHOOSE u \in Outstanding : Number(u) = n]
<1>1. now_serving \in Nat /\ calls \in Nat /\ now_serving <= calls
  BY DEF TypeOK, TicketInv, Counter
<1>2. \A n \in S : f[n] \in Outstanding /\ Number(f[n]) = n
  BY DEF TicketInv
<1>3. f \in Injection(S, T)
  BY <1>2 DEF Injection, IsInjective, Outstanding
<1>4. IsFiniteSet(T) /\ Cardinality(T) = Cardinality(Threads) - 1
  BY FS_RemoveElement
<1>5. Cardinality(S) <= Cardinality(T)
  BY <1>3, <1>4, FS_Injection
<1>6. Cardinality(S) = calls - now_serving
  BY <1>1, FS_Interval
<1>7. Cardinality(Threads) \in Nat
  BY FS_CardinalityType
<1> QED
  BY <1>1, <1>4, <1>5, <1>6, <1>7

\* A draw takes the next number.
LEMMA DrawInv ==
    ASSUME TypeOK, TicketInv, NEW t \in Threads, Draw(t)
    PROVE  TicketInv'
<1>1. calls - now_serving < Width
  BY NumbersFit DEF Draw
<1>2. /\ calls \in Nat /\ now_serving \in Counter /\ next_ticket \in Counter
      /\ now_serving <= calls
      /\ next_ticket = IF calls < Width THEN calls ELSE calls - Width
  BY DEF TypeOK, TicketInv
<1>3. \A u \in Threads : ticket[u] \in Counter
  BY DEF TypeOK
<1>4. /\ calls' = calls + 1 /\ now_serving' = now_serving /\ cur' = cur
      /\ ticket'[t] = next_ticket
      /\ \A u \in Threads \ {t} : ticket'[u] = ticket[u] /\ pc'[u] = pc[u]
      /\ pc[t] = "idle" /\ pc'[t] = "spin"
      /\ next_ticket' = Wrap(next_ticket)
  BY DEF Draw, Goto, TypeOK
<1>5. Number(t)' = calls
  BY <1>1, <1>2, <1>4 DEF Number, Counter
<1>6. \A u \in Threads \ {t} : Number(u)' = Number(u)
  BY <1>4 DEF Number
<1>7. /\ Outstanding' = Outstanding \cup {t}
      /\ t \notin Outstanding
      /\ Outstanding \subseteq Threads
  BY <1>4 DEF Outstanding
<1>8. /\ \A u \in Outstanding : Number(u) < calls /\ Number(u) \in Nat
      /\ \A u, v \in Outstanding : Number(u) = Number(v) => u = v
      /\ \A n \in now_serving .. calls - 1 : \E u \in Outstanding : Number(u) = n
  BY <1>2, <1>3, <1>7 DEF TicketInv, Number, Counter
<1>9. (next_ticket = IF calls < Width THEN calls ELSE calls - Width)'
  BY <1>1, <1>2, <1>4 DEF Wrap, Counter
<1>10. (now_serving <= calls /\ calls < Width + Width)'
  BY <1>1, <1>2, <1>4 DEF Counter
<1>11. (\A u \in Outstanding : Number(u) < calls)'
  BY <1>2, <1>4, <1>5, <1>6, <1>7, <1>8
<1>12. (\A u, v \in Outstanding : Number(u) = Number(v) => u = v)'
  <2> SUFFICES ASSUME NEW u \in Outstanding', NEW v \in Outstanding',
                      Number(u)' = Number(v)', u # v
               PROVE  FALSE
    OBVIOUS
  <2>0. \A w \in Outstanding' : Number(w)' = IF w = t THEN calls ELSE Number(w)
    BY <1>5, <1>6, <1>7
  <2>1. CASE u = t
    BY <2>0, <2>1, <1>2, <1>7, <1>8
  <2>2. CASE v = t
    BY <2>0, <2>2, <1>2, <1>7, <1>8
  <2>3. CASE u # t /\ v # t
    BY <2>3, <1>6, <1>7, <1>8
  <2> QED
    BY <2>1, <2>2, <2>3
<1>13. (\A n \in now_serving .. calls - 1 : \E u \in Outstanding : Number(u) = n)'
  <2> SUFFICES ASSUME NEW n \in now_serving .. calls
               PROVE  \E u \in Outstanding' : Number(u)' = n
    BY <1>2, <1>4 DEF Counter
  <2>1. CASE n = calls
    BY <2>1, <1>5, <1>7
  <2>2. CASE n # calls
    <3>1. n \in now_serving .. calls - 1
      BY <2>2, <1>2 DEF Counter
    <3> QED
      BY <3>1, <1>6, <1>7, <1>8
  <2> QED
    BY <2>1, <2>2
<1>14. (\A u \in Threads : Holds(u) => ticket[u] = now_serving)'
  BY <1>4 DEF Holds, TicketInv
<1>15. (\A u \in Threads : pc[u] \in {"unlock", "trapped"} => cur[u] = now_serving)'
  BY <1>4 DEF TicketInv
<1> QED
  BY <1>9, <1>10, <1>11, <1>12, <1>13, <1>14, <1>15 DEF TicketInv

\* The store of spin_unlock gives the lock up and serves the next number.
LEMMA UnlockStoreInv ==
    ASSUME TypeOK, TicketInv, NEW t \in Threads, UnlockStore(t)
    PROVE  TicketInv'
<1>1. /\ calls \in Nat /\ now_serving \in Counter
      /\ \A u \in Threads : ticket[u] \in Counter
      /\ cur[t] = now_serving /\ ticket[t] = now_serving /\ pc[t] = "unlock"
      /\ t \in Outstanding /\ Outstanding \subseteq Threads
  BY DEF TypeOK, TicketInv, UnlockStore, Holds, Outstanding
<1>2. /\ \A u \in Outstanding : Number(u) < calls /\ Number(u) \in Nat
      /\ \A u, v \in Outstanding : Number(u) = Number(v) => u = v
      /\ \A n \in now_serving .. calls - 1 : \E u \in Outstanding : Number(u) = n
  BY <1>1 DEF TicketInv, Number, Counter
<1>3. Number(t) = now_serving
  BY <1>1 DEF Number, Counter
<1>4. CASE cur[t] = Width - 1
  <2>1. /\ UNCHANGED <<next_ticket, now_serving, ticket, cur, calls>>
        /\ pc' = [pc EXCEPT ![t] = "trapped"]
    BY <1>4 DEF UnlockStore, Goto
  <2>2. \A u \in Threads : pc'[u] = IF u = t THEN "trapped" ELSE pc[u]
    BY <2>1 DEF TypeOK
  <2>3. Outstanding' = Outstanding /\ \A u \in Threads : Number(u)' = Number(u)
    BY <1>1, <2>1, <2>2 DEF Outstanding, Number
  <2>4. \A u \in Threads : Holds(u)' => Holds(u)
    BY <1>1, <2>2 DEF Holds
  <2> QED
    BY <1>1, <2>1, <2>2, <2>3, <2>4 DEF TicketInv, Holds
<1>5. CASE cur[t] # Width - 1
  <2>1. /\ UNCHANGED <<next_ticket, ticket, cur, calls>>
        /\ now_serving' = now_serving + 1
        /\ pc' = [pc EXCEPT ![t] = "idle"]
    BY <1>1, <1>5 DEF UnlockStore, Goto
  <2>2. \A u \in Threads : pc'[u] = IF u = t THEN "idle" ELSE pc[u]
    BY <2>1 DEF TypeOK
  <2>3. Outstanding' = Outstanding \ {t}
    BY <1>1, <2>2 DEF Outstanding
  <2>4. \A u \in Outstanding \ {t} : Number(u) # now_serving
    BY <1>1, <1>2, <1>3
  <2>5. \A u \in Outstanding \ {t} : Number(u)' = Number(u)
    BY <1>1, <2>1, <2>4 DEF Number, Counter
  <2>6. (next_ticket = IF calls < Width THEN calls ELSE calls - Width)'
    BY <2>1 DEF TicketInv
  <2>7. (now_serving <= calls /\ calls < Width + Width)'
    BY <1>1, <1>2, <1>3, <2>1 DEF TicketInv, Counter
  <2>8. (\A u \in Outstanding : Number(u) < calls)'
    BY <1>2, <2>1, <2>3, <2>5
  <2>9. (\A u, v \in Outstanding : Number(u) = Number(v) => u = v)'
    BY <1>2, <2>3, <2>5
  <2>10. (\A n \in now_serving .. calls - 1 : \E u \in Outstanding : Number(u) = n)'
    <3> SUFFICES ASSUME NEW n \in now_serving + 1 .. calls - 1
                 PROVE  \E u \in Outstanding' : Number(u)' = n
      BY <2>1
    <3>1. n \in now_serving .. calls - 1 /\ n # now_serving
      BY <1>1 DEF Counter
    <3>2. PICK u \in Outstanding : Number(u) = n
      BY <1>2, <3>1
    <3>3. u # t
      BY <1>3, <3>1, <3>2
    <3> QED
      BY <2>3, <2>5, <3>2, <3>3
  <2>11. \A u \in Threads : ~Holds(u)'
    <3> SUFFICES ASSUME NEW u \in Threads, Holds(u)' PROVE FALSE
      OBVIOUS
    <3>1. u # t /\ Holds(u) /\ u \in Outstanding
      BY <2>2 DEF Holds, Outstanding
    <3>2. Number(u) = now_serving
      BY <1>1, <3>1 DEF TicketInv, Number, Counter
    <3> QED
      BY <2>4, <3>1, <3>2
  <2> QED
    BY <2>6, <2>7, <2>8, <2>9, <2>10, <2>11 DEF TicketInv, Holds
<1> QED
  BY <1>4, <1>5

\* The steps that leave the counters alone.
LEMMA LocalInv ==
    ASSUME TypeOK, TicketInv, NEW t \in Threads, Poll(t) \/ UnlockLoad(t)
    PROVE  TicketInv'
<1>1. /\ UNCHANGED <<next_ticket, now_serving, ticket, calls>>
      /\ pc[t] # "idle"
      /\ \A u \in Threads \ {t} : pc'[u] = pc[u] /\ cur'[u] = cur[u]
      /\ pc'[t] \in {"spin", "critical", "unlock"}
      /\ pc'[t] = "unlock" => cur'[t] = now_serving
      /\ pc'[t] # "spin" => ticket[t] = now_serving
  <2>1. CASE Poll(t)
    BY <2>1 DEF Poll, Goto, TypeOK
  <2>2. CASE UnlockLoad(t)
    BY <2>2 DEF UnlockLoad, Goto, TypeOK, TicketInv, Holds
  <2> QED
    BY <2>1, <2>2
<1>2. Outstanding' = Outstanding /\ \A u \in Threads : Number(u)' = Number(u)
  BY <1>1 DEF Outstanding, Number
<1>3. \A u \in Threads : Holds(u)' => ticket[u] = now_serving
  BY <1>1 DEF Holds, TicketInv
<1>4. \A u \in Threads : pc'[u] \in {"unlock", "trapped"} => cur'[u] = now_serving
  BY <1>1 DEF TicketInv
<1> QED
  BY <1>1, <1>2, <1>3, <1>4 DEF TicketInv, Outstanding

(***************************************************************************)
(* The outstanding tickets are the numbers from now_serving to the last    *)
(* one drawn by spin_lock, each drawn once.                                *)
(***************************************************************************)
THEOREM TicketsInOrder == Spec => []TicketInv
<1>1. Init => TicketInv
  BY DEF Init, TicketInv, Outstanding, Holds
<1>2. TypeOK /\ TicketInv /\ [Next]_vars => TicketInv'
  <2> SUFFICES ASSUME TypeOK, TicketInv, [Next]_vars PROVE TicketInv'
    OBVIOUS
  <2>1. CASE UNCHANGED vars
    BY <2>1 DEF vars, TicketInv, Outstanding, Number, Holds
  <2> QED
    BY <2>1, DrawInv, UnlockStoreInv, LocalInv DEF Next, Continue
<1> QED
  BY <1>1, <1>2, TypeCorrect, PTL DEF Spec

(***************************************************************************)
(* Two threads never hold the ticket lock at once, whatever the width of   *)
(* the counters, as long as there are not more threads than counter        *)
(* values.                                                                 *)
(***************************************************************************)
THEOREM Exclusion == Spec => []MutualExclusion
<1>1. TypeOK /\ TicketInv => MutualExclusion
  <2> SUFFICES ASSUME TypeOK, TicketInv,
                      NEW t \in Threads, NEW u \in Threads, Holds(t), Holds(u)
               PROVE  t = u
    BY DEF MutualExclusion
  <2>1. t \in Outstanding /\ u \in Outstanding
    BY DEF Holds, Outstanding
  <2>2. Number(t) = Number(u)
    BY DEF TicketInv, Number
  <2> QED
    BY <2>1, <2>2 DEF TicketInv
<1> QED
  BY <1>1, TypeCorrect, TicketsInOrder, PTL

----------------------------------------------------------------------------
(* The refinement.                                                         *)

\* The queue is what it is called: it holds exactly the spinning threads, by
\* their numbers.
QueueFacts ==
    /\ \A t \in Threads : Holds(t) => Holder = t
    /\ (\A t \in Threads : ~Holds(t)) => Holder = NoThread
    /\ calls \in Nat /\ FirstWaiting \in Nat /\ FirstWaiting <= calls
    /\ WaitQueue \in Seq(Threads)
    /\ Len(WaitQueue) = calls - FirstWaiting
    /\ \A i \in 1 .. calls - FirstWaiting :
          /\ WaitQueue[i] \in Threads
          /\ pc[WaitQueue[i]] = "spin"
          /\ Number(WaitQueue[i]) = FirstWaiting + i - 1
    /\ \A t \in Threads : pc[t] = "spin" =>
          /\ Number(t) - FirstWaiting + 1 \in 1 .. calls - FirstWaiting
          /\ WaitQueue[Number(t) - FirstWaiting + 1] = t

\* What TicketInv says about holders and numbers.
LEMMA NumberFacts ==
    ASSUME TypeOK, TicketInv
    PROVE  /\ now_serving \in Nat /\ calls \in Nat /\ now_serving <= calls
           /\ \A t \in Threads : Number(t) \in Nat /\ Number(t) >= now_serving
           /\ \A t \in Threads : pc[t] # "idle" => Number(t) < calls
           /\ \A t, u \in Threads :
                 pc[t] # "idle" /\ pc[u] # "idle" /\ Number(t) = Number(u) => t = u
           /\ \A t \in Threads : Holds(t) => Number(t) = now_serving /\ pc[t] # "idle"
           /\ \A t \in Threads : pc[t] # "idle" => pc[t] = "spin" \/ Holds(t)
           /\ \A n \in now_serving .. calls - 1 :
                 \E t \in Threads : pc[t] # "idle" /\ Number(t) = n
<1>1. /\ now_serving \in Counter /\ calls \in Nat /\ now_serving <= calls
      /\ \A t \in Threads : ticket[t] \in Counter
  BY DEF TypeOK, TicketInv
<1>2. \A t \in Threads : Number(t) \in Nat /\ Number(t) >= now_serving
  BY <1>1 DEF Number, Counter
<1>3. \A t \in Threads : Holds(t) => Number(t) = now_serving /\ pc[t] # "idle"
  BY <1>1 DEF TicketInv, Number, Counter, Holds
<1>4. \A t \in Threads : pc[t] # "idle" => pc[t] = "spin" \/ Holds(t)
  BY DEF TypeOK, Holds
<1>5. \A t \in Threads : t \in Outstanding <=> pc[t] # "idle"
  BY DEF Outstanding
<1>6. \A n \in now_serving .. calls - 1 :
         \E t \in Threads : pc[t] # "idle" /\ Number(t) = n
  BY DEF TicketInv, Outstanding
<1> QED
  BY <1>1, <1>2, <1>3, <1>4, <1>5, <1>6 DEF TicketInv, Counter

LEMMA QueueIsOrdered == TypeOK /\ TicketInv => QueueFacts
<1> SUFFICES ASSUME TypeOK, TicketInv PROVE QueueFacts
  OBVIOUS
<1>1. \A t, u \in Threads : Holds(t) /\ Holds(u) => t = u
  BY NumberFacts
<1>2. \A t \in Threads : Holds(t) => Holder = t
  BY <1>1 DEF Holder
<1>3. (\A t \in Threads : ~Holds(t)) => Holder = NoThread
  BY DEF Holder
<1>4. FirstWaiting \in Nat /\ FirstWaiting <= calls
  BY NumberFacts DEF FirstWaiting
<1>5. \A t \in Threads : pc[t] = "spin" => Number(t) >= FirstWaiting
  <2> SUFFICES ASSUME NEW t \in Threads, pc[t] = "spin",
                      NEW u \in Threads, Holds(u)
               PROVE  Number(t) >= now_serving + 1
    BY NumberFacts DEF FirstWaiting
  <2>1. t # u
    BY DEF Holds
  <2>2. Number(t) # now_serving
    BY <2>1, NumberFacts
  <2> QED
    BY <2>2, NumberFacts
<1>6. \A n \in FirstWaiting .. calls - 1 :
         \E t \in Threads : pc[t] = "spin" /\ Number(t) = n
  <2> SUFFICES ASSUME NEW n \in FirstWaiting .. calls - 1
               PROVE  \E t \in Threads : pc[t] = "spin" /\ Number(t) = n
    OBVIOUS
  <2>1. n \in now_serving .. calls - 1
    BY NumberFacts DEF FirstWaiting
  <2>2. PICK t \in Threads : pc[t] # "idle" /\ Number(t) = n
    BY <2>1, NumberFacts
  <2>3. ~Holds(t)
    BY <2>2, <1>4, NumberFacts DEF FirstWaiting
  <2> QED
    BY <2>2, <2>3, NumberFacts
<1>7. \A i \in 1 .. calls - FirstWaiting :
         /\ WaitQueue[i] \in Threads
         /\ pc[WaitQueue[i]] = "spin"
         /\ Number(WaitQueue[i]) = FirstWaiting + i - 1
  <2> SUFFICES ASSUME NEW i \in 1 .. calls - FirstWaiting
               PROVE  /\ WaitQueue[i] \in Threads
                      /\ pc[WaitQueue[i]] = "spin"
                      /\ Number(WaitQueue[i]) = FirstWaiting + i - 1
    OBVIOUS
  <2>1. FirstWaiting + i - 1 \in FirstWaiting .. calls - 1
    BY <1>4, NumberFacts
  <2> QED
    BY <2>1, <1>6 DEF WaitQueue, WaitingWith
<1>8. \A t \in Threads : pc[t] = "spin" =>
         /\ Number(t) - FirstWaiting + 1 \in 1 .. calls - FirstWaiting
         /\ WaitQueue[Number(t) - FirstWaiting + 1] = t
  <2> SUFFICES ASSUME NEW t \in Threads, pc[t] = "spin"
               PROVE  /\ Number(t) - FirstWaiting + 1 \in 1 .. calls - FirstWaiting
                      /\ WaitQueue[Number(t) - FirstWaiting + 1] = t
    OBVIOUS
  <2> DEFINE i == Number(t) - FirstWaiting + 1
  <2>1. i \in 1 .. calls - FirstWaiting
    BY <1>4, <1>5, NumberFacts
  <2>2. FirstWaiting + i - 1 = Number(t)
    BY <1>4, NumberFacts
  <2>3. WaitQueue[i] \in Threads /\ pc[WaitQueue[i]] = "spin" /\ Number(WaitQueue[i]) = Number(t)
    BY <1>7, <2>1, <2>2
  <2>4. WaitQueue[i] = t
    BY <2>3, NumberFacts
  <2> QED
    BY <2>1, <2>4
<1>9. calls \in Nat /\ calls - FirstWaiting \in Nat
  BY <1>4, NumberFacts
<1>10. WaitQueue \in [1 .. calls - FirstWaiting -> Threads]
  <2>1. WaitQueue = [i \in 1 .. calls - FirstWaiting |-> WaitQueue[i]]
    BY DEF WaitQueue
  <2> QED
    BY <1>7, <2>1
<1>11. WaitQueue \in Seq(Threads) /\ Len(WaitQueue) = calls - FirstWaiting
  BY <1>9, <1>10
<1> QED
  BY <1>2, <1>3, <1>4, <1>7, <1>8, <1>9, <1>11 DEF QueueFacts

\* A thread that spins at position i of the queue and keeps its number is at
\* position j after a step that moves the number at the front by i - j.
LEMMA KeepsPlace ==
    ASSUME QueueFacts, QueueFacts',
           NEW i \in 1 .. Len(WaitQueue), NEW j \in Int,
           FirstWaiting' + j = FirstWaiting + i,
           pc'[WaitQueue[i]] = "spin",
           \A u \in Threads : u = WaitQueue[i] => Number(u)' = Number(u)
    PROVE  j \in 1 .. Len(WaitQueue') /\ WaitQueue'[j] = WaitQueue[i]
<1>1. PICK u \in Threads : u = WaitQueue[i]
  BY DEF QueueFacts
<1>2. Number(u)' = FirstWaiting + i - 1
  BY <1>1 DEF QueueFacts
<1>3. pc'[u] = "spin"
  BY <1>1
<1>4. /\ Number(u)' - FirstWaiting' + 1 \in 1 .. Len(WaitQueue')
      /\ WaitQueue'[Number(u)' - FirstWaiting' + 1] = u
  BY <1>3 DEF QueueFacts
<1>5. Number(u)' - FirstWaiting' + 1 = j
  <2>1. FirstWaiting \in Int /\ FirstWaiting' \in Int /\ i \in Int
    BY DEF QueueFacts
  <2>2. PICK p \in Int, q \in Int : p = FirstWaiting' /\ q = FirstWaiting
    BY <2>1
  <2>3. p + j = q + i
    BY <2>2
  <2>4. q + i - 1 - p + 1 = j
    BY <2>1, <2>3
  <2>5. PICK n : n = Number(u)'
    OBVIOUS
  <2>6. n = q + i - 1
    BY <1>2, <2>2, <2>5
  <2>7. n - p + 1 = j
    BY <2>4, <2>6
  <2> QED
    BY <2>2, <2>5, <2>7
<1> QED
  BY <1>1, <1>4, <1>5

\* A step that changes neither the numbers drawn, nor the first one waiting,
\* nor who is spinning leaves the queue alone.
LEMMA SameQueue ==
    ASSUME QueueFacts, QueueFacts', calls' = calls, FirstWaiting' = FirstWaiting,
           \A u \in Threads : pc[u] = "spin" =>
               pc'[u] = "spin" /\ Number(u)' = Number(u)
    PROVE  WaitQueue' = WaitQueue
<1>1. /\ WaitQueue \in Seq(Threads) /\ WaitQueue' \in Seq(Threads)
      /\ Len(WaitQueue') = Len(WaitQueue)
  BY DEF QueueFacts
<1>2. \A i \in 1 .. Len(WaitQueue) : WaitQueue'[i] = WaitQueue[i]
  <2> SUFFICES ASSUME NEW i \in 1 .. Len(WaitQueue)
               PROVE  WaitQueue'[i] = WaitQueue[i]
    OBVIOUS
  <2>1. WaitQueue[i] \in Threads /\ pc[WaitQueue[i]] = "spin"
    BY DEF QueueFacts
  <2>2. pc'[WaitQueue[i]] = "spin"
    BY <2>1
  <2>3. \A u \in Threads : u = WaitQueue[i] => Number(u)' = Number(u)
    BY <2>1
  <2> QED
    BY <2>2, <2>3, KeepsPlace
<1> QED
  BY <1>1, <1>2, SeqEqual

LEMMA DrawRequests ==
    ASSUME TypeOK, TicketInv, QueueFacts, QueueFacts', NEW t \in Threads, Draw(t)
    PROVE  Fifo!Request(t)
<1>1. /\ calls \in Nat /\ calls' = calls + 1 /\ now_serving' = now_serving
      /\ pc[t] = "idle" /\ pc'[t] = "spin"
      /\ \A u \in Threads \ {t} : ticket'[u] = ticket[u] /\ pc'[u] = pc[u]
      /\ ticket'[t] = next_ticket
  BY DEF Draw, Goto, TypeOK
<1>2. \A u \in Threads : Holds(u)' <=> Holds(u)
  BY <1>1 DEF Holds
<1>3. FirstWaiting' = FirstWaiting
  BY <1>1, <1>2 DEF FirstWaiting
<1>4. Holder' = Holder
  <2>1. CASE \E u \in Threads : Holds(u)
    <3>1. PICK u \in Threads : Holds(u)
      BY <2>1
    <3>2. Holder = u
      BY <3>1 DEF QueueFacts
    <3>3. Holder' = u
      BY <3>1, <1>2 DEF QueueFacts
    <3> QED
      BY <3>2, <3>3
  <2>2. CASE \A u \in Threads : ~Holds(u)
    BY <2>2, <1>2 DEF QueueFacts
  <2> QED
    BY <2>1, <2>2
<1>5. Holder # t
  <2> SUFFICES ASSUME Holder = t PROVE FALSE
    OBVIOUS
  <2>1. \A u \in Threads : ~Holds(u)
    BY <1>1 DEF QueueFacts, Holds
  <2> QED
    BY <2>1, NoThreadAssumption DEF QueueFacts
<1>6. \A i \in 1 .. calls - FirstWaiting : WaitQueue[i] # t
  BY <1>1 DEF QueueFacts
<1>7. \A u \in Threads \ {t} : Number(u)' = Number(u)
  BY <1>1 DEF Number
<1>8. Number(t)' = calls
  <2>1. calls - now_serving < Width
    BY <1>1, NumbersFit
  <2> QED
    BY <1>1, <2>1 DEF Number, TicketInv, TypeOK, Counter
<1>9. \A i \in 1 .. Len(WaitQueue) : WaitQueue'[i] = WaitQueue[i]
  <2> SUFFICES ASSUME NEW i \in 1 .. Len(WaitQueue)
               PROVE  WaitQueue'[i] = WaitQueue[i]
    OBVIOUS
  <2>1. WaitQueue[i] \in Threads /\ pc[WaitQueue[i]] = "spin" /\ WaitQueue[i] # t
    BY <1>1 DEF QueueFacts
  <2>2. pc'[WaitQueue[i]] = "spin"
    BY <1>1, <2>1
  <2>3. \A u \in Threads : u = WaitQueue[i] => Number(u)' = Number(u)
    BY <1>7, <2>1
  <2> QED
    BY <1>3, <2>2, <2>3, KeepsPlace
<1>10. /\ WaitQueue \in Seq(Threads) /\ WaitQueue' \in Seq(Threads)
       /\ Len(WaitQueue') = Len(WaitQueue) + 1 /\ Len(WaitQueue) \in Nat
  BY <1>1, <1>3 DEF QueueFacts
<1>11. WaitQueue'[Len(WaitQueue) + 1] = t
  <2>1. WaitQueue'[Number(t)' - FirstWaiting' + 1] = t
    BY <1>1 DEF QueueFacts
  <2>2. Number(t)' - FirstWaiting' + 1 = Len(WaitQueue) + 1
    BY <1>3, <1>8 DEF QueueFacts
  <2> QED
    BY <2>1, <2>2
<1>12. WaitQueue' = Append(WaitQueue, t)
  <2>1. /\ Append(WaitQueue, t) \in Seq(Threads)
        /\ Len(Append(WaitQueue, t)) = Len(WaitQueue) + 1
        /\ \A i \in 1 .. Len(WaitQueue) : Append(WaitQueue, t)[i] = WaitQueue[i]
        /\ Append(WaitQueue, t)[Len(WaitQueue) + 1] = t
    BY <1>10, AppendProperties
  <2>2. \A i \in 1 .. Len(WaitQueue') : WaitQueue'[i] = Append(WaitQueue, t)[i]
    BY <1>9, <1>10, <1>11, <2>1
  <2> QED
    BY <1>10, <2>1, <2>2, SeqEqual
<1>13. DOMAIN WaitQueue = 1 .. calls - FirstWaiting
  BY DEF QueueFacts
<1> QED
  BY <1>4, <1>5, <1>6, <1>12, <1>13 DEF Fifo!Request

\* The poll that finds its ticket served is the grant; any other changes
\* nothing.
LEMMA PollGrants ==
    ASSUME TypeOK, TicketInv, QueueFacts, QueueFacts', NEW t \in Threads, Poll(t)
    PROVE  Fifo!Grant \/ UNCHANGED <<WaitQueue, Holder>>
<1>1. CASE now_serving # ticket[t]
  <2>1. UNCHANGED vars
    BY <1>1 DEF Poll, vars
  <2> QED
    BY <2>1 DEF vars, WaitQueue, WaitingWith, Holder, FirstWaiting, Holds, Number
<1>2. CASE now_serving = ticket[t]
  <2>1. /\ calls' = calls /\ now_serving' = now_serving /\ ticket' = ticket
        /\ pc[t] = "spin" /\ pc'[t] = "critical"
        /\ \A u \in Threads \ {t} : pc'[u] = pc[u]
    BY <1>2 DEF Poll, Goto, TypeOK
  <2>2. \A u \in Threads : Number(u)' = Number(u)
    BY <2>1 DEF Number
  <2>3. Number(t) = now_serving
    BY <1>2 DEF Number, TypeOK, Counter
  <2>4. \A u \in Threads : ~Holds(u)
    <3> SUFFICES ASSUME NEW u \in Threads, Holds(u) PROVE FALSE
      OBVIOUS
    <3>1. u = t
      BY <2>1, <2>3, NumberFacts
    <3> QED
      BY <3>1, <2>1 DEF Holds
  <2>5. FirstWaiting = now_serving /\ FirstWaiting' = now_serving + 1
    BY <2>1, <2>4 DEF FirstWaiting, Holds
  <2>6. Holder = NoThread /\ Holder' = t
    <3>1. Holds(t)'
      BY <2>1 DEF Holds
    <3> QED
      BY <3>1, <2>4 DEF QueueFacts
  <2>7. 1 \in 1 .. Len(WaitQueue) /\ WaitQueue[1] = t
    <3>1. Number(t) - FirstWaiting + 1 = 1
      BY <2>3, <2>5, NumberFacts
    <3> QED
      BY <2>1, <3>1 DEF QueueFacts
  <2>8. /\ WaitQueue \in Seq(Threads) /\ WaitQueue' \in Seq(Threads)
        /\ Len(WaitQueue') = Len(WaitQueue) - 1 /\ Len(WaitQueue) \in Nat
    BY <2>1, <2>5 DEF QueueFacts
  <2>9. WaitQueue # << >>
    BY <2>7, <2>8
  <2>10. \A i \in 1 .. Len(WaitQueue) - 1 : WaitQueue'[i] = WaitQueue[i + 1]
    <3> SUFFICES ASSUME NEW i \in 1 .. Len(WaitQueue) - 1
                 PROVE  WaitQueue'[i] = WaitQueue[i + 1]
      OBVIOUS
    <3> DEFINE k == i + 1
    <3>1. k \in 1 .. Len(WaitQueue) /\ k # 1
      BY <2>8
    <3>2. WaitQueue[k] \in Threads /\ pc[WaitQueue[k]] = "spin"
      BY <3>1 DEF QueueFacts
    <3>3. WaitQueue[k] # t
      <4> SUFFICES ASSUME WaitQueue[k] = t PROVE FALSE
        OBVIOUS
      <4>1. Number(WaitQueue[k]) = FirstWaiting + k - 1
        BY <3>1 DEF QueueFacts
      <4>2. Number(t) = FirstWaiting + k - 1
        BY <4>1
      <4> QED
        BY <4>2, <3>1, <2>3, <2>5, NumberFacts
    <3>4. pc'[WaitQueue[k]] = "spin"
      BY <2>1, <3>2, <3>3
    <3>5. FirstWaiting' + i = FirstWaiting + k
      BY <2>5, NumberFacts
    <3> QED
      BY <2>2, <3>1, <3>4, <3>5, KeepsPlace
  <2>11. WaitQueue' = Tail(WaitQueue)
    <3>1. /\ Tail(WaitQueue) \in Seq(Threads)
          /\ Len(Tail(WaitQueue)) = Len(WaitQueue) - 1
          /\ \A i \in 1 .. Len(Tail(WaitQueue)) : Tail(WaitQueue)[i] = WaitQueue[i + 1]
      BY <2>8, <2>9, HeadTailProperties
    <3> QED
      BY <3>1, <2>8, <2>10, SeqEqual
  <2>12. Head(WaitQueue) = t
    BY <2>7, <2>8, <2>9
  <2> QED
    BY <2>6, <2>9, <2>11, <2>12 DEF Fifo!Grant
<1> QED
  BY <1>1, <1>2

\* spin_unlock loads, or traps: the holder stays.
LEMMA UnlockingHolds ==
    ASSUME TypeOK, TicketInv, QueueFacts, QueueFacts', NEW t \in Threads,
           \/ UnlockLoad(t)
           \/ UnlockStore(t) /\ cur[t] = Width - 1
    PROVE  UNCHANGED <<WaitQueue, Holder>>
<1>1. /\ calls' = calls /\ now_serving' = now_serving /\ ticket' = ticket
      /\ pc[t] \in {"critical", "unlock"} /\ pc'[t] \in {"unlock", "trapped"}
      /\ \A u \in Threads \ {t} : pc'[u] = pc[u]
  BY DEF UnlockLoad, UnlockStore, Goto, TypeOK
<1>2. Holds(t) /\ Holds(t)'
  BY <1>1 DEF Holds
<1>3. Holder = t /\ Holder' = t
  BY <1>2 DEF QueueFacts
<1>4. FirstWaiting' = FirstWaiting
  BY <1>1, <1>2 DEF FirstWaiting
<1>5. \A u \in Threads : pc[u] = "spin" =>
         pc'[u] = "spin" /\ Number(u)' = Number(u)
  BY <1>1 DEF Number
<1> QED
  BY <1>1, <1>3, <1>4, <1>5, SameQueue

\* The store of spin_unlock is the release.
LEMMA StoreReleases ==
    ASSUME TypeOK, TicketInv, TicketInv', QueueFacts, QueueFacts',
           NEW t \in Threads, UnlockStore(t), cur[t] # Width - 1
    PROVE  Fifo!Release
<1>1. /\ calls' = calls /\ now_serving' = now_serving + 1 /\ ticket' = ticket
      /\ pc[t] = "unlock" /\ pc'[t] = "idle"
      /\ \A u \in Threads \ {t} : pc'[u] = pc[u]
  BY DEF UnlockStore, Goto, TypeOK, TicketInv
<1>2. Holds(t) /\ Number(t) = now_serving
  BY <1>1, NumberFacts DEF Holds
<1>3. \A u \in Threads : ~Holds(u)'
  <2> SUFFICES ASSUME NEW u \in Threads, Holds(u)' PROVE FALSE
    OBVIOUS
  <2>1. u # t /\ Holds(u)
    BY <1>1 DEF Holds
  <2> QED
    BY <2>1, <1>2, NumberFacts
<1>4. Holder = t /\ Holder' = NoThread
  BY <1>2, <1>3 DEF QueueFacts
<1>5. FirstWaiting' = FirstWaiting
  BY <1>1, <1>2, <1>3 DEF FirstWaiting
<1>6. \A u \in Threads : pc[u] = "spin" =>
         pc'[u] = "spin" /\ Number(u)' = Number(u)
  <2> SUFFICES ASSUME NEW u \in Threads, pc[u] = "spin"
               PROVE  pc'[u] = "spin" /\ Number(u)' = Number(u)
    OBVIOUS
  <2>1. u # t /\ pc'[u] = "spin"
    BY <1>1
  <2>2. Number(u) # now_serving
    BY <2>1, <1>1, <1>2, NumberFacts
  <2>3. ticket[u] # now_serving
    BY <2>2, NumberFacts DEF Number
  <2>4. ticket[u] \in Nat /\ now_serving \in Nat
    BY DEF TypeOK, Counter
  <2> QED
    BY <1>1, <2>1, <2>3, <2>4 DEF Number
<1>7. WaitQueue' = WaitQueue
  BY <1>1, <1>5, <1>6, SameQueue
<1> QED
  BY <1>4, <1>7, NoThreadAssumption DEF Fifo!Release

(***************************************************************************)
(* The ticket lock implements the FIFO lock: spin_lock joins the queue     *)
(* with its fetch_add, the poll that finds its own ticket served is the    *)
(* grant, the store of spin_unlock the release.                            *)
(***************************************************************************)
THEOREM Refinement == Spec => ImplementsFifo
<1>1. Init => Fifo!Init
  <2> SUFFICES ASSUME Init PROVE Fifo!Init
    OBVIOUS
  <2>1. \A t \in Threads : ~Holds(t)
    BY DEF Init, Holds
  <2>2. Holder = NoThread /\ FirstWaiting = 0
    BY <2>1 DEF Holder, FirstWaiting, Init
  <2>3. WaitQueue = << >>
    BY <2>2 DEF WaitQueue, Init
  <2> QED
    BY <2>2, <2>3 DEF Fifo!Init
<1>2. /\ TypeOK /\ TicketInv /\ QueueFacts
      /\ TicketInv' /\ QueueFacts'
      /\ [Next]_vars
      => [Fifo!Next]_(Fifo!vars)
  <2> SUFFICES ASSUME TypeOK, TicketInv, QueueFacts, TicketInv', QueueFacts',
                      [Next]_vars
               PROVE  Fifo!Next \/ UNCHANGED <<WaitQueue, Holder>>
    BY DEF Fifo!vars
  <2>1. ASSUME NEW t \in Threads, Draw(t) PROVE Fifo!Next
    BY <2>1, DrawRequests DEF Fifo!Next
  <2>2. ASSUME NEW t \in Threads, Poll(t)
        PROVE  Fifo!Next \/ UNCHANGED <<WaitQueue, Holder>>
    BY <2>2, PollGrants DEF Fifo!Next
  <2>3. ASSUME NEW t \in Threads, UnlockLoad(t)
        PROVE  UNCHANGED <<WaitQueue, Holder>>
    BY <2>3, UnlockingHolds
  <2>4. ASSUME NEW t \in Threads, UnlockStore(t)
        PROVE  Fifo!Next \/ UNCHANGED <<WaitQueue, Holder>>
    <3>1. CASE cur[t] = Width - 1
      BY <2>4, <3>1, UnlockingHolds
    <3>2. CASE cur[t] # Width - 1
      BY <2>4, <3>2, StoreReleases DEF Fifo!Next
    <3> QED
      BY <3>1, <3>2
  <2>5. CASE UNCHANGED vars
    BY <2>5 DEF vars, WaitQueue, WaitingWith, Holder, FirstWaiting, Holds, Number
  <2> QED
    BY <2>1, <2>2, <2>3, <2>4, <2>5 DEF Next, Continue
<1> QED
  BY <1>1, <1>2, TypeCorrect, TicketsInOrder, QueueIsOrdered, PTL
     DEF Spec, ImplementsFifo, Fifo!Spec
============================================================================
