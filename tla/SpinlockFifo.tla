---------------------------- MODULE SpinlockFifo ----------------------------
(***************************************************************************)
(* The ticket lock of Spinlock implements the FIFO lock of FifoLock.       *)
(***************************************************************************)
EXTENDS Spinlock, Sequences

CONSTANT NoThread

ASSUME NoThreadAssumption == NoThread \notin Threads

Holder == IF \E t \in Threads : Holds(t) THEN CHOOSE t \in Threads : Holds(t)
          ELSE NoThread

\* The number that is granted the lock next.
FirstWaiting ==
    IF \E t \in Threads : Holds(t) THEN now_serving + 1 ELSE now_serving

\* The threads that wait with number n.
WaitingWith(n) == {t \in Threads : pc[t] = "spin" /\ Number(t) = n}

\* The waiting threads in the order of their tickets.  A number nobody waits
\* with would show as NoThread.
WaitQueue ==
    [i \in 1 .. calls - FirstWaiting |->
        LET S == WaitingWith(FirstWaiting + i - 1)
        IN  IF S = {} THEN NoThread ELSE CHOOSE t \in S : TRUE]

Fifo == INSTANCE FifoLock WITH queue <- WaitQueue, holder <- Holder

(***************************************************************************)
(* The ticket lock implements the FIFO lock: a thread joins the queue when *)
(* it draws its ticket and is granted the lock when its ticket is served.  *)
(***************************************************************************)
ImplementsFifo == Fifo!Spec
============================================================================
