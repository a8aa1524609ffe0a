------------------------------ MODULE FifoLock ------------------------------
(***************************************************************************)
(* What the header of src/std/sync/spinlock.mc promises of a lock: one     *)
(* holder at a time, granted "in FIFO order".                              *)
(***************************************************************************)
EXTENDS Sequences

CONSTANTS Threads,
          NoThread   \* the holder of a free lock

VARIABLES queue,     \* threads that asked for the lock, in the order they did
          holder

vars == <<queue, holder>>

Init == queue = << >> /\ holder = NoThread

Request(t) ==
    /\ holder # t
    /\ \A i \in DOMAIN queue : queue[i] # t
    /\ queue' = Append(queue, t)
    /\ holder' = holder

Grant ==
    /\ holder = NoThread
    /\ queue # << >>
    /\ holder' = Head(queue)
    /\ queue' = Tail(queue)

Release ==
    /\ holder # NoThread
    /\ holder' = NoThread
    /\ queue' = queue

Next == (\E t \in Threads : Request(t)) \/ Grant \/ Release

Spec == Init /\ [][Next]_vars
============================================================================
