------------------------------ MODULE Spinlock ------------------------------
(***************************************************************************)
(* The ticket lock of src/std/sync/spinlock.mc and the threads that use    *)
(* it, one action per atomic access to the two counters.                   *)
(*                                                                         *)
(* The counters are u32: Width is 2^32.  fetch_add wraps, the checked      *)
(* `cur + 1` of spin_unlock traps instead, and a trapped thread never      *)
(* takes another step.  A thread unlocks only what it locked.              *)
(***************************************************************************)
EXTENDS Naturals, FiniteSets

CONSTANTS Threads,
          Width,      \* number of values of a counter
          MaxCalls    \* bound on the calls of spin_lock

ASSUME SpinlockAssumption ==
    /\ IsFiniteSet(Threads)
    /\ Width \in Nat \ {0}
    /\ Cardinality(Threads) <= Width
    /\ MaxCalls \in Nat

VARIABLES
    next_ticket, now_serving,
    pc,       \* idle, spin (in spin_lock), critical, unlock (in
              \* spin_unlock, between the load and the store), trapped
    ticket,   \* `my` of spin_lock
    cur,      \* `cur` of spin_unlock
    calls     \* calls of spin_lock so far

vars == <<next_ticket, now_serving, pc, ticket, cur, calls>>

Counter == 0 .. Width - 1

\* The value fetch_add(1) stores.
Wrap(n) == IF n = Width - 1 THEN 0 ELSE n + 1

Goto(t, label) == pc' = [pc EXCEPT ![t] = label]

\* spinlock_init, or zero-initialized storage.
Init ==
    /\ next_ticket = 0
    /\ now_serving = 0
    /\ pc = [t \in Threads |-> "idle"]
    /\ ticket = [t \in Threads |-> 0]
    /\ cur = [t \in Threads |-> 0]
    /\ calls = 0

\* spin_lock: next_ticket.fetch_add(1).
Draw(t) ==
    /\ pc[t] = "idle"
    /\ calls < MaxCalls
    /\ calls' = calls + 1
    /\ ticket' = [ticket EXCEPT ![t] = next_ticket]
    /\ next_ticket' = Wrap(next_ticket)
    /\ Goto(t, "spin")
    /\ UNCHANGED <<now_serving, cur>>

\* Mutant of Poll: waits until at least its own ticket is served.
PollAtLeast(t) ==
    /\ pc[t] = "spin"
    /\ IF now_serving >= ticket[t] THEN Goto(t, "critical") ELSE pc' = pc
    /\ UNCHANGED <<next_ticket, now_serving, ticket, cur, calls>>

\* spin_lock: one turn of the loop.
Poll(t) ==
    /\ pc[t] = "spin"
    /\ IF now_serving = ticket[t] THEN Goto(t, "critical") ELSE pc' = pc
    /\ UNCHANGED <<next_ticket, now_serving, ticket, cur, calls>>

\* spin_unlock: now_serving.load.
UnlockLoad(t) ==
    /\ pc[t] = "critical"
    /\ cur' = [cur EXCEPT ![t] = now_serving]
    /\ Goto(t, "unlock")
    /\ UNCHANGED <<next_ticket, now_serving, ticket, calls>>

\* Mutant of UnlockStore: the store is lost.
UnlockWithoutStore(t) ==
    /\ pc[t] = "unlock"
    /\ Goto(t, "idle")
    /\ UNCHANGED <<next_ticket, now_serving, ticket, cur, calls>>

\* Mutant of UnlockStore: writes next_ticket, freeing every waiter's turn.
UnlockServesNext(t) ==
    /\ pc[t] = "unlock"
    /\ now_serving' = next_ticket
    /\ Goto(t, "idle")
    /\ UNCHANGED <<next_ticket, ticket, cur, calls>>

\* spin_unlock: now_serving.store(cur + 1), unless the checked addition
\* traps.
UnlockStore(t) ==
    /\ pc[t] = "unlock"
    /\ IF cur[t] = Width - 1
       THEN Goto(t, "trapped") /\ UNCHANGED now_serving
       ELSE Goto(t, "idle") /\ now_serving' = cur[t] + 1
    /\ UNCHANGED <<next_ticket, ticket, cur, calls>>

\* A call in progress goes on; it is up to a thread to make one.
Continue(t) == Poll(t) \/ UnlockLoad(t) \/ UnlockStore(t)

Next == \E t \in Threads : Draw(t) \/ Continue(t)

\* Every thread has a processor of its own, or is preempted for finite times
\* only, and leaves its critical section.
FairSpec == Init /\ [][Next]_vars /\ \A t \in Threads : WF_vars(Continue(t))

Spec == Init /\ [][Next]_vars

----------------------------------------------------------------------------
(* Properties.                                                             *)

TypeOK ==
    /\ next_ticket \in Counter /\ now_serving \in Counter
    /\ pc \in [Threads -> {"idle", "spin", "critical", "unlock", "trapped"}]
    /\ ticket \in [Threads -> Counter]
    /\ cur \in [Threads -> Counter]
    /\ calls \in 0 .. MaxCalls

\* A thread has the lock until the store of spin_unlock.
Holds(t) == pc[t] \in {"critical", "unlock", "trapped"}

(***************************************************************************)
(* Two threads never hold the lock at once, also after next_ticket has     *)
(* wrapped around and when a thread trapped inside spin_unlock.            *)
(***************************************************************************)
MutualExclusion ==
    \A t, u \in Threads : Holds(t) /\ Holds(u) => t = u

\* The number of a ticket counted without wrapping, for a drawn one.
Number(t) ==
    IF ticket[t] >= now_serving THEN ticket[t] ELSE ticket[t] + Width

\* The threads between Draw and the store of spin_unlock.
Outstanding == {t \in Threads : pc[t] # "idle"}

(***************************************************************************)
(* The inductive invariant behind MutualExclusion: the outstanding tickets *)
(* are exactly the numbers from now_serving to the last one drawn, no two  *)
(* threads have the same one, and only the thread being served holds the   *)
(* lock.                                                                   *)
(***************************************************************************)
TicketInv ==
    /\ next_ticket = IF calls < Width THEN calls ELSE calls - Width
    /\ now_serving <= calls
    /\ calls < Width + Width
    /\ \A t \in Outstanding : Number(t) < calls
    /\ \A t, u \in Outstanding : Number(t) = Number(u) => t = u
    /\ \A n \in now_serving .. calls - 1 : \E t \in Outstanding : Number(t) = n
    /\ \A t \in Threads : Holds(t) => ticket[t] = now_serving
    /\ \A t \in Threads : pc[t] \in {"unlock", "trapped"} => cur[t] = now_serving

(***************************************************************************)
(* Every thread that called spin_lock gets the lock, unless the counter is *)
(* exhausted and spin_unlock traps: no ticket is skipped or served twice.  *)
(* Without that exception (the "no starvation" of the header) it is false: *)
(* the unlock after the last ticket traps with the lock held.              *)
(***************************************************************************)
ServedUnlessTrapped ==
    \A t \in Threads :
        pc[t] = "spin" ~> (pc[t] = "critical" \/ \E u \in Threads : pc[u] = "trapped")
============================================================================
