----------------------------- MODULE KeepFlags -----------------------------
(***************************************************************************)
(* _keep_flags of the spec-corpus sweeps (tools/toolchain/                 *)
(* spec_sweep_lib.py): which chunks of a fixture survive once the ones     *)
(* that carry an expected error are dropped.  A chunk left naming          *)
(* something that only dropped chunks declare is dropped as well, round    *)
(* after round, until a round drops nothing.                               *)
(*                                                                         *)
(* A chunk is a record of the names it declares, the other names it        *)
(* mentions, and whether it is marked as rejected.                         *)
(***************************************************************************)
EXTENDS Naturals

CONSTANT ChunkTables      \* the fixtures: functions from indices to chunks

VARIABLES chunk,          \* the chunks of the fixture being stripped
          keep,           \* the indices whose flag is set
          keepPc          \* "idle", "loop" or "returned"

keepVars == <<chunk, keep, keepPc>>

Unrejected   == {i \in DOMAIN chunk : ~chunk[i].rejected}
Available(K) == UNION {chunk[i].declares : i \in K}

Missing(K)   == UNION {chunk[i].declares : i \in DOMAIN chunk \ K} \ Available(K)
Dangling(K)  == {i \in K : chunk[i].references \cap Missing(K) # {}}

KeepInit == chunk = << >> /\ keep = {} /\ keepPc = "idle"

KeepBegin(table) ==
  /\ keepPc = "idle"
  /\ chunk' = table
  /\ keep' = {i \in DOMAIN table : ~table[i].rejected}
  /\ keepPc' = "loop"

\* One turn of the loop.  `missing` is computed before any flag is cleared.
KeepRound ==
  /\ keepPc = "loop"
  /\ Dangling(keep) # {}
  /\ keep' = keep \ Dangling(keep)
  /\ UNCHANGED <<chunk, keepPc>>

\* Mutant of KeepReturn: one round only, not the transitive closure.
KeepReturnEarly ==
  /\ keepPc = "loop"
  /\ Dangling(keep) = {} \/ keep # Unrejected
  /\ keepPc' = "returned"
  /\ UNCHANGED <<chunk, keep>>

\* Mutant of KeepReturn: the loop ends only when nothing is missing.
KeepReturnNoneMissing ==
  /\ keepPc = "loop"
  /\ Missing(keep) = {}
  /\ keepPc' = "returned"
  /\ UNCHANGED <<chunk, keep>>

\* Nothing is missing, or the round dropped nothing.
KeepReturn ==
  /\ keepPc = "loop"
  /\ Dangling(keep) = {}
  /\ keepPc' = "returned"
  /\ UNCHANGED <<chunk, keep>>

\* The caller has joined the kept chunks.
KeepJoined ==
  /\ keepPc = "returned"
  /\ keepPc' = "idle"
  /\ UNCHANGED <<chunk, keep>>

KeepNext == (\E table \in ChunkTables : KeepBegin(table)) \/ KeepRound \/ KeepReturn \/ KeepJoined

KeepSpec == KeepInit /\ [][KeepNext]_keepVars

-----------------------------------------------------------------------------

Closed(K) == K \subseteq Unrejected /\ Dangling(K) = {}

\* What _keep_flags returns can stand alone: nothing kept is marked as rejected
\* or names something that only dropped chunks declare, however many rounds the
\* chain of uses took.  And nothing is dropped without need: every set of chunks
\* that can stand alone is kept, so the sweep loses no accept case, although
\* chunks may declare the same name and depend on each other in a circle.
KeptIsGreatest ==
  keepPc = "returned" =>
    /\ Closed(keep)
    /\ \A K \in SUBSET Unrejected : Closed(K) => K \subseteq keep

=============================================================================
