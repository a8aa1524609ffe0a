---------------------------- MODULE ShrinkSource ----------------------------
(***************************************************************************)
(* shrink_source of tools/fuzz/mcfuzz.py: delta debugging by lines.  The   *)
(* loop walks over the lines that are left, drops a line whenever the      *)
(* program without it still fails with the same signature, and repeats the *)
(* walk until one drops nothing.                                           *)
(*                                                                         *)
(* A program is the set of the source's lines that are left (their order   *)
(* never changes).  Which programs fail with the signature is up to the    *)
(* compiler: `shows` is any set of programs that has the whole source,     *)
(* monotone or not.  The index i of the code is the first line not yet     *)
(* tried in this walk: every line of `lines` below `cursor` was tried.     *)
(***************************************************************************)
EXTENDS Naturals

CONSTANT NLines
ASSUME NLinesAssumption == NLines \in Nat

VARIABLES shows, lines, cursor, changed, shrinker
shrinkVars == <<shows, lines, cursor, changed, shrinker>>

Source == 1 .. NLines

ShrinkInit ==
  /\ shows = {} /\ lines = {} /\ cursor = 1 /\ changed = FALSE
  /\ shrinker = "idle"

\* The caller has seen the whole source fail with the signature.
ShrinkBegin ==
  /\ shrinker \in {"idle", "done"}
  /\ shows' \in {s \in SUBSET SUBSET Source : Source \in s}
  /\ lines' = Source /\ cursor' = 1 /\ changed' = FALSE
  /\ shrinker' = "loop"

Untried == {e \in lines : e >= cursor}
Without(e) == lines \ {e}

\* One trial: the program without the next line is given to the oracle.
Trial(e) ==
  /\ shrinker = "loop"
  /\ e \in Untried /\ \A f \in Untried : e <= f
  /\ \/ /\ Without(e) \in shows
        /\ lines' = Without(e) /\ changed' = TRUE
     \/ /\ Without(e) \notin shows
        /\ UNCHANGED <<lines, changed>>
  /\ cursor' = e + 1
  /\ UNCHANGED <<shows, shrinker>>

\* Mutant of ShrinkReturn: one walk over the lines, not a fixpoint.
ReturnAfterOneWalk ==
  /\ shrinker = "loop" /\ Untried = {}
  /\ shrinker' = "done"
  /\ UNCHANGED <<shows, lines, cursor, changed>>

\* `while changed`: a walk that dropped a line is followed by another.
NextWalk ==
  /\ shrinker = "loop" /\ Untried = {} /\ changed
  /\ cursor' = 1 /\ changed' = FALSE
  /\ UNCHANGED <<shows, lines, shrinker>>

ShrinkReturn ==
  /\ shrinker = "loop" /\ Untried = {} /\ ~changed
  /\ shrinker' = "done"
  /\ UNCHANGED <<shows, lines, cursor, changed>>

ShrinkSteps == (\E e \in Source : Trial(e)) \/ NextWalk \/ ShrinkReturn

ShrinkSpec == ShrinkInit /\ [][ShrinkBegin \/ ShrinkSteps]_shrinkVars

-----------------------------------------------------------------------------
(***************************************************************************)
(* The program shrink_source returns fails with the signature, and no line *)
(* of it can be dropped: not only the lines tried last, but also those     *)
(* kept early whose need disappeared when a later line went.               *)
(***************************************************************************)
ReproMinimal ==
  shrinker = "done" =>
     /\ lines \in shows
     /\ \A e \in lines : Without(e) \notin shows

\* What the loop keeps: the current program fails, and in a walk that dropped
\* nothing so far every line already tried is needed.
ShrinkInv ==
  /\ shrinker \in {"idle", "loop", "done"}
  /\ lines \subseteq Source /\ cursor \in Nat /\ changed \in BOOLEAN
  /\ shrinker # "idle" => lines \in shows
  /\ shrinker = "loop" /\ ~changed =>
        \A e \in lines : e < cursor => Without(e) \notin shows
  /\ ReproMinimal
=============================================================================
