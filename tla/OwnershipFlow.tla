--------------------------- MODULE OwnershipFlow ---------------------------
(***************************************************************************)
(* The MIR ownership-event verifier of src/src/mir_cleanup_cfg.zig, and    *)
(* the execution of the functions it admits.                               *)
(*                                                                         *)
(* A MIR function carries one list of ownership events (storage_live,      *)
(* init, move_out, ...), each naming the CFG block it executes in, the     *)
(* local (root) it is about and the generation of that local.              *)
(* VerifiedProgram.init hands a function to the backends only when two     *)
(* passes over the list succeed: the lowering admission, which fails       *)
(* closed, and the diagnostic verifier, which has nothing to report when   *)
(* it runs out of memory.  Each pass solves, root by root, a forward       *)
(* dataflow problem over the CFG (a set of possible states per block) and  *)
(* then checks every event against the solved states.                      *)
(*                                                                         *)
(* The second half of the module, Execute*, runs an admitted function: any *)
(* path through the CFG, the events of a block in list order.  The         *)
(* properties relate the two halves.                                       *)
(*                                                                         *)
(* Abstracted: an event's place is its root and whether the root's type    *)
(* identity is known (typed); places with projections and places rooted at *)
(* a symbol are skipped by every loop modelled here and so are left out.   *)
(* The identity checks of one event (loan, glue, place) are one Boolean,   *)
(* shaped.  The one entry buffer that the code reuses for every root is    *)
(* entry[cur]: starting a root resets what the root before it left there.  *)
(* The flows of the earlier roots, overwritten in the code, stay in entry  *)
(* as a history, for the properties that relate them to the execution.     *)
(***************************************************************************)
EXTENDS Integers, Sequences

CONSTANTS NBlocks,       \* number of basic blocks of the function
          Roots,         \* the function's locals (value ids)
          MirFunctions   \* the functions that may be submitted

Blocks == 0 .. NBlocks - 1

Consuming == {"move_out", "forget", "explicit_drop", "auto_drop"}
Neutral == {"borrow_begin", "borrow_end", "set_drop_flag"}
Kinds == {"storage_live", "init", "reinit", "storage_dead"}
           \cup Consuming \cup Neutral

States == {"untracked", "storage_live", "live", "consumed"}

Event == [kind : Kinds, block : Nat, root : Roots, gen : Nat,
          typed : BOOLEAN, shaped : BOOLEAN]

MirFunction == [succ : [Blocks -> SUBSET Nat], events : Seq(Event)]

ASSUME ConstantsAssumption ==
    /\ NBlocks \in Nat \ {0}
    /\ \A f \in MirFunctions :
          /\ f.succ \in [Blocks -> SUBSET Nat]
          /\ f.events \in Seq(Event)

VARIABLES
    fn,       \* the function: successors of every block and the event list
    pass,     \* "admission" (validateOwnershipEventsForLowering) or
              \* "diagnostic" (verifyFunctionOwnershipEvents)
    phase,    \* where the pass is, or what became of the function
    errors,   \* reporter.has_errors
    seen,     \* roots already analysed in this pass
    cur,      \* the root being analysed
    entry,    \* entry[r][b]: flow of root r on entry to block b; entry[cur]
              \* is the buffer, of the other roots what it held for them
    round,    \* rounds of the solver for cur
    index,    \* next block of the round
    changed,  \* did this round change an entry flow
    cut,      \* history: roots whose solver stopped at the round bound, its
              \* last round still changing an entry flow
    bb,       \* execution: the current block
    pos,      \* execution: last event position executed in bb, 0 if none
    own       \* execution: own[r], what really became of root r

events == fn.events
Positions == DOMAIN events

analysis == <<seen, cur, entry, round, index, changed, cut>>
execution == <<bb, pos, own>>
vars == <<fn, pass, phase, errors, analysis, execution>>

----------------------------------------------------------------------------
(* The lattice: OwnershipStateSet is a set of States, OwnershipFlow a      *)
(* record.                                                                 *)

Flow == [reachable : BOOLEAN, states : SUBSET States, generation : Nat,
         ambiguous : BOOLEAN]

Unreached == [reachable |-> FALSE, states |-> {}, generation |-> 0,
              ambiguous |-> FALSE]

single(state, generation) ==
    [reachable |-> TRUE, states |-> {state}, generation |-> generation,
     ambiguous |-> FALSE]

\* Mutant of join: predecessors that disagree on the generation are not
\* marked ambiguous.
joinForgetsAmbiguity(self, other) ==
    IF ~other.reachable THEN self
    ELSE IF ~self.reachable THEN other
    ELSE [reachable |-> TRUE,
          states |-> self.states \cup other.states,
          generation |-> self.generation,
          ambiguous |-> FALSE]

join(self, other) ==
    IF ~other.reachable THEN self
    ELSE IF ~self.reachable THEN other
    ELSE [reachable |-> TRUE,
          states |-> self.states \cup other.states,
          generation |-> IF self.generation >= other.generation
                         THEN self.generation ELSE other.generation,
          ambiguous |-> \/ self.ambiguous
                        \/ other.ambiguous
                        \/ self.generation # other.generation]

\* The state a state-setting event leaves its root in.
Post(kind) ==
    IF kind = "storage_live" THEN "storage_live"
    ELSE IF kind \in {"init", "reinit"} THEN "live"
    ELSE IF kind \in Consuming THEN "consumed"
    ELSE "untracked"

applyOwnershipEvent(flow, event) ==
    IF event.kind \in Neutral THEN flow
    ELSE single(Post(event.kind), event.gen)

----------------------------------------------------------------------------
(* The function under verification, passed along as in the code.           *)

\* Successors of block b that the solver and the execution can follow; the
\* others are skipped.
Targets(f, b) == f.succ[b] \cap Blocks

ownershipEventTracksRoot(event, r) == event.typed /\ event.root = r

ownershipRootHasStorageLive(f, r) ==
    \E i \in DOMAIN f.events :
        f.events[i].root = r /\ f.events[i].kind = "storage_live"

\* The roots ownershipEventSequenceValid analyses.
TrackedRoots(f) ==
    {r \in Roots : /\ ownershipRootHasStorageLive(f, r)
                   /\ \E i \in DOMAIN f.events :
                         ownershipEventTracksRoot(f.events[i], r)}

\* Positions up to n, in block b, that set the state of r.
Setters(f, r, b, n) ==
    {j \in 1 .. n : /\ ownershipEventTracksRoot(f.events[j], r)
                    /\ f.events[j].block = b
                    /\ f.events[j].kind \notin Neutral}

IsLast(j, S) == j \in S /\ \A k \in S : k <= j

\* Flow of r after the first n list positions, starting block b with
\* incoming.  Every event either leaves the flow alone or replaces it, so
\* the loop of the code comes down to the last event that replaces it.
applyOwnershipBlockEvents(f, r, b, n, incoming) ==
    LET S == Setters(f, r, b, n)
    IN  IF S = {} THEN incoming
        ELSE applyOwnershipEvent(incoming, f.events[CHOOSE j \in S : IsLast(j, S)])

\* The flow of r at the end of block b, given its entry flows.
ExitFlow(f, r, flows, b) ==
    applyOwnershipBlockEvents(f, r, b, Len(f.events), flows[b])

----------------------------------------------------------------------------
(* Validation of one event against the flow it executes in.                *)

\* The list position that closes an auto_drop: the next event of the root
\* must be its storage_dead.
autoDropClosingStorageDead(f, i, r) ==
    \E k \in DOMAIN f.events :
        /\ k > i
        /\ f.events[k].root = r
        /\ f.events[k].kind = "storage_dead"
        /\ \A j \in i + 1 .. k - 1 : f.events[j].root # r

\* Mutant of ownershipEventValidInFlow: an event that needs an owned root
\* accepts one that is owned along some path only.
validIfMaybeLive(f, i, r, flow) ==
    LET e == f.events[i]
    IN  CASE e.kind \in Consuming \cup {"borrow_begin", "set_drop_flag"} ->
               "live" \in flow.states
          [] e.kind = "init" -> flow.states = {"storage_live"}
          [] e.kind = "reinit" -> flow.states \subseteq {"storage_live", "consumed"}
          [] OTHER -> TRUE

\* Mutant of ownershipEventValidInFlow: storage may be left while the value
\* in it is owned.
validWithoutStorageDeadCheck(f, i, r, flow) ==
    LET e == f.events[i]
    IN  CASE e.kind = "storage_live" -> "live" \notin flow.states /\ e.gen = 0
          [] e.kind = "init" -> flow.states = {"storage_live"}
          [] e.kind = "reinit" -> flow.states \subseteq {"storage_live", "consumed"}
          [] e.kind \in Consuming \cup {"borrow_begin", "set_drop_flag"} ->
               flow.states = {"live"}
          [] OTHER -> TRUE

ownershipEventValidInFlow(f, i, r, flow) ==
    LET e == f.events[i]
        generationIs(g) == ~flow.ambiguous => e.gen = g
        only(s) == flow.states = {s}
    IN  CASE e.kind = "storage_live" ->
               /\ "live" \notin flow.states
               /\ e.gen = 0
          [] e.kind = "init" ->
               only("storage_live") /\ generationIs(flow.generation)
          [] e.kind = "reinit" ->
               /\ flow.states # {}
               /\ flow.states \subseteq {"storage_live", "consumed"}
               /\ only("storage_live") => generationIs(flow.generation)
               /\ only("consumed") => generationIs(flow.generation + 1)
          [] e.kind \in Consuming ->
               /\ only("live") /\ generationIs(flow.generation)
               /\ e.kind = "auto_drop" => autoDropClosingStorageDead(f, i, r)
          [] e.kind \in {"borrow_begin", "set_drop_flag"} ->
               only("live") /\ generationIs(flow.generation)
          [] e.kind = "storage_dead" ->
               /\ "live" \notin flow.states
               /\ ~only("untracked") => generationIs(flow.generation)
          [] OTHER -> TRUE      \* borrow_end

\* Every event of r is valid in the flow that reaches it; a block that the
\* dataflow never reached has nothing to validate.
ownershipRootFlowValid(f, r, flows) ==
    \A b \in Blocks : flows[b].reachable =>
        \A i \in DOMAIN f.events :
            (ownershipEventTracksRoot(f.events[i], r) /\ f.events[i].block = b) =>
                ownershipEventValidInFlow(f, i, r,
                    applyOwnershipBlockEvents(f, r, b, i - 1, flows[b]))

\* Mutant of typedOwnershipRootsClosed.
neverCheckClosed(f) == TRUE

\* The positions that set the state of r, in any block.
AllSetters(f, r) ==
    {j \in DOMAIN f.events : /\ ownershipEventTracksRoot(f.events[j], r)
                             /\ f.events[j].kind \notin Neutral}

\* In list order no typed root is left owned by its last event.
typedOwnershipRootsClosed(f) ==
    \A r \in Roots : \A j \in AllSetters(f, r) :
        IsLast(j, AllSetters(f, r)) => Post(f.events[j].kind) # "live"

\* One event taken by itself: its block exists and its identities are the
\* ones its kind requires.
ownershipEventValid(e) == e.block \in Blocks /\ e.shaped

----------------------------------------------------------------------------
Init ==
    /\ fn \in MirFunctions
    /\ pass = "admission"
    /\ phase = "start"
    /\ errors = FALSE
    /\ seen = {}
    /\ cur \in Roots
    /\ entry = [r \in Roots |-> [b \in Blocks |-> Unreached]]
    /\ round = 0
    /\ index = 0
    /\ changed = FALSE
    /\ cut = {}
    /\ bb = 0
    /\ pos = 0
    /\ own = [r \in Roots |-> [state |-> "untracked", gen |-> 0]]

\* The end of a pass with the answer ok of ownershipEventSequenceValid.  The
\* admission comes first and returns an error; the diagnostic verifier
\* reports, and VerifiedProgram.init stops if anything was reported.
Conclude(ok) ==
    /\ IF pass = "admission"
       THEN /\ phase' = IF ok THEN "start" ELSE "rejected"
            /\ pass' = IF ok THEN "diagnostic" ELSE pass
            /\ errors' = errors
       ELSE /\ phase' = IF ok /\ ~errors THEN "running" ELSE "rejected"
            /\ errors' = (errors \/ ~ok)
            /\ pass' = pass
    /\ UNCHANGED <<fn, analysis, execution>>

\* Every event by itself: the admission stops at a malformed one, the
\* diagnostic verifier reports it and goes on.
CheckEvents ==
    /\ phase = "start"
    /\ LET ok == \A i \in Positions : ownershipEventValid(events[i])
       IN  /\ phase' = IF pass = "admission" /\ ~ok THEN "rejected" ELSE "roots"
           /\ errors' = (errors \/ (pass = "diagnostic" /\ ~ok))
    /\ seen' = {}
    /\ UNCHANGED <<fn, pass, cur, entry, round, index, changed, cut, execution>>

\* Mutant of Reset: only the entry block is overwritten, and the other blocks
\* keep the flows of the root before.
ResetFirstBlock(buffer) == [buffer EXCEPT ![0] = single("untracked", 0)]

\* solveOwnershipRootEntryStates overwrites the buffer, whatever the previous
\* root or, for the first one, the allocator left in it.
Reset(buffer) ==
    [b \in DOMAIN buffer |-> IF b = 0 THEN single("untracked", 0) ELSE Unreached]

\* The next root in list order that is not analysed yet: reset the buffer and
\* start solving.
NextRoot ==
    /\ phase = "roots"
    /\ \E i \in Positions :
          /\ events[i].typed
          /\ events[i].root \in TrackedRoots(fn) \ seen
          /\ \A j \in 1 .. i - 1 : events[j].root \notin TrackedRoots(fn) \ seen
                                     \/ ~events[j].typed
          /\ cur' = events[i].root
          /\ seen' = seen \cup {events[i].root}
          /\ entry' = [entry EXCEPT ![events[i].root] = Reset(entry[cur])]
          /\ cut' = cut \ {events[i].root}
    /\ round' = 0
    /\ index' = 0
    /\ changed' = FALSE
    /\ phase' = "solving"
    /\ UNCHANGED <<fn, pass, errors, execution>>

\* The entry buffer cannot be allocated, before the first root, or the list
\* of seen roots cannot grow for another one.  The lowering admission
\* propagates the error; the diagnostic verifier says `catch true`.
AnalysisOutOfMemory ==
    /\ phase = "roots"
    /\ seen = {} \/ ~(TrackedRoots(fn) \subseteq seen)
    /\ Conclude(pass = "diagnostic")

\* All roots analysed: the list-order closing check decides.
FinishRoots ==
    /\ phase = "roots"
    /\ TrackedRoots(fn) \subseteq seen
    /\ Conclude(typedOwnershipRootsClosed(fn))

\* One block of one round: its exit flow is joined into its successors.
SolveBlock ==
    /\ phase = "solving"
    /\ index < NBlocks
    /\ LET flows == entry[cur]
           exit == ExitFlow(fn, cur, flows, index)
           next == [s \in Blocks |->
                       IF flows[index].reachable /\ s \in Targets(fn, index)
                       THEN join(flows[s], exit) ELSE flows[s]]
       IN  /\ entry' = [entry EXCEPT ![cur] = next]
           /\ changed' = (changed \/ next # flows)
    /\ index' = index + 1
    /\ UNCHANGED <<fn, pass, phase, errors, seen, cur, round, cut, execution>>

\* Mutant of EndRound: changed is not reset, so the loop never sees a round
\* without changes, and the bound is gone.
NeverConverged ==
    /\ phase = "solving"
    /\ index = NBlocks
    /\ phase' = IF changed THEN "solving" ELSE "validating"
    /\ index' = 0
    /\ UNCHANGED <<fn, pass, errors, seen, cur, entry, round, changed, cut, execution>>

\* Mutant of EndRound: the bound is gone and changed is not reset.
RoundsUnbounded ==
    /\ phase = "solving"
    /\ index = NBlocks
    /\ phase' = IF changed THEN "solving" ELSE "validating"
    /\ round' = round + 1
    /\ index' = 0
    /\ UNCHANGED <<fn, pass, errors, seen, cur, entry, changed, cut, execution>>

\* End of a round: leave the loop when nothing changed or when the bound
\* `rounds <= blocks.len` is used up.
EndRound ==
    /\ phase = "solving"
    /\ index = NBlocks
    /\ phase' = IF changed /\ round < NBlocks THEN "solving" ELSE "validating"
    /\ round' = round + 1
    /\ index' = 0
    /\ changed' = FALSE
    /\ cut' = IF changed /\ phase' = "validating" THEN cut \cup {cur} ELSE cut
    /\ UNCHANGED <<fn, pass, errors, seen, cur, entry, execution>>

ValidateRoot ==
    /\ phase = "validating"
    /\ IF ownershipRootFlowValid(fn, cur, entry[cur])
       THEN /\ phase' = "roots"
            /\ UNCHANGED <<fn, pass, errors, analysis, execution>>
       ELSE Conclude(FALSE)

----------------------------------------------------------------------------
(* Execution of an admitted function.                                      *)

\* The next event of the current block that touches a typed root.
IsNextEvent(i) ==
    /\ i \in Positions /\ i > pos
    /\ events[i].block = bb /\ events[i].typed
    /\ \A j \in pos + 1 .. i - 1 : ~(events[j].block = bb /\ events[j].typed)

ExecuteEvent ==
    /\ phase = "running"
    /\ \E i \in Positions :
          /\ IsNextEvent(i)
          /\ pos' = i
          /\ own' = IF events[i].kind \in Neutral THEN own
                    ELSE [own EXCEPT ![events[i].root] =
                             [state |-> Post(events[i].kind), gen |-> events[i].gen]]
    /\ UNCHANGED <<fn, pass, phase, errors, analysis, bb>>

BlockDone ==
    \A i \in Positions : i > pos => ~(events[i].block = bb /\ events[i].typed)

FollowEdge ==
    /\ phase = "running"
    /\ BlockDone
    /\ bb' \in Targets(fn, bb)
    /\ pos' = 0
    /\ UNCHANGED <<fn, pass, phase, errors, analysis, own>>

Return ==
    /\ phase = "running"
    /\ BlockDone
    /\ Targets(fn, bb) = {}
    /\ phase' = "returned"
    /\ UNCHANGED <<fn, pass, errors, analysis, execution>>

Finished ==
    /\ phase \in {"rejected", "returned"}
    /\ UNCHANGED vars

Next ==
    \/ CheckEvents \/ NextRoot \/ AnalysisOutOfMemory \/ FinishRoots
    \/ SolveBlock \/ EndRound \/ ValidateRoot
    \/ ExecuteEvent \/ FollowEdge \/ Return
    \/ Finished

Spec == Init /\ [][Next]_vars

FairSpec == Spec /\ WF_vars(Next)

----------------------------------------------------------------------------
(* Properties.                                                             *)

TypeOK ==
    /\ fn.succ \in [Blocks -> SUBSET Nat] /\ fn.events \in Seq(Event)
    /\ pass \in {"admission", "diagnostic"}
    /\ phase \in {"start", "roots", "solving", "validating", "running",
                  "returned", "rejected"}
    /\ errors \in BOOLEAN
    /\ seen \subseteq Roots
    /\ cur \in Roots
    /\ entry \in [Roots -> [Blocks -> Flow]]
    /\ round \in 0 .. NBlocks + 1
    /\ phase = "solving" => round <= NBlocks
    /\ index \in 0 .. NBlocks
    /\ changed \in BOOLEAN
    /\ cut \subseteq Roots
    /\ bb \in Blocks
    /\ pos \in 0 .. Len(events)
    /\ own \in [Roots -> [state : States, gen : Nat]]

\* What the language lets an ownership operation do to a root in a state.
Permitted(kind, state) ==
    CASE kind = "storage_live" -> state # "live"
      [] kind = "init" -> state = "storage_live"
      [] kind = "reinit" -> state \in {"storage_live", "consumed"}
      [] kind \in Consuming -> state = "live"
      [] kind \in {"borrow_begin", "set_drop_flag"} -> state = "live"
      [] kind = "storage_dead" -> state # "live"
      [] OTHER -> TRUE

(***************************************************************************)
(* No path through an admitted function moves, drops, borrows or flags a   *)
(* root it does not own, initializes an owned one, or enters or leaves the *)
(* storage of an owned one: the promise of ownershipEventSequenceValid,    *)
(* "valid sequence along every path".                                      *)
(***************************************************************************)
NoInvalidOperation ==
    phase = "running" =>
        \A i \in Positions :
            (IsNextEvent(i) /\ events[i].root \in TrackedRoots(fn)) =>
                Permitted(events[i].kind, own[events[i].root].state)

\* Flow f accounts for the concrete state c of a root.
Covers(f, c) ==
    /\ f.reachable
    /\ c.state \in f.states
    /\ f.ambiguous \/ f.generation = c.gen

(***************************************************************************)
(* Wherever an admitted function is, the flow the solver computed for that *)
(* block accounts for the state and the generation of every root it        *)
(* analysed: no state and no generation is lost at a merge.                *)
(***************************************************************************)
ExecutionCovered ==
    phase = "running" =>
        \A r \in TrackedRoots(fn) :
            Covers(applyOwnershipBlockEvents(fn, r, bb, pos, entry[r][bb]), own[r])

\* The exit flow of b adds nothing to the entry flows of its successors.
Stable(f, r, flows, b) ==
    flows[b].reachable =>
        \A s \in Targets(f, b) : join(flows[s], ExitFlow(f, r, flows, b)) = flows[s]

Fixpoint(f, r, flows) == \A b \in Blocks : Stable(f, r, flows, b)

\* The state in which a run through block b leaves root r that was in state s:
\* the last state-setting event of the block decides.
StateAfter(f, r, b, s) ==
    LET S == Setters(f, r, b, Len(f.events))
    IN  IF S = {} THEN s ELSE Post(f.events[CHOOSE j \in S : IsLast(j, S)].kind)

\* K holds the start of an execution and is closed under running a block and
\* following one of its edges.  The least such K is the set of the pairs
\* <<block, state on entry>> that some path leads to.
PathClosed(f, r, K) ==
    /\ <<0, "untracked">> \in K
    /\ \A b \in Blocks, s \in States : <<b, s>> \in K =>
           \A t \in Targets(f, b) : <<t, StateAfter(f, r, b, s)>> \in K

Solved(flows) == {p \in Blocks \X States : p[2] \in flows[p[1]].states}

(***************************************************************************)
(* The solved entry flow of a block is exactly what paths can do: a state  *)
(* is in it if and only if some path from the entry block leaves the root  *)
(* in that state.  A merge forgets nothing, and an arm that never reaches  *)
(* a block does not make the verifier reject it (the move_diverge case of  *)
(* ownershipEventSequenceValid's comment).                                 *)
(***************************************************************************)
EntryStatesExact ==
    phase = "validating" =>
        /\ PathClosed(fn, cur, Solved(entry[cur]))
        /\ \A K \in SUBSET Solved(entry[cur]) :
               PathClosed(fn, cur, K) => K = Solved(entry[cur])
        /\ \A b \in Blocks :
               entry[cur][b].reachable <=> entry[cur][b].states # {}

(***************************************************************************)
(* A function that returns from the block holding a root's last            *)
(* state-setting event does not own the root any more (what                *)
(* typedOwnershipRootsClosed establishes; earlier returns are closed by    *)
(* the cleanup edges, not by events).                                      *)
(***************************************************************************)
ClosedAtFinalReturn ==
    phase = "returned" =>
        \A r \in Roots :
            (\E j \in AllSetters(fn, r) :
                IsLast(j, AllSetters(fn, r)) /\ events[j].block = bb) =>
                    own[r].state # "live"

(***************************************************************************)
(* A step of an admitted function never takes an owned root anywhere but   *)
(* to consumed, and a root becomes owned only from entered storage or      *)
(* after it was consumed.                                                  *)
(***************************************************************************)
OwnershipIsLinear ==
    [][phase = "running" =>
          \A r \in TrackedRoots(fn) :
              own'[r] # own[r] =>
                 /\ own[r].state = "live" => own'[r].state = "consumed"
                 /\ own'[r].state = "live" =>
                        own[r].state \in {"storage_live", "consumed"}]_vars

(***************************************************************************)
(* Both passes end: the rounds of solveOwnershipRootEntryStates stop for   *)
(* every root, and VerifiedProgram.init rejects or admits every function.  *)
(***************************************************************************)
Decided == <>(phase \in {"rejected", "running", "returned"})
============================================================================
