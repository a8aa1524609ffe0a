------------------------ MODULE OwnershipFlowProofs ------------------------
(***************************************************************************)
(* Proofs about OwnershipFlow: type correctness, and soundness of the      *)
(* verifier for every function, every number of blocks and every set of    *)
(* roots.                                                                  *)
(***************************************************************************)
EXTENDS OwnershipFlow, WellFoundedInduction, TLAPS

----------------------------------------------------------------------------
(* Lemmas about the lattice and the transfer function.                     *)

\* The lattice operations stay in the lattice.
LEMMA SingleType ==
    ASSUME NEW s \in States, NEW g \in Nat
    PROVE  single(s, g) \in Flow
  BY DEF single, Flow

\* A join of two flows is a flow.
LEMMA JoinType ==
    ASSUME NEW f \in Flow, NEW g \in Flow
    PROVE  join(f, g) \in Flow
  BY DEF join, Flow

\* Every event kind leaves a root in one of the four states.
LEMMA PostType ==
    ASSUME NEW k \in Kinds
    PROVE  Post(k) \in States
  BY DEF Post, States

\* Applying an event to a flow gives a flow.
LEMMA ApplyType ==
    ASSUME NEW f \in Flow, NEW e \in Event
    PROVE  applyOwnershipEvent(f, e) \in Flow
  BY PostType, SingleType DEF applyOwnershipEvent, Event

\* A nonempty set of positions has a last one.
LEMMA LastExists ==
    ASSUME NEW n \in Nat, NEW S \in SUBSET (1 .. n), S # {}
    PROVE  \E j \in S : IsLast(j, S)
  <1> DEFINE D == {n - j : j \in S}
             R == OpToRel(<, Nat)
  <1>1. D \subseteq Nat
    BY SMT
  <1>2. D # {}
    <2>1. PICK j \in S : TRUE
      OBVIOUS
    <2>2. n - j \in D
      OBVIOUS
    <2>. QED
      BY <2>2, Zenon
  <1>3. PICK m \in D : \A k \in D : <<k, m>> \notin R
    <2> HIDE DEF D, R
    <2>. QED  BY <1>1, <1>2, NatLessThanWellFounded, WFMin, Zenon DEF R
  <1>4. \A k \in D : ~(k < m)
    BY <1>1, <1>3, Zenon DEF OpToRel
  <1>5. PICK j \in S : m = n - j
    OBVIOUS
  <1>6. ASSUME NEW k \in S  PROVE k <= j
    <2>1. n - k \in D
      OBVIOUS
    <2>2. ~(n - k < n - j)
      BY <1>4, <1>5, <2>1, Zenon
    <2>. QED
      BY <2>2
  <1>. QED
    BY <1>5, <1>6 DEF IsLast

\* The setters of a root in a block are positions of the event list.
LEMMA SettersType ==
    ASSUME NEW f, f.events \in Seq(Event), NEW r, NEW b,
           NEW n \in 0 .. Len(f.events)
    PROVE  /\ Setters(f, r, b, n) \subseteq 1 .. n
           /\ Setters(f, r, b, n) \subseteq DOMAIN f.events
  BY DEF Setters

\* The flow inside and at the end of a block is a flow.
LEMMA BlockFlowType ==
    ASSUME NEW f, f.events \in Seq(Event), NEW r, NEW b,
           NEW n \in 0 .. Len(f.events), NEW flow \in Flow
    PROVE  applyOwnershipBlockEvents(f, r, b, n, flow) \in Flow
  <1> DEFINE S == Setters(f, r, b, n)
  <1>1. CASE S = {}
    BY <1>1 DEF applyOwnershipBlockEvents
  <1>2. CASE S # {}
    <2>1. \E j \in S : IsLast(j, S)
      <3>1. S \in SUBSET (1 .. n) /\ n \in Nat
        BY SettersType
      <3>. QED
        BY <1>2, <3>1, LastExists, Zenon
    <2>2. (CHOOSE j \in S : IsLast(j, S)) \in DOMAIN f.events
      BY <2>1, SettersType
    <2>3. f.events[CHOOSE j \in S : IsLast(j, S)] \in Event
      BY <2>2
    <2>. QED
      BY <1>2, <2>3, ApplyType DEF applyOwnershipBlockEvents
  <1>. QED
    BY <1>1, <1>2

----------------------------------------------------------------------------
(* Type correctness.                                                       *)

\* What a step leaves of the function and of its event list.
LEMMA FunctionIsFixed ==
    Next => fn' = fn
  BY DEF Next, CheckEvents, NextRoot, AnalysisOutOfMemory, FinishRoots,
         SolveBlock, EndRound, ValidateRoot, ExecuteEvent, FollowEdge, Return,
         Finished, Conclude, vars

\* Initially every variable has its type.
LEMMA InitType == Init => TypeOK
  <1> SUFFICES ASSUME Init PROVE TypeOK
    OBVIOUS
  <1>1. fn.succ \in [Blocks -> SUBSET Nat] /\ fn.events \in Seq(Event)
    BY ConstantsAssumption DEF Init
  <1>2. entry \in [Roots -> [Blocks -> Flow]]
    BY DEF Init, Unreached, Flow
  <1>3. own \in [Roots -> [state : States, gen : Nat]]
    BY DEF Init, States
  <1>4. /\ round \in 0 .. NBlocks + 1 /\ round <= NBlocks
        /\ index \in 0 .. NBlocks
        /\ bb \in Blocks /\ pos \in 0 .. Len(events)
    BY <1>1, ConstantsAssumption DEF Init, Blocks, events
  <1>. QED
    BY <1>1, <1>2, <1>3, <1>4 DEF Init, TypeOK

\* The solver's step keeps the entry flows in the lattice.
LEMMA SolveBlockType ==
    ASSUME TypeOK, SolveBlock
    PROVE  TypeOK'
  <1> DEFINE flows == entry[cur]
             exit == ExitFlow(fn, cur, flows, index)
             next == [s \in Blocks |->
                         IF flows[index].reachable /\ s \in Targets(fn, index)
                         THEN join(flows[s], exit) ELSE flows[s]]
  <1>1. index \in Blocks /\ flows \in [Blocks -> Flow]
    BY ConstantsAssumption DEF TypeOK, SolveBlock, Blocks
  <1>2. exit \in Flow
    BY <1>1, BlockFlowType DEF ExitFlow, TypeOK, events
  <1>3. next \in [Blocks -> Flow]
    BY <1>1, <1>2, JoinType
  <1>4. entry' = [entry EXCEPT ![cur] = next]
    BY DEF SolveBlock
  <1>5. entry' \in [Roots -> [Blocks -> Flow]]
    BY <1>3, <1>4 DEF TypeOK
  <1>6. index' \in 0 .. NBlocks /\ changed' \in BOOLEAN
    BY ConstantsAssumption DEF TypeOK, SolveBlock
  <1>. QED
    BY <1>5, <1>6 DEF TypeOK, SolveBlock, execution, events

\* The execution's steps keep the concrete ownership record well typed.
LEMMA ExecuteEventType ==
    ASSUME TypeOK, ExecuteEvent
    PROVE  TypeOK'
  <1>1. PICK i \in Positions :
          /\ pos' = i
          /\ own' = IF events[i].kind \in Neutral THEN own
                    ELSE [own EXCEPT ![events[i].root] =
                             [state |-> Post(events[i].kind), gen |-> events[i].gen]]
    BY DEF ExecuteEvent
  <1>2. events[i] \in Event /\ i \in 0 .. Len(events)
    BY DEF TypeOK, Positions, events
  <1>3. own' \in [Roots -> [state : States, gen : Nat]]
    BY <1>1, <1>2, PostType DEF TypeOK, Event
  <1>. QED
    BY <1>1, <1>2, <1>3 DEF TypeOK, ExecuteEvent, analysis, events

\* What the solver of a root starts from: the entry block in the one state it
\* can be in, the other blocks unreached.
EmptyBuffer == [b \in Blocks |-> IF b = 0 THEN single("untracked", 0) ELSE Unreached]

\* Resetting the buffer leaves nothing of the root before.
LEMMA ResetIs ==
    ASSUME TypeOK
    PROVE  Reset(entry[cur]) = EmptyBuffer
  <1>1. DOMAIN entry[cur] = Blocks
    BY DEF TypeOK
  <1>. QED
    BY <1>1 DEF Reset, EmptyBuffer

\* Every step preserves the types.
LEMMA NextType ==
    ASSUME TypeOK, [Next]_vars
    PROVE  TypeOK'
  <1>1. CASE CheckEvents
    BY <1>1 DEF TypeOK, CheckEvents, execution, events
  <1>2. CASE NextRoot
    <2>1. PICK i \in Positions :
            /\ cur' = events[i].root
            /\ seen' = seen \cup {events[i].root}
            /\ entry' = [entry EXCEPT ![events[i].root] = EmptyBuffer]
            /\ cut' = cut \ {events[i].root}
      BY <1>2, ResetIs DEF NextRoot
    <2>2. events[i].root \in Roots
      <3>1. events[i] \in Event
        BY DEF TypeOK, Positions, events
      <3>. QED
        BY <3>1 DEF Event
    <2>3. Unreached \in Flow /\ single("untracked", 0) \in Flow
      BY SingleType DEF Unreached, Flow, States
    <2>4. entry' \in [Roots -> [Blocks -> Flow]]
      BY <2>1, <2>2, <2>3 DEF TypeOK, EmptyBuffer
    <2>5. /\ round' \in 0 .. NBlocks + 1 /\ round' <= NBlocks
          /\ index' \in 0 .. NBlocks
      BY <1>2, ConstantsAssumption DEF NextRoot
    <2>6. cur' \in Roots /\ seen' \subseteq Roots /\ cut' \subseteq Roots
      BY <2>1, <2>2, Zenon DEF TypeOK
    <2>7. changed' \in BOOLEAN /\ phase' = "solving"
      BY <1>2, Zenon DEF NextRoot
    <2>. QED
      BY <1>2, <2>4, <2>5, <2>6, <2>7 DEF TypeOK, NextRoot, execution, events
  <1>3. CASE AnalysisOutOfMemory \/ FinishRoots
    BY <1>3 DEF TypeOK, AnalysisOutOfMemory, FinishRoots, Conclude,
                execution, analysis, events
  <1>4. CASE SolveBlock
    BY <1>4, SolveBlockType
  <1>5. CASE EndRound
    <2>1. round' \in 0 .. NBlocks + 1 /\ (phase' = "solving" => round' <= NBlocks)
      BY <1>5, ConstantsAssumption DEF TypeOK, EndRound
    <2>2. index' \in 0 .. NBlocks
      BY <1>5, ConstantsAssumption DEF EndRound
    <2>3. cut' \subseteq Roots /\ changed' \in BOOLEAN
      <3>1. cut' = cut \cup {cur} \/ cut' = cut
        BY <1>5, Zenon DEF EndRound
      <3>. QED
        BY <1>5, <3>1, Zenon DEF EndRound, TypeOK
    <2>. QED
      BY <1>5, <2>1, <2>2, <2>3 DEF TypeOK, EndRound, execution, events
  <1>6. CASE ValidateRoot
    BY <1>6 DEF TypeOK, ValidateRoot, Conclude, execution, analysis, events
  <1>7. CASE ExecuteEvent
    BY <1>7, ExecuteEventType
  <1>8. CASE FollowEdge
    BY <1>8 DEF TypeOK, FollowEdge, Targets, analysis, events
  <1>9. CASE Return
    BY <1>9 DEF TypeOK, Return, execution, analysis, events
  <1>10. CASE UNCHANGED vars
    BY <1>10 DEF TypeOK, vars, execution, analysis, events
  <1>. QED
    BY <1>1, <1>2, <1>3, <1>4, <1>5, <1>6, <1>7, <1>8, <1>9, <1>10
       DEF Next, Finished

(***************************************************************************)
(* Every variable of the verifier and of the execution keeps its type; in  *)
(* particular the solver never runs more than NBlocks + 1 rounds.          *)
(***************************************************************************)
THEOREM TypeCorrect == Spec => []TypeOK
  <1>1. Init => TypeOK
    BY InitType
  <1>2. TypeOK /\ [Next]_vars => TypeOK'
    BY NextType
  <1>. QED
    BY <1>1, <1>2, PTL DEF Spec

----------------------------------------------------------------------------
(* Soundness.                                                              *)

\* The entry block's flow accounts for the start of an execution.
EntryCovered(r) ==
    Covers(entry[r][0], [state |-> "untracked", gen |-> 0])

\* What the verifier knows of a root it has finished with.
Analysed(r) ==
    /\ EntryCovered(r)
    /\ ownershipRootFlowValid(fn, r, entry[r])
    /\ r \notin cut => Fixpoint(fn, r, entry[r])

\* The roots the verifier has finished with: those of this pass and, in the
\* diagnostic pass, all of the admission's.
DoneRoots ==
    {r \in TrackedRoots(fn) :
        /\ pass = "diagnostic" \/ r \in seen
        /\ phase \in {"solving", "validating"} => r # cur}

AnalysisInv ==
    /\ phase # "rejected" => \A r \in DoneRoots : Analysed(r)
    /\ phase \in {"solving", "validating"} => EntryCovered(cur)
    /\ (phase = "solving" /\ ~changed) =>
           \A b \in Blocks : b < index => Stable(fn, cur, entry[cur], b)
    /\ (phase = "validating" /\ cur \notin cut) => Fixpoint(fn, cur, entry[cur])
    /\ phase \in {"running", "returned"} => pass = "diagnostic"

\* The inductive part about the execution: nothing has run before the
\* function is admitted, and afterwards the flows account for the roots.
CoverInv ==
    /\ phase \in {"start", "roots", "solving", "validating"} =>
           /\ bb = 0 /\ pos = 0
           /\ own = [r \in Roots |-> [state |-> "untracked", gen |-> 0]]
    /\ phase = "running" =>
           \A r \in TrackedRoots(fn) \ cut :
               /\ entry[r][bb].reachable
               /\ Covers(applyOwnershipBlockEvents(fn, r, bb, pos, entry[r][bb]),
                         own[r])

\* What the verifier knows of a root depends on the function and on the
\* root's entry flows only.
LEMMA AnalysedIsLocal ==
    ASSUME fn' = fn, NEW r, entry'[r] = entry[r], r \in cut' <=> r \in cut
    PROVE  Analysed(r)' <=> Analysed(r)
  BY DEF Analysed, EntryCovered

\* A join accounts for everything either side accounts for.
LEMMA JoinCovers ==
    ASSUME NEW f \in Flow, NEW g \in Flow, NEW c, Covers(f, c) \/ Covers(g, c)
    PROVE  Covers(join(f, g), c)
  BY DEF Covers, join, Flow

\* Initially no root is analysed.
LEMMA InitAnalysis == Init => AnalysisInv
  BY DEF Init, AnalysisInv, DoneRoots

\* The solver's step: entry flows only grow, and a round that has changed
\* nothing so far has left every visited block stable.
LEMMA SolveBlockAnalysis ==
    ASSUME TypeOK, AnalysisInv, SolveBlock
    PROVE  AnalysisInv'
  <1> DEFINE flows == entry[cur]
             exit == ExitFlow(fn, cur, flows, index)
             next == [s \in Blocks |->
                         IF flows[index].reachable /\ s \in Targets(fn, index)
                         THEN join(flows[s], exit) ELSE flows[s]]
  <1>1. index \in Blocks /\ flows \in [Blocks -> Flow] /\ 0 \in Blocks
    BY ConstantsAssumption DEF TypeOK, SolveBlock, Blocks
  <1>2. exit \in Flow
    BY <1>1, BlockFlowType DEF ExitFlow, TypeOK, events
  <1>3. /\ entry' = [entry EXCEPT ![cur] = next]
        /\ changed' = (changed \/ next # flows)
        /\ index' = index + 1
        /\ phase = "solving" /\ phase' = "solving"
        /\ UNCHANGED <<fn, pass, seen, cur, cut>>
    BY DEF SolveBlock
  <1>4. entry'[cur] = next /\ \A r \in Roots : r # cur => entry'[r] = entry[r]
    BY <1>3 DEF TypeOK
  <1>5. ASSUME NEW r \in DoneRoots'  PROVE Analysed(r)'
    <2>1. r \in DoneRoots /\ r \in Roots /\ r # cur
      BY <1>3, <1>5 DEF DoneRoots, TrackedRoots
    <2>2. Analysed(r)
      BY <1>3, <2>1 DEF AnalysisInv
    <2>. QED
      BY <1>3, <1>4, <2>1, <2>2, AnalysedIsLocal
  <1>6. EntryCovered(cur)'
    <2>1. Covers(flows[0], [state |-> "untracked", gen |-> 0])
      BY <1>3 DEF AnalysisInv, EntryCovered
    <2>2. next[0] = flows[0] \/ next[0] = join(flows[0], exit)
      BY <1>1
    <2>3. Covers(next[0], [state |-> "untracked", gen |-> 0])
      BY <1>1, <1>2, <2>1, <2>2, JoinCovers
    <2>. QED
      BY <1>3, <1>4, <2>3 DEF EntryCovered
  <1>7. ASSUME ~changed', NEW b \in Blocks, b < index'
        PROVE  Stable(fn, cur, entry[cur], b)'
    <2>1. ~changed /\ next = flows
      BY <1>3, <1>7, Zenon
    <2>2. CASE b < index
      BY <1>3, <1>4, <2>1, <2>2 DEF AnalysisInv
    <2>3. CASE b = index
      <3>1. ASSUME flows[b].reachable, NEW s \in Targets(fn, b)
            PROVE  join(flows[s], exit) = flows[s]
        <4>1. s \in Blocks
          BY <3>1 DEF Targets
        <4>2. next[s] = join(flows[s], exit)
          BY <2>3, <3>1, <4>1
        <4>. QED
          BY <2>1, <4>2
      <3>2. Stable(fn, cur, flows, b)
        BY <2>3, <3>1 DEF Stable
      <3>. QED
        BY <1>3, <1>4, <2>1, <3>2
    <2>4. b < index \/ b = index
      BY <1>3, <1>7 DEF TypeOK, Blocks
    <2>. QED
      BY <2>2, <2>3, <2>4
  <1>. QED
    BY <1>3, <1>5, <1>6, <1>7 DEF AnalysisInv

\* The end of a pass keeps what is known of every root.
LEMMA ConcludeAnalysis ==
    ASSUME TypeOK, AnalysisInv, phase = "roots", NEW ok \in BOOLEAN, Conclude(ok),
           (ok /\ pass = "admission") => TrackedRoots(fn) \subseteq seen
    PROVE  AnalysisInv'
  <1>1. UNCHANGED <<fn, seen, cur, entry, cut>>
    BY DEF Conclude, analysis
  <1>2. /\ phase' \in {"start", "rejected", "running"}
        /\ phase' # "rejected" => pass' = "diagnostic" /\ ok
        /\ phase' = "running" => pass = "diagnostic"
    BY Zenon DEF Conclude, TypeOK
  <1>3. ASSUME phase' # "rejected", NEW r \in DoneRoots'  PROVE Analysed(r)'
    <2>1. r \in TrackedRoots(fn)
      BY <1>1, <1>3 DEF DoneRoots
    <2>2. pass = "diagnostic" \/ r \in seen
      BY <1>2, <1>3, <2>1 DEF TypeOK
    <2>3. r \in DoneRoots
      BY <2>1, <2>2 DEF DoneRoots
    <2>4. Analysed(r)
      BY <2>3 DEF AnalysisInv
    <2>. QED
      BY <1>1, <2>4, AnalysedIsLocal
  <1>. QED
    BY <1>2, <1>3 DEF AnalysisInv

\* Every step preserves what is known of the analysed roots.
LEMMA NextAnalysis ==
    ASSUME TypeOK, AnalysisInv, [Next]_vars
    PROVE  AnalysisInv'
  <1>1. CASE CheckEvents
    <2>1. /\ phase' \in {"rejected", "roots"} /\ seen' = {}
          /\ phase = "start"
          /\ UNCHANGED <<fn, pass, cur, entry, cut>>
      BY <1>1 DEF CheckEvents
    <2>2. ASSUME NEW r \in DoneRoots'  PROVE Analysed(r)'
      <3>1. r \in DoneRoots
        BY <2>1, <2>2 DEF DoneRoots
      <3>2. Analysed(r)
        BY <2>1, <3>1 DEF AnalysisInv
      <3>. QED
        BY <2>1, <3>2, AnalysedIsLocal
    <2>. QED
      BY <2>1, <2>2 DEF AnalysisInv
  <1>2. CASE NextRoot
    <2>1. PICK i \in Positions :
            /\ events[i].root \in TrackedRoots(fn) \ seen
            /\ cur' = events[i].root
            /\ seen' = seen \cup {events[i].root}
            /\ entry' = [entry EXCEPT ![events[i].root] = EmptyBuffer]
            /\ cut' = cut \ {events[i].root}
      BY <1>2, ResetIs DEF NextRoot
    <2>2. /\ phase = "roots" /\ phase' = "solving" /\ index' = 0
          /\ UNCHANGED <<fn, pass>>
      BY <1>2 DEF NextRoot
    <2>3. cur' \in Roots
      BY <2>1 DEF TrackedRoots
    <2>4. ASSUME NEW r \in DoneRoots'  PROVE Analysed(r)'
      <3>1. r \in Roots /\ r # cur' /\ r \in DoneRoots
        BY <2>1, <2>2, <2>4 DEF DoneRoots, TrackedRoots
      <3>2. Analysed(r)
        BY <2>2, <3>1 DEF AnalysisInv
      <3>3. entry'[r] = entry[r] /\ (r \in cut' <=> r \in cut)
        BY <2>1, <3>1 DEF TypeOK
      <3>. QED
        BY <2>2, <3>2, <3>3, AnalysedIsLocal
    <2>5. EntryCovered(cur)'
      <3>1. 0 \in Blocks
        BY ConstantsAssumption DEF Blocks
      <3>2. entry'[cur'][0] = single("untracked", 0)
        BY <2>1, <2>3, <3>1 DEF TypeOK, EmptyBuffer
      <3>. QED
        BY <3>2 DEF EntryCovered, Covers, single
    <2>6. \A b \in Blocks : ~(b < index')
      BY <2>2 DEF Blocks
    <2>. QED
      BY <2>2, <2>4, <2>5, <2>6 DEF AnalysisInv
  <1>3. CASE AnalysisOutOfMemory
    BY <1>3, ConcludeAnalysis DEF AnalysisOutOfMemory
  <1>4. CASE FinishRoots
    <2>1. typedOwnershipRootsClosed(fn) \in BOOLEAN
      BY DEF typedOwnershipRootsClosed
    <2>. QED
      BY <1>4, <2>1, ConcludeAnalysis DEF FinishRoots
  <1>5. CASE SolveBlock
    BY <1>5, SolveBlockAnalysis
  <1>6. CASE EndRound
    <2>1. /\ phase = "solving" /\ phase' \in {"solving", "validating"}
          /\ index = NBlocks /\ index' = 0
          /\ UNCHANGED <<fn, pass, seen, cur, entry>>
      BY <1>6 DEF EndRound
    <2>2. \A r : r # cur => (r \in cut' <=> r \in cut)
      BY <1>6, Zenon DEF EndRound
    <2>3. (phase' = "validating" /\ cur \notin cut') => ~changed
      BY <1>6, Zenon DEF EndRound
    <2>4. ASSUME NEW r \in DoneRoots'  PROVE Analysed(r)'
      <3>1. r # cur /\ r \in DoneRoots
        BY <2>1, <2>4 DEF DoneRoots
      <3>2. Analysed(r)
        BY <2>1, <3>1 DEF AnalysisInv
      <3>. QED
        BY <2>1, <2>2, <3>1, <3>2, AnalysedIsLocal
    <2>5. EntryCovered(cur)'
      BY <2>1 DEF AnalysisInv, EntryCovered
    <2>6. (phase' = "validating" /\ cur \notin cut') => Fixpoint(fn, cur, entry[cur])'
      <3>1. \A b \in Blocks : b < index
        BY <2>1, ConstantsAssumption DEF Blocks
      <3>2. ~changed => Fixpoint(fn, cur, entry[cur])
        BY <2>1, <3>1 DEF AnalysisInv, Fixpoint
      <3>. QED
        BY <2>1, <2>3, <3>2
    <2>7. \A b \in Blocks : ~(b < index')
      BY <2>1 DEF Blocks
    <2>. QED
      BY <2>1, <2>4, <2>5, <2>6, <2>7 DEF AnalysisInv
  <1>7. CASE ValidateRoot
    <2>1. CASE ownershipRootFlowValid(fn, cur, entry[cur])
      <3>1. /\ phase = "validating" /\ phase' = "roots"
            /\ UNCHANGED <<fn, pass, seen, cur, entry, cut>>
        BY <1>7, <2>1 DEF ValidateRoot, analysis
      <3>2. ASSUME NEW r \in DoneRoots'  PROVE Analysed(r)'
        <4>1. CASE r = cur
          BY <2>1, <3>1, <4>1, AnalysedIsLocal DEF AnalysisInv, Analysed
        <4>2. CASE r # cur
          <5>1. r \in DoneRoots
            BY <3>1, <3>2, <4>2 DEF DoneRoots
          <5>. QED
            BY <3>1, <5>1, AnalysedIsLocal DEF AnalysisInv
        <4>. QED
          BY <4>1, <4>2
      <3>. QED
        BY <3>1, <3>2 DEF AnalysisInv
    <2>2. CASE ~ownershipRootFlowValid(fn, cur, entry[cur])
      <3>1. phase' = "rejected"
        BY <1>7, <2>2 DEF ValidateRoot, Conclude
      <3>. QED
        BY <3>1 DEF AnalysisInv
    <2>. QED
      BY <2>1, <2>2
  <1>8. CASE ExecuteEvent \/ FollowEdge \/ Return \/ UNCHANGED vars
    <2>1. /\ UNCHANGED <<fn, pass, seen, cur, entry, cut, changed, index>>
          /\ phase' = phase \/ (phase = "running" /\ phase' = "returned")
      BY <1>8 DEF ExecuteEvent, FollowEdge, Return, vars, analysis
    <2>2. ASSUME phase' # "rejected", NEW r \in DoneRoots'  PROVE Analysed(r)'
      <3>1. r \in DoneRoots
        BY <2>1, <2>2 DEF DoneRoots
      <3>. QED
        BY <2>1, <2>2, <3>1, AnalysedIsLocal DEF AnalysisInv
    <2>3. phase' \in {"solving", "validating"} => EntryCovered(cur)'
      BY <2>1 DEF AnalysisInv, EntryCovered
    <2>. QED
      BY <2>1, <2>2, <2>3 DEF AnalysisInv
  <1>. QED
    BY <1>1, <1>2, <1>3, <1>4, <1>5, <1>6, <1>7, <1>8 DEF Next, Finished

----------------------------------------------------------------------------
(* The execution of an admitted function.                                  *)

\* A block's flow depends only on which positions set the root's state.
LEMMA SameSetters ==
    ASSUME NEW f, NEW r, NEW b, NEW m, NEW n, NEW flow,
           Setters(f, r, b, m) = Setters(f, r, b, n)
    PROVE  applyOwnershipBlockEvents(f, r, b, m, flow)
             = applyOwnershipBlockEvents(f, r, b, n, flow)
  BY DEF applyOwnershipBlockEvents

\* Before its first event a block's flow is its entry flow.
LEMMA NoSettersYet ==
    ASSUME NEW f, NEW r, NEW b, NEW flow
    PROVE  applyOwnershipBlockEvents(f, r, b, 0, flow) = flow
  <1>1. Setters(f, r, b, 0) = {}
    BY DEF Setters
  <1>. QED
    BY <1>1 DEF applyOwnershipBlockEvents

\* A state-setting event decides the flow after it.
LEMMA SetterDecides ==
    ASSUME NEW f, NEW r, NEW b, NEW i \in Nat \ {0}, NEW flow,
           i \in Setters(f, r, b, i)
    PROVE  applyOwnershipBlockEvents(f, r, b, i, flow)
             = single(Post(f.events[i].kind), f.events[i].gen)
  <1> DEFINE S == Setters(f, r, b, i)
  <1>1. S \subseteq 1 .. i
    BY DEF Setters
  <1>2. IsLast(i, S)
    BY <1>1 DEF IsLast
  <1>3. \A j \in S : IsLast(j, S) => j = i
    BY <1>1 DEF IsLast
  <1>4. (CHOOSE j \in S : IsLast(j, S)) = i
    <2> HIDE DEF S
    <2>. QED  BY <1>2, <1>3 DEF IsLast
  <1>5. f.events[i].kind \notin Neutral
    BY DEF Setters
  <1>. QED
    BY <1>4, <1>5 DEF applyOwnershipBlockEvents, applyOwnershipEvent

\* The positions between the last event executed and the next one set
\* nothing.
LEMMA NextEventSetters ==
    ASSUME TypeOK, NEW i, IsNextEvent(i), NEW r
    PROVE  /\ i \in 1 .. Len(fn.events)
           /\ Setters(fn, r, bb, i - 1) = Setters(fn, r, bb, pos)
           /\ i \notin Setters(fn, r, bb, i) =>
                 Setters(fn, r, bb, i) = Setters(fn, r, bb, pos)
  <1>1. i \in 1 .. Len(fn.events) /\ i > pos /\ pos \in Nat
    BY DEF TypeOK, IsNextEvent, Positions, events
  <1>2. \A j \in pos + 1 .. i - 1 :
           ~(fn.events[j].block = bb /\ fn.events[j].typed)
    BY DEF IsNextEvent, events
  <1>3. Setters(fn, r, bb, i - 1) = Setters(fn, r, bb, pos)
    BY <1>1, <1>2 DEF Setters, ownershipEventTracksRoot
  <1>4. i \notin Setters(fn, r, bb, i) =>
           Setters(fn, r, bb, i) = Setters(fn, r, bb, i - 1)
    BY <1>1 DEF Setters
  <1>. QED
    BY <1>1, <1>3, <1>4

\* When a block is done, nothing after pos in it sets a root's state.
LEMMA BlockDoneSetters ==
    ASSUME TypeOK, BlockDone, NEW r
    PROVE  Setters(fn, r, bb, Len(fn.events)) = Setters(fn, r, bb, pos)
  <1>1. pos \in Nat /\ Len(fn.events) \in Nat /\ pos <= Len(fn.events)
    BY DEF TypeOK, events
  <1>2. \A j \in pos + 1 .. Len(fn.events) :
           ~(fn.events[j].block = bb /\ fn.events[j].typed)
    BY <1>1 DEF BlockDone, Positions, TypeOK, events
  <1>. QED
    BY <1>1, <1>2 DEF Setters, ownershipEventTracksRoot

\* An admitted function starts accounted for.
LEMMA ConcludeCover ==
    ASSUME TypeOK, AnalysisInv, CoverInv, phase = "roots",
           NEW ok \in BOOLEAN, Conclude(ok)
    PROVE  CoverInv'
  <1>1. UNCHANGED <<fn, entry, cut, bb, pos, own>>
    BY DEF Conclude, analysis, execution
  <1>2. phase' \in {"start", "rejected", "running"}
    BY Zenon DEF Conclude
  <1>3. phase' = "running" => pass = "diagnostic"
    BY Zenon DEF Conclude, TypeOK
  <1>4. /\ bb = 0 /\ pos = 0
        /\ own = [r \in Roots |-> [state |-> "untracked", gen |-> 0]]
    BY DEF CoverInv
  <1>5. ASSUME phase' = "running", NEW r \in TrackedRoots(fn)
        PROVE  /\ entry[r][bb].reachable
               /\ Covers(applyOwnershipBlockEvents(fn, r, bb, pos, entry[r][bb]),
                         own[r])
    <2>1. r \in DoneRoots /\ r \in Roots
      BY <1>3, <1>5 DEF DoneRoots, TrackedRoots
    <2>2. EntryCovered(r)
      BY <2>1 DEF AnalysisInv, Analysed
    <2>3. applyOwnershipBlockEvents(fn, r, bb, pos, entry[r][bb]) = entry[r][0]
      BY <1>4, NoSettersYet
    <2>. QED
      BY <1>4, <2>1, <2>2, <2>3 DEF EntryCovered, Covers
  <1>. QED
    BY <1>1, <1>2, <1>4, <1>5 DEF CoverInv

\* Executing an event keeps the root it touches, and every other root,
\* accounted for.
LEMMA ExecuteEventCover ==
    ASSUME TypeOK, CoverInv, ExecuteEvent
    PROVE  CoverInv'
  <1>1. PICK i \in Positions :
          /\ IsNextEvent(i)
          /\ pos' = i
          /\ own' = IF events[i].kind \in Neutral THEN own
                    ELSE [own EXCEPT ![events[i].root] =
                             [state |-> Post(events[i].kind), gen |-> events[i].gen]]
    BY DEF ExecuteEvent
  <1>2. phase = "running" /\ phase' = "running" /\ UNCHANGED <<fn, entry, cut, bb>>
    BY DEF ExecuteEvent, analysis
  <1>3. ASSUME NEW r \in TrackedRoots(fn) \ cut
        PROVE  Covers(applyOwnershipBlockEvents(fn, r, bb, i, entry[r][bb]), own'[r])
    <2>1. Covers(applyOwnershipBlockEvents(fn, r, bb, pos, entry[r][bb]), own[r])
      BY <1>2, <1>3 DEF CoverInv
    <2>2. r \in Roots
      BY <1>3 DEF TrackedRoots
    <2>3. CASE i \in Setters(fn, r, bb, i)
      <3>1. /\ events[i].kind \notin Neutral /\ events[i].root = r
            /\ i \in Nat \ {0}
        BY <1>1, <2>3, NextEventSetters
           DEF Setters, ownershipEventTracksRoot, events
      <3>2. own'[r] = [state |-> Post(events[i].kind), gen |-> events[i].gen]
        BY <1>1, <2>2, <3>1 DEF TypeOK
      <3>3. applyOwnershipBlockEvents(fn, r, bb, i, entry[r][bb])
              = single(Post(events[i].kind), events[i].gen)
        BY <2>3, <3>1, SetterDecides DEF events
      <3>. QED
        BY <3>2, <3>3 DEF Covers, single
    <2>4. CASE i \notin Setters(fn, r, bb, i)
      <3>1. Setters(fn, r, bb, i) = Setters(fn, r, bb, pos)
        BY <1>1, <2>4, NextEventSetters
      <3>2. applyOwnershipBlockEvents(fn, r, bb, i, entry[r][bb])
              = applyOwnershipBlockEvents(fn, r, bb, pos, entry[r][bb])
        BY <3>1, SameSetters
      <3>3. events[i].kind \in Neutral \/ events[i].root # r
        BY <1>1, <2>4, NextEventSetters
           DEF Setters, ownershipEventTracksRoot, events, IsNextEvent
      <3>4. own'[r] = own[r]
        BY <1>1, <2>2, <3>3 DEF TypeOK
      <3>. QED
        BY <2>1, <3>2, <3>4
    <2>. QED
      BY <2>3, <2>4
  <1>4. \A r \in TrackedRoots(fn) \ cut : entry[r][bb].reachable
    BY <1>2 DEF CoverInv
  <1>. QED
    BY <1>1, <1>2, <1>3, <1>4 DEF CoverInv

\* Following an edge keeps every root accounted for, because the solver left
\* the edge stable.
LEMMA FollowEdgeCover ==
    ASSUME TypeOK, AnalysisInv, CoverInv, FollowEdge
    PROVE  CoverInv'
  <1>1. /\ phase = "running" /\ phase' = "running" /\ BlockDone
        /\ bb' \in Targets(fn, bb) /\ pos' = 0
        /\ UNCHANGED <<fn, entry, cut, own>>
    BY DEF FollowEdge, analysis
  <1>2. ASSUME NEW r \in TrackedRoots(fn) \ cut
        PROVE  /\ entry[r][bb'].reachable
               /\ Covers(applyOwnershipBlockEvents(fn, r, bb', 0, entry[r][bb']),
                         own[r])
    <2> DEFINE exit == ExitFlow(fn, r, entry[r], bb)
    <2>1. r \in Roots /\ r \in DoneRoots
      BY <1>1, <1>2 DEF AnalysisInv, DoneRoots, TrackedRoots
    <2>2. Stable(fn, r, entry[r], bb)
      BY <1>1, <1>2, <2>1 DEF AnalysisInv, Analysed, Fixpoint, TypeOK
    <2>3. Covers(exit, own[r])
      BY <1>1, <1>2, BlockDoneSetters, SameSetters DEF CoverInv, ExitFlow
    <2>4. entry[r] \in [Blocks -> Flow] /\ bb' \in Blocks
      BY <1>1, <2>1 DEF TypeOK, Targets
    <2>5. exit \in Flow
      BY <2>4, BlockFlowType DEF ExitFlow, TypeOK, events
    <2>6. entry[r][bb].reachable
      BY <1>1, <1>2 DEF CoverInv
    <2>7. join(entry[r][bb'], exit) = entry[r][bb']
      BY <1>1, <2>2, <2>6 DEF Stable
    <2>8. Covers(entry[r][bb'], own[r])
      BY <2>3, <2>4, <2>5, <2>7, JoinCovers
    <2>. QED
      BY <2>8, NoSettersYet DEF Covers
  <1>. QED
    BY <1>1, <1>2 DEF CoverInv

\* Every step preserves the invariant of the execution.
LEMMA NextCover ==
    ASSUME TypeOK, AnalysisInv, CoverInv, [Next]_vars
    PROVE  CoverInv'
  <1>1. CASE CheckEvents \/ NextRoot \/ SolveBlock \/ EndRound
    <2>1. /\ phase \in {"start", "roots", "solving", "validating"}
          /\ phase' # "running"
          /\ UNCHANGED <<bb, pos, own>>
      BY <1>1 DEF CheckEvents, NextRoot, SolveBlock, EndRound, execution
    <2>. QED
      BY <2>1 DEF CoverInv
  <1>2. CASE AnalysisOutOfMemory
    BY <1>2, ConcludeCover DEF AnalysisOutOfMemory
  <1>3. CASE FinishRoots
    <2>1. typedOwnershipRootsClosed(fn) \in BOOLEAN
      BY DEF typedOwnershipRootsClosed
    <2>. QED
      BY <1>3, <2>1, ConcludeCover DEF FinishRoots
  <1>4. CASE ValidateRoot
    <2>1. phase = "validating" /\ UNCHANGED <<bb, pos, own>>
      BY <1>4 DEF ValidateRoot, Conclude, execution
    <2>2. phase' # "running"
      BY <1>4, Zenon DEF ValidateRoot, Conclude
    <2>. QED
      BY <2>1, <2>2 DEF CoverInv
  <1>5. CASE ExecuteEvent
    BY <1>5, ExecuteEventCover
  <1>6. CASE FollowEdge
    BY <1>6, FollowEdgeCover
  <1>7. CASE Return
    BY <1>7 DEF Return, CoverInv
  <1>8. CASE UNCHANGED vars
    BY <1>8 DEF vars, analysis, execution, CoverInv
  <1>. QED
    BY <1>1, <1>2, <1>3, <1>4, <1>5, <1>6, <1>7, <1>8 DEF Next, Finished

\* The inductive invariant.
SoundInv == TypeOK /\ AnalysisInv /\ CoverInv

(***************************************************************************)
(* The verifier's knowledge of the roots and the execution's agreement     *)
(* with it are an invariant of every behaviour.                            *)
(***************************************************************************)
THEOREM SoundInvariant == Spec => []SoundInv
  <1>1. Init => SoundInv
    BY InitType, InitAnalysis DEF SoundInv, CoverInv, Init
  <1>2. SoundInv /\ [Next]_vars => SoundInv'
    BY NextType, NextAnalysis, NextCover DEF SoundInv
  <1>. QED
    BY <1>1, <1>2, PTL DEF Spec

\* An event the verifier finds valid in a flow is permitted in every state
\* the flow accounts for.
LEMMA ValidIsPermitted ==
    ASSUME NEW f, NEW i, NEW r, NEW flow, NEW c, Covers(flow, c),
           ownershipEventValidInFlow(f, i, r, flow)
    PROVE  Permitted(f.events[i].kind, c.state)
  <1> DEFINE k == f.events[i].kind
  <1>1. CASE k = "storage_live"
    BY <1>1 DEF ownershipEventValidInFlow, Permitted, Covers, Consuming
  <1>2. CASE k = "init"
    BY <1>2 DEF ownershipEventValidInFlow, Permitted, Covers, Consuming
  <1>3. CASE k = "reinit"
    BY <1>3 DEF ownershipEventValidInFlow, Permitted, Covers, Consuming
  <1>4. CASE k \in Consuming
    BY <1>4 DEF ownershipEventValidInFlow, Permitted, Covers, Consuming
  <1>5. CASE k \in {"borrow_begin", "set_drop_flag"}
    BY <1>5 DEF ownershipEventValidInFlow, Permitted, Covers, Consuming
  <1>6. CASE k = "storage_dead"
    BY <1>6 DEF ownershipEventValidInFlow, Permitted, Covers, Consuming
  <1>7. CASE k \notin {"storage_live", "init", "reinit", "storage_dead",
                       "borrow_begin", "set_drop_flag"} \cup Consuming
    BY <1>7 DEF Permitted
  <1>. QED
    BY <1>1, <1>2, <1>3, <1>4, <1>5, <1>6, <1>7

\* The invariant makes the next operation of every root the verifier solved
\* to a fixpoint permitted.
LEMMA SoundInvImplies ==
    ASSUME SoundInv, cut = {}
    PROVE  NoInvalidOperation
  <1> SUFFICES ASSUME phase = "running", NEW i \in Positions, IsNextEvent(i),
                      events[i].root \in TrackedRoots(fn)
               PROVE  Permitted(events[i].kind, own[events[i].root].state)
    BY DEF NoInvalidOperation
  <1> DEFINE r == events[i].root
             flow == applyOwnershipBlockEvents(fn, r, bb, i - 1, entry[r][bb])
  <1>1. Covers(flow, own[r]) /\ entry[r][bb].reachable
    <2>1. flow = applyOwnershipBlockEvents(fn, r, bb, pos, entry[r][bb])
      BY NextEventSetters, SameSetters DEF SoundInv
    <2>. QED
      BY <2>1 DEF SoundInv, CoverInv
  <1>2. ownershipRootFlowValid(fn, r, entry[r])
    <2>1. r \in DoneRoots
      BY DEF SoundInv, AnalysisInv, DoneRoots
    <2>. QED
      BY <2>1 DEF SoundInv, AnalysisInv, Analysed
  <1>3. ownershipEventValidInFlow(fn, i, r, flow)
    <2>1. /\ ownershipEventTracksRoot(fn.events[i], r)
          /\ fn.events[i].block = bb
          /\ i \in DOMAIN fn.events /\ bb \in Blocks
      BY DEF IsNextEvent, ownershipEventTracksRoot, events, Positions, SoundInv, TypeOK
    <2>. QED
      BY <1>1, <1>2, <2>1 DEF ownershipRootFlowValid
  <1>. QED
    BY <1>1, <1>3, ValidIsPermitted DEF events

(***************************************************************************)
(* Soundness of the MIR ownership verifier, for every control-flow graph   *)
(* and every event list: unless the solver was stopped by its round bound, *)
(* no path through an admitted function performs an ownership operation    *)
(* the state of the root does not permit.                                  *)
(***************************************************************************)
THEOREM Soundness == Spec => [](cut = {} => NoInvalidOperation)
  <1>1. SoundInv => (cut = {} => NoInvalidOperation)
    BY SoundInvImplies
  <1>. QED
    BY <1>1, SoundInvariant, PTL

(***************************************************************************)
(* Under the same condition the flows the solver computed account for the  *)
(* state and the generation of every analysed root at every point of every *)
(* execution.                                                              *)
(***************************************************************************)
THEOREM Coverage == Spec => [](cut = {} => ExecutionCovered)
  <1>1. SoundInv => (cut = {} => ExecutionCovered)
    BY DEF SoundInv, CoverInv, ExecutionCovered
  <1>. QED
    BY <1>1, SoundInvariant, PTL

----------------------------------------------------------------------------
(* Steps of the execution.                                                 *)

\* A permitted operation takes an owned root to consumed only, and makes a
\* root owned only from entered storage or after it was consumed.
LEMMA PermittedIsLinear ==
    ASSUME NEW k \in Kinds \ Neutral, NEW s, Permitted(k, s)
    PROVE  /\ s = "live" => Post(k) = "consumed"
           /\ Post(k) = "live" => s \in {"storage_live", "consumed"}
  BY DEF Permitted, Post, Kinds, Neutral, Consuming

(***************************************************************************)
(* Ownership is linear in every execution of an admitted function whose    *)
(* roots were solved to a fixpoint: a step takes an owned root to consumed *)
(* and nowhere else, and makes a root owned only from entered storage or   *)
(* after it was consumed.                                                  *)
(***************************************************************************)
THEOREM OwnershipLinear == Spec /\ [](cut = {}) => OwnershipIsLinear
  <1> DEFINE Linear ==
        phase = "running" =>
          \A r \in TrackedRoots(fn) :
              own'[r] # own[r] =>
                 /\ own[r].state = "live" => own'[r].state = "consumed"
                 /\ own'[r].state = "live" =>
                        own[r].state \in {"storage_live", "consumed"}
  <1>1. ASSUME SoundInv, cut = {}, [Next]_vars, phase = "running",
               NEW r \in TrackedRoots(fn), own'[r] # own[r]
        PROVE  /\ own[r].state = "live" => own'[r].state = "consumed"
               /\ own'[r].state = "live" =>
                      own[r].state \in {"storage_live", "consumed"}
    <2>1. ExecuteEvent
      <3>1. own' # own
        BY <1>1
      <3>. QED
        BY <1>1, <3>1 DEF Next, CheckEvents, NextRoot, AnalysisOutOfMemory,
           FinishRoots, SolveBlock, EndRound, ValidateRoot, FollowEdge, Return,
           Finished, vars, execution
    <2>2. PICK i \in Positions :
            /\ IsNextEvent(i)
            /\ own' = IF events[i].kind \in Neutral THEN own
                      ELSE [own EXCEPT ![events[i].root] =
                               [state |-> Post(events[i].kind), gen |-> events[i].gen]]
      BY <2>1 DEF ExecuteEvent
    <2>3. r \in Roots /\ own \in [Roots -> [state : States, gen : Nat]]
      BY <1>1 DEF TrackedRoots, SoundInv, TypeOK
    <2>4. events[i].kind \notin Neutral /\ events[i].root = r
      BY <1>1, <2>2, <2>3
    <2>5. own'[r].state = Post(events[i].kind)
      BY <2>2, <2>3, <2>4
    <2>6. Permitted(events[i].kind, own[r].state)
      BY <1>1, <2>2, <2>4, SoundInvImplies DEF NoInvalidOperation
    <2>7. events[i].kind \in Kinds \ Neutral
      <3>1. events[i] \in Event
        BY <1>1, <2>2 DEF SoundInv, TypeOK, Positions, events
      <3>. QED
        BY <2>4, <3>1 DEF Event
    <2>. QED
      BY <2>5, <2>6, <2>7, PermittedIsLinear
  <1>2. SoundInv /\ cut = {} /\ [Next]_vars => [Linear]_vars
    BY <1>1
  <1>. QED
    BY <1>2, SoundInvariant, PTL DEF Spec, OwnershipIsLinear

----------------------------------------------------------------------------
(* The closing check.                                                      *)

\* The execution follows the list: a root is in the state the last executed
\* event of the block left it in.
FollowsEvents ==
    \A r \in Roots : \A j \in Setters(fn, r, bb, pos) :
        IsLast(j, Setters(fn, r, bb, pos)) => own[r].state = Post(events[j].kind)

\* The lowering admission passes the closing check before the second pass
\* starts, whatever that one then does about memory, and a function that has
\* returned has run its last block to the end.
ClosedInv ==
    /\ pass = "diagnostic" => typedOwnershipRootsClosed(fn)
    /\ phase \in {"running", "returned"} => FollowsEvents
    /\ phase = "returned" => BlockDone

\* No setter has run at position 0.
LEMMA FollowsAtStart ==
    ASSUME pos = 0
    PROVE  FollowsEvents
  BY DEF FollowsEvents, Setters

\* An event sets the state of its root and of no other.
LEMMA ExecuteEventFollows ==
    ASSUME TypeOK, FollowsEvents, ExecuteEvent
    PROVE  FollowsEvents'
  <1>1. PICK i \in Positions :
          /\ IsNextEvent(i)
          /\ pos' = i
          /\ own' = IF events[i].kind \in Neutral THEN own
                    ELSE [own EXCEPT ![events[i].root] =
                             [state |-> Post(events[i].kind), gen |-> events[i].gen]]
    BY DEF ExecuteEvent
  <1>2. UNCHANGED <<fn, bb>> /\ i \in Nat \ {0}
    BY <1>1, NextEventSetters DEF ExecuteEvent
  <1>3. ASSUME NEW r \in Roots, NEW j \in Setters(fn, r, bb, i),
               IsLast(j, Setters(fn, r, bb, i))
        PROVE  own'[r].state = Post(events[j].kind)
    <2>1. CASE i \in Setters(fn, r, bb, i)
      <3>1. i <= j /\ j \in 1 .. i
        BY <1>2, <1>3, <2>1 DEF IsLast, Setters
      <3>2. j = i
        BY <1>2, <3>1
      <3>3. events[i].kind \notin Neutral /\ events[i].root = r
        BY <2>1 DEF Setters, ownershipEventTracksRoot, events
      <3>. QED
        BY <1>1, <1>3, <3>2, <3>3 DEF TypeOK
    <2>2. CASE i \notin Setters(fn, r, bb, i)
      <3>1. Setters(fn, r, bb, i) = Setters(fn, r, bb, pos)
        BY <1>1, <2>2, NextEventSetters
      <3>2. own[r].state = Post(events[j].kind)
        BY <1>3, <3>1 DEF FollowsEvents
      <3>3. events[i].kind \in Neutral \/ events[i].root # r
        BY <1>1, <2>2, NextEventSetters
           DEF Setters, ownershipEventTracksRoot, events, IsNextEvent
      <3>4. own'[r] = own[r]
        BY <1>1, <1>3, <3>3 DEF TypeOK
      <3>. QED
        BY <3>2, <3>4
    <2>. QED
      BY <2>1, <2>2
  <1>. QED
    BY <1>1, <1>2, <1>3 DEF FollowsEvents, events

\* Every step preserves the invariant of the closing check.
LEMMA NextClosed ==
    ASSUME SoundInv, ClosedInv, [Next]_vars
    PROVE  ClosedInv'
  <1>0. TypeOK
    BY DEF SoundInv
  <1>1. CASE CheckEvents \/ NextRoot \/ SolveBlock \/ EndRound
    <2>1. UNCHANGED <<fn, pass>> /\ phase' \notin {"running", "returned"}
      BY <1>1 DEF CheckEvents, NextRoot, SolveBlock, EndRound
    <2>. QED
      BY <2>1 DEF ClosedInv
  <1>2. CASE AnalysisOutOfMemory \/ FinishRoots
    <2>1. UNCHANGED <<fn, bb, pos, own>> /\ phase' # "returned"
      BY <1>2, Zenon DEF AnalysisOutOfMemory, FinishRoots, Conclude, execution
    <2>2. phase = "roots"
      BY <1>2 DEF AnalysisOutOfMemory, FinishRoots
    <2>3. pos = 0
      BY <2>2 DEF SoundInv, CoverInv
    <2>4. pass' = "diagnostic" => pass = "diagnostic" \/ typedOwnershipRootsClosed(fn)
      BY <1>2, Zenon DEF AnalysisOutOfMemory, FinishRoots, Conclude, TypeOK
    <2>5. FollowsEvents
      BY <2>3, FollowsAtStart
    <2>6. FollowsEvents'
      BY <2>1, <2>5 DEF FollowsEvents, events
    <2>. QED
      BY <2>1, <2>4, <2>6 DEF ClosedInv
  <1>3. CASE ValidateRoot
    <2>1. fn' = fn /\ phase' \notin {"running", "returned"} /\ pass' = pass
      BY <1>3, Zenon DEF ValidateRoot, Conclude
    <2>. QED
      BY <2>1 DEF ClosedInv
  <1>4. CASE ExecuteEvent
    <2>1. UNCHANGED <<fn, pass>> /\ phase = "running" /\ phase' = "running"
      BY <1>4 DEF ExecuteEvent
    <2>2. FollowsEvents'
      BY <1>0, <1>4, <2>1, ExecuteEventFollows DEF ClosedInv
    <2>. QED
      BY <2>1, <2>2 DEF ClosedInv
  <1>5. CASE FollowEdge
    <2>1. UNCHANGED <<fn, pass>> /\ phase' = "running" /\ pos' = 0
      BY <1>5 DEF FollowEdge
    <2>2. FollowsEvents'
      BY <2>1 DEF FollowsEvents, Setters
    <2>. QED
      BY <2>1, <2>2 DEF ClosedInv
  <1>6. CASE Return \/ UNCHANGED vars
    <2>1. /\ UNCHANGED <<fn, pass, bb, pos, own>>
          /\ phase' = phase \/ (phase = "running" /\ BlockDone)
      BY <1>6 DEF Return, vars, execution
    <2>2. (FollowsEvents <=> FollowsEvents') /\ (BlockDone <=> BlockDone')
      BY <2>1 DEF FollowsEvents, BlockDone, Positions, events
    <2>. QED
      BY <2>1, <2>2 DEF ClosedInv
  <1>. QED
    BY <1>1, <1>2, <1>3, <1>4, <1>5, <1>6 DEF Next, Finished

(***************************************************************************)
(* typedOwnershipRootsClosed does what it is for, for every function and   *)
(* whether or not the solver converged or the second pass ran out of       *)
(* memory: a function that returns from the block of a root's last         *)
(* state-setting event does not own the root.                              *)
(***************************************************************************)
THEOREM ReturnsClosed == Spec => []ClosedAtFinalReturn
  <1>1. Init => ClosedInv
    BY DEF Init, ClosedInv
  <1>2. SoundInv /\ ClosedInv /\ [Next]_vars => ClosedInv'
    BY NextClosed
  <1>3. SoundInv /\ ClosedInv => ClosedAtFinalReturn
    <2> SUFFICES ASSUME SoundInv, ClosedInv, phase = "returned", NEW r \in Roots,
                        NEW j \in AllSetters(fn, r), IsLast(j, AllSetters(fn, r)),
                        events[j].block = bb
                 PROVE  own[r].state # "live"
      BY DEF ClosedAtFinalReturn
    <2> DEFINE S == Setters(fn, r, bb, pos)
    <2>1. TypeOK /\ pass = "diagnostic"
      BY DEF SoundInv, AnalysisInv
    <2>2. S = Setters(fn, r, bb, Len(fn.events))
      BY <2>1, BlockDoneSetters DEF ClosedInv
    <2>3. DOMAIN fn.events = 1 .. Len(fn.events)
      BY <2>1 DEF TypeOK
    <2>4. S \subseteq AllSetters(fn, r) /\ j \in S
      BY <2>2, <2>3 DEF Setters, AllSetters, events
    <2>5. IsLast(j, S)
      BY <2>4 DEF IsLast
    <2>6. own[r].state = Post(events[j].kind)
      BY <2>4, <2>5 DEF ClosedInv, FollowsEvents
    <2>7. Post(events[j].kind) # "live"
      BY <2>1 DEF ClosedInv, typedOwnershipRootsClosed, events
    <2>. QED
      BY <2>6, <2>7
  <1>. QED
    BY <1>1, <1>2, <1>3, SoundInvariant, PTL DEF Spec

----------------------------------------------------------------------------
(* Exactness of the solved flows.                                          *)

\* The pairs solved so far for the current root are ones that paths lead to:
\* they belong to every set that is closed under paths.  A block is reachable
\* exactly when it has a possible state.
LeastInv ==
    phase \in {"solving", "validating"} =>
        /\ \A b \in Blocks :
               entry[cur][b].reachable <=> entry[cur][b].states # {}
        /\ \A K : PathClosed(fn, cur, K) => Solved(entry[cur]) \subseteq K

\* Membership in the solved pairs.
LEMMA SolvedPairs ==
    ASSUME NEW flows, NEW b \in Blocks, NEW s \in States
    PROVE  <<b, s>> \in Solved(flows) <=> s \in flows[b].states
  BY DEF Solved

\* A set that has the pairs of the flows one by one has the solved pairs.
LEMMA SolvedWithin ==
    ASSUME NEW flows, NEW K,
           \A b \in Blocks, s \in States : s \in flows[b].states => <<b, s>> \in K
    PROVE  Solved(flows) \subseteq K
  <1> SUFFICES ASSUME NEW p \in Solved(flows)  PROVE p \in K
    OBVIOUS
  <1>1. PICK b \in Blocks, s \in States : p = <<b, s>>
    BY DEF Solved
  <1>2. s \in flows[b].states
    BY <1>1, SolvedPairs
  <1>. QED
    BY <1>1, <1>2

\* What one step of a path leads to is in a closed set.
LEMMA ClosedStep ==
    ASSUME NEW f, NEW r, NEW K, PathClosed(f, r, K),
           NEW b \in Blocks, NEW s \in States, <<b, s>> \in K,
           NEW t \in Targets(f, b)
    PROVE  <<t, StateAfter(f, r, b, s)>> \in K
  BY DEF PathClosed

\* The transfer function of a block is StateAfter, state by state.
LEMMA ExitStates ==
    ASSUME NEW f, f.events \in Seq(Event), NEW r, NEW flows, NEW b \in Blocks,
           flows[b] \in Flow, flows[b].reachable, flows[b].states # {}
    PROVE  /\ ExitFlow(f, r, flows, b).reachable
           /\ \A s \in flows[b].states :
                 StateAfter(f, r, b, s) \in ExitFlow(f, r, flows, b).states
           /\ \A t \in ExitFlow(f, r, flows, b).states :
                 \E s \in flows[b].states : t = StateAfter(f, r, b, s)
  <1> DEFINE S == Setters(f, r, b, Len(f.events))
             last == CHOOSE j \in S : IsLast(j, S)
             kind == f.events[last].kind
  <1>1. CASE S = {}
    <2>1. ExitFlow(f, r, flows, b) = flows[b]
      BY <1>1 DEF ExitFlow, applyOwnershipBlockEvents
    <2>2. \A s : StateAfter(f, r, b, s) = s
      BY <1>1 DEF StateAfter
    <2>. QED
      BY <2>1, <2>2
  <1>2. CASE S # {}
    <2>1. \E j \in S : IsLast(j, S)
      <3>1. Len(f.events) \in Nat /\ S \in SUBSET (1 .. Len(f.events))
        BY DEF Setters
      <3>. QED
        BY <1>2, <3>1, LastExists, Zenon
    <2>2. last \in S
      BY <2>1
    <2>3. kind \notin Neutral
      BY <2>2 DEF Setters
    <2>4. ExitFlow(f, r, flows, b) = single(Post(kind), f.events[last].gen)
      BY <1>2, <2>3 DEF ExitFlow, applyOwnershipBlockEvents, applyOwnershipEvent
    <2>5. \A s : StateAfter(f, r, b, s) = Post(kind)
      BY <1>2 DEF StateAfter
    <2>6. /\ ExitFlow(f, r, flows, b).reachable
          /\ ExitFlow(f, r, flows, b).states = {Post(kind)}
      BY <2>4 DEF single
    <2>. QED
      BY <2>5, <2>6
  <1>. QED
    BY <1>1, <1>2

\* The solver starts from the entry block in the one state it can be in.
LEMMA NextRootLeast ==
    ASSUME TypeOK, NextRoot
    PROVE  LeastInv'
  <1>1. PICK i \in Positions :
          /\ cur' = events[i].root
          /\ entry' = [entry EXCEPT ![events[i].root] = EmptyBuffer]
    BY ResetIs DEF NextRoot
  <1>2. cur' \in Roots
    <2>1. events[i] \in Event
      BY DEF TypeOK, Positions, events
    <2>. QED
      BY <1>1, <2>1 DEF Event
  <1>3. \A b \in Blocks : entry'[cur'][b] =
           IF b = 0 THEN single("untracked", 0) ELSE Unreached
    BY <1>1, <1>2 DEF TypeOK, EmptyBuffer
  <1>4. \A b \in Blocks :
           /\ entry'[cur'][b].reachable <=> entry'[cur'][b].states # {}
           /\ \A s \in entry'[cur'][b].states : b = 0 /\ s = "untracked"
    BY <1>3 DEF single, Unreached
  <1>5. ASSUME NEW K, PathClosed(fn', cur', K)
        PROVE  Solved(entry'[cur']) \subseteq K
    <2>1. <<0, "untracked">> \in K
      BY <1>5 DEF PathClosed
    <2>2. \A b \in Blocks, s \in States :
             s \in entry'[cur'][b].states => <<b, s>> \in K
      BY <1>4, <2>1
    <2>. QED
      BY <2>2, SolvedWithin
  <1>. QED
    BY <1>4, <1>5 DEF LeastInv

\* A block adds to its successors only what its own states lead to.
LEMMA SolveBlockLeast ==
    ASSUME TypeOK, LeastInv, SolveBlock
    PROVE  LeastInv'
  <1> DEFINE flows == entry[cur]
             exit == ExitFlow(fn, cur, flows, index)
             next == [s \in Blocks |->
                         IF flows[index].reachable /\ s \in Targets(fn, index)
                         THEN join(flows[s], exit) ELSE flows[s]]
  <1>1. index \in Blocks /\ flows \in [Blocks -> Flow]
    BY ConstantsAssumption DEF TypeOK, SolveBlock, Blocks
  <1>2. exit \in Flow
    BY <1>1, BlockFlowType DEF ExitFlow, TypeOK, events
  <1>3. /\ entry'[cur] = next
        /\ UNCHANGED <<fn, cur>>
        /\ phase = "solving"
    BY DEF SolveBlock, TypeOK
  <1>4. /\ \A b \in Blocks : flows[b].reachable <=> flows[b].states # {}
        /\ \A K : PathClosed(fn, cur, K) => Solved(flows) \subseteq K
    BY <1>3 DEF LeastInv
  <1>5. fn.events \in Seq(Event)
    BY DEF TypeOK
  <1>6. flows[index].reachable =>
          /\ exit.reachable
          /\ \A s \in flows[index].states : StateAfter(fn, cur, index, s) \in exit.states
          /\ \A t \in exit.states :
                \E s \in flows[index].states : t = StateAfter(fn, cur, index, s)
    BY <1>1, <1>4, <1>5, ExitStates
  <1>7. flows[index].reachable => exit.reachable /\ exit.states # {}
    BY <1>1, <1>4, <1>6
  <1> HIDE DEF exit, flows
  <1>8. ASSUME NEW b \in Blocks
        PROVE  /\ next[b].reachable <=> next[b].states # {}
               /\ next[b] = flows[b]
                  \/ /\ flows[index].reachable /\ b \in Targets(fn, index)
                     /\ next[b].states \subseteq flows[b].states \cup exit.states
    <2>1. CASE flows[index].reachable /\ b \in Targets(fn, index)
      <3>1. next[b] = join(flows[b], exit)
        BY <2>1
      <3>2. join(flows[b], exit).reachable <=> join(flows[b], exit).states # {}
        BY <1>1, <1>2, <1>4, <1>7, <1>8, <2>1 DEF join, Flow
      <3>3. join(flows[b], exit).states \subseteq flows[b].states \cup exit.states
        BY DEF join
      <3>. QED
        BY <2>1, <3>1, <3>2, <3>3
    <2>2. CASE ~(flows[index].reachable /\ b \in Targets(fn, index))
      <3>1. next[b] = flows[b]
        BY <2>2
      <3>. QED
        BY <1>4, <1>8, <3>1
    <2>. QED
      BY <2>1, <2>2
  <1> HIDE DEF next
  <1>9. ASSUME NEW K, PathClosed(fn, cur, K)
        PROVE  Solved(next) \subseteq K
    <2>1. \A b \in Blocks, s \in States : s \in flows[b].states => <<b, s>> \in K
      BY <1>4, <1>9, SolvedPairs
    <2>2. ASSUME NEW b \in Blocks, NEW s \in States, s \in next[b].states
          PROVE  <<b, s>> \in K
      <3>1. CASE s \in flows[b].states
        BY <2>1, <3>1
      <3>2. CASE s \notin flows[b].states
        <4>1. flows[index].reachable /\ b \in Targets(fn, index) /\ s \in exit.states
          BY <1>8, <2>2, <3>2
        <4>2. PICK z \in flows[index].states : s = StateAfter(fn, cur, index, z)
          BY <1>6, <4>1
        <4>3. z \in States
          BY <1>1, <4>2 DEF Flow
        <4>4. <<index, z>> \in K
          BY <1>1, <2>1, <4>2, <4>3
        <4>5. <<b, StateAfter(fn, cur, index, z)>> \in K
          BY <1>1, <1>9, <4>1, <4>3, <4>4, ClosedStep
        <4>. QED
          BY <4>2, <4>5
      <3>. QED
        BY <3>1, <3>2
    <2>. QED
      BY <2>2, SolvedWithin
  <1>. QED
    BY <1>3, <1>8, <1>9 DEF LeastInv

\* Every step keeps the solved pairs within what paths lead to.
LEMMA NextLeast ==
    ASSUME TypeOK, LeastInv, [Next]_vars
    PROVE  LeastInv'
  <1>1. CASE NextRoot
    BY <1>1, NextRootLeast
  <1>2. CASE SolveBlock
    BY <1>2, SolveBlockLeast
  <1>3. CASE EndRound
    <2>1. UNCHANGED <<fn, cur, entry>> /\ phase = "solving"
      BY <1>3 DEF EndRound
    <2>. QED
      BY <2>1 DEF LeastInv
  <1>4. CASE ValidateRoot \/ AnalysisOutOfMemory \/ FinishRoots
    <2>1. phase' \notin {"solving", "validating"}
      BY <1>4, Zenon DEF ValidateRoot, AnalysisOutOfMemory, FinishRoots, Conclude
    <2>. QED
      BY <2>1 DEF LeastInv
  <1>5. CASE CheckEvents \/ ExecuteEvent \/ FollowEdge \/ Return
    <2>1. phase' \notin {"solving", "validating"}
      BY <1>5 DEF CheckEvents, ExecuteEvent, FollowEdge, Return
    <2>. QED
      BY <2>1 DEF LeastInv
  <1>6. CASE UNCHANGED vars
    BY <1>6 DEF vars, analysis, LeastInv
  <1>. QED
    BY <1>1, <1>2, <1>3, <1>4, <1>5, <1>6 DEF Next, Finished

\* A fixpoint of the solver is closed under paths.
LEMMA FixpointIsClosed ==
    ASSUME NEW f, f.events \in Seq(Event), NEW r, NEW flows \in [Blocks -> Flow],
           Fixpoint(f, r, flows), "untracked" \in flows[0].states,
           \A b \in Blocks : flows[b].reachable <=> flows[b].states # {}
    PROVE  PathClosed(f, r, Solved(flows))
  <1>1. 0 \in Blocks /\ "untracked" \in States
    BY ConstantsAssumption DEF Blocks, States
  <1>2. <<0, "untracked">> \in Solved(flows)
    BY <1>1, SolvedPairs
  <1>3. ASSUME NEW b \in Blocks, NEW s \in States, <<b, s>> \in Solved(flows),
               NEW t \in Targets(f, b)
        PROVE  <<t, StateAfter(f, r, b, s)>> \in Solved(flows)
    <2> DEFINE exit == ExitFlow(f, r, flows, b)
    <2>1. s \in flows[b].states /\ t \in Blocks
      BY <1>3, SolvedPairs DEF Targets
    <2>2. flows[b].reachable /\ flows[b].states # {}
      BY <2>1
    <2>3. exit.reachable /\ StateAfter(f, r, b, s) \in exit.states
      BY <2>1, <2>2, ExitStates
    <2>4. join(flows[t], exit) = flows[t]
      BY <2>2 DEF Fixpoint, Stable
    <2>5. exit \in Flow
      BY BlockFlowType DEF ExitFlow
    <2> HIDE DEF exit
    <2>6. exit.states \subseteq flows[t].states
      BY <2>1, <2>3, <2>4, <2>5 DEF join, Flow
    <2>7. StateAfter(f, r, b, s) \in flows[t].states
      BY <2>3, <2>6
    <2>8. StateAfter(f, r, b, s) \in States
      BY <2>1, <2>7 DEF Flow
    <2>. QED
      BY <2>1, <2>7, <2>8, SolvedPairs
  <1>. QED
    BY <1>2, <1>3 DEF PathClosed

(***************************************************************************)
(* The solver is exact, for every control-flow graph and event list: when  *)
(* it was not stopped by its round bound, the states it hands to the       *)
(* validation of a root are those that some path leads to, all of them and *)
(* no other.                                                               *)
(***************************************************************************)
THEOREM SolverIsExact == Spec => [](cur \notin cut => EntryStatesExact)
  <1>1. Init => LeastInv
    BY DEF Init, LeastInv
  <1>2. SoundInv /\ LeastInv /\ [Next]_vars => LeastInv'
    BY NextLeast DEF SoundInv
  <1>3. SoundInv /\ LeastInv => (cur \notin cut => EntryStatesExact)
    <2> SUFFICES ASSUME SoundInv, LeastInv, cur \notin cut, phase = "validating"
                 PROVE  EntryStatesExact
      BY DEF EntryStatesExact
    <2> DEFINE flows == entry[cur]
    <2>1. flows \in [Blocks -> Flow] /\ fn.events \in Seq(Event)
      BY DEF SoundInv, TypeOK
    <2>2. Fixpoint(fn, cur, flows) /\ "untracked" \in flows[0].states
      BY DEF SoundInv, AnalysisInv, EntryCovered, Covers
    <2>3. /\ \A b \in Blocks : flows[b].reachable <=> flows[b].states # {}
          /\ \A K : PathClosed(fn, cur, K) => Solved(flows) \subseteq K
      BY DEF LeastInv
    <2>4. PathClosed(fn, cur, Solved(flows))
      BY <2>1, <2>2, <2>3, FixpointIsClosed
    <2> HIDE DEF flows
    <2>5. \A K \in SUBSET Solved(flows) : PathClosed(fn, cur, K) => K = Solved(flows)
      BY <2>3
    <2>. QED
      BY <2>3, <2>4, <2>5 DEF EntryStatesExact, flows
  <1>. QED
    BY <1>1, <1>2, <1>3, SoundInvariant, PTL DEF Spec
============================================================================
