-------------------------- MODULE MCOwnershipFlow --------------------------
(***************************************************************************)
(* Instances of OwnershipFlow for TLC.                                     *)
(***************************************************************************)
EXTENDS OwnershipFlow, FiniteSets, SequencesExt

CONSTANTS a, b2      \* the roots

Ev(kind, block, root, gen) ==
    [kind |-> kind, block |-> block, root |-> root, gen |-> gen,
     typed |-> TRUE, shaped |-> TRUE]

\* What block k may do to root r.
EnterBodies(k, r) ==
    {<< >>,
     <<Ev("storage_live", k, r, 0)>>,
     <<Ev("storage_live", k, r, 0), Ev("init", k, r, 0)>>}

Bodies(k, r) ==
    {<< >>,
     <<Ev("storage_live", k, r, 0), Ev("init", k, r, 0)>>,
     <<Ev("init", k, r, 0)>>,
     <<Ev("move_out", k, r, 0)>>,
     <<Ev("reinit", k, r, 1)>>,
     <<Ev("borrow_begin", k, r, 0), Ev("borrow_end", k, r, 0)>>,
     <<Ev("auto_drop", k, r, 0), Ev("storage_dead", k, r, 0)>>,
     <<Ev("storage_dead", k, r, 0)>>,
     <<Ev("reinit", k, r, 1), Ev("explicit_drop", k, r, 1)>>}

\* Every control-flow graph over three blocks with at most two successors
\* per block in which the entry block leads to the last block, or to both
\* others: the rounds meet control flow that runs with the block numbers and
\* against them.
Graphs3 == {g \in [Blocks -> {S \in SUBSET Blocks : Cardinality(S) <= 2}] :
              g[0] \in {{2}, {1, 2}}}

AllSmallFunctions ==
    {[succ |-> g, events |-> x \o y \o z] :
        g \in Graphs3, x \in EnterBodies(0, a), y \in Bodies(1, a), z \in Bodies(2, a)}

\* Branch, early return, loop, self-loop, and an edge to a block that does
\* not exist.
NamedGraphs == {<<{1}, {2}, {}>>, <<{1, 2}, {2}, {}>>, <<{1, 2}, {}, {}>>,
                <<{1}, {1, 2}, {}>>, <<{1}, {2}, {0, 1}>>, <<{1, 7}, {2}, {}>>}

GraphOf(t) == [k \in Blocks |-> t[k + 1]]

\* Two roots, interleaved in the list, in the branch and the final block.
TwoRootEvents ==
    {x \o y \o z :
        x \in {<<Ev("storage_live", 0, a, 0), Ev("init", 0, a, 0),
                 Ev("storage_live", 0, b2, 0), Ev("init", 0, b2, 0)>>,
               <<Ev("storage_live", 0, a, 0), Ev("storage_live", 0, b2, 0),
                 Ev("init", 0, a, 0)>>},
        y \in {<< >>,
               <<Ev("move_out", 1, a, 0)>>,
               <<Ev("forget", 1, a, 0), Ev("set_drop_flag", 1, b2, 0)>>,
               <<Ev("init", 1, b2, 0), Ev("move_out", 1, b2, 0)>>},
        z \in {<<Ev("auto_drop", 2, b2, 0), Ev("storage_dead", 2, b2, 0)>>,
               <<Ev("move_out", 2, a, 0), Ev("explicit_drop", 2, b2, 0)>>,
               <<Ev("auto_drop", 2, b2, 0), Ev("auto_drop", 2, a, 0),
                 Ev("storage_dead", 2, a, 0), Ev("storage_dead", 2, b2, 0)>>}}

\* One event of the list loses its type identity, its other identities or
\* its block.
Damaged(l) == {l} \cup
    {[l EXCEPT ![i] = e] : <<i, e>> \in
        {<<i, [l[i] EXCEPT !.typed = FALSE]>> : i \in DOMAIN l}
        \cup {<<i, [l[i] EXCEPT !.shaped = FALSE]>> : i \in DOMAIN l}
        \cup {<<i, [l[i] EXCEPT !.block = 9]>> : i \in DOMAIN l}}

TwoRootFunctions ==
    {[succ |-> GraphOf(g), events |-> l] :
        g \in NamedGraphs, l \in UNION {Damaged(m) : m \in TwoRootEvents}}

\* The functions of the passing run.
AllFunctions == AllSmallFunctions \cup TwoRootFunctions

\* A loop over six blocks numbered against the direction of control flow,
\* whose last block moves a value that was initialized before the loop:
\* 0 -> 5 -> 4 -> 3 -> 2 -> 1 -> 5.
DescendingLoop ==
    {[succ |-> [k \in Blocks |-> IF k <= 1 THEN {NBlocks - 1} ELSE {k - 1}],
      events |-> <<Ev("storage_live", 0, a, 0), Ev("init", 0, a, 0),
                   Ev("move_out", 1, a, 0)>>]}

----------------------------------------------------------------------------
(* Reference semantics of a block: its events one by one, in list order.   *)

RunBlock(l, r, blk, state) ==
    FoldLeft(LAMBDA s, e :
                 IF e.block = blk /\ e.typed /\ e.root = r /\ e.kind \notin Neutral
                 THEN Post(e.kind) ELSE s,
             state, l)

\* StateAfter looks at the last setter only; that is what running the events
\* one by one comes to, on every event list of the instance.
ASSUME StateAfterRunsBlock ==
    \A l \in {f.events : f \in MirFunctions} :
        \A r \in Roots, blk \in Blocks, s \in States :
            StateAfter([events |-> l], r, blk, s) = RunBlock(l, r, blk, s)
============================================================================
