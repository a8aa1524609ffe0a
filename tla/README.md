# A TLA+ verification of Modern C (mcc and its standard library)

Modern C (MC) is a systems language. This repository holds its compiler, `mcc`
(Zig, `src/src`), the standard library, written in MC (`src/std`), and the
Python tools that test the compiler (`src/tools`): a fuzzer with fourteen
oracles and a reference interpreter, and sweeps that drive the fixture corpus
through both backends. This directory models the parts whose correctness
depends on what happens along every path, in every interleaving or after every
failure: the verifier that decides which functions may be compiled, the
publisher that makes artifacts visible, the locks, the hash map, and the tools
that decide whether the compiler is in order.

## 1. The system

### 1.1 Components

| Component | State it keeps | Operations | Talks to |
|---|---|---|---|
| Loader, module graph (`loader.zig`, `module_graph.zig`) | loaded sources, import edges | load, resolve imports | parser |
| Lexer, parser | token position, tree | recursive descent | sema |
| Semantic analysis, move checker (`sema.zig`, `sema_move.zig`) | scopes, moved sets, diagnostics | check declarations and bodies | MIR construction |
| Monomorphization, compile-time evaluation | work list of instances, interpreter frames | instantiate, evaluate | sema |
| MIR construction (`mir_build.zig`) | blocks, values, ownership events, cleanup edges | translate bodies | MIR verification |
| **MIR ownership verifier** (`mir_cleanup_cfg.zig`, admitted by `verified_program.zig`) | entry flow per block, analysed roots, reporter | lowering admission, diagnostic verification | backends (gate) |
| Cleanup lowering (`backend_cleanup.zig`, `mir_ownership_authority.zig`) | cleanup plans | emit drops on edges | backends |
| C and LLVM backends | output text | lower verified MIR | publisher |
| **Artifact publisher** (`artifact_publisher.zig`), driver (`driver_build.zig`, `compiler_session.zig`) | output file, `.mcmeta` sidecar, temporaries, snapshot | publish with or without metadata, publish a linked file, roll back | file system, other mcc processes |
| **`std/sync/spinlock`** | two `atomic<u32>` counters | lock, unlock | threads |
| **`std/sync/rwlock`** | reader count, gate (a spinlock) | read/write lock and unlock | threads, spinlock |
| **`std/sync/seqlock`** | sequence, gate (a spinlock) | write begin/end, read begin/retry | threads, spinlock, the caller's data |
| `std/sync/barrier`, `std/sync/sync` | none | wrappers over fences and platform primitives | platform |
| **`std/collections/hashmap`** | slot array, length, capacity | put, get, contains, delete, free | allocator, holders of value pointers |
| `std/collections` (arc, guarded, slotmap, ring, vec, ...) | heap blocks, counts, tables | container operations | allocators |
| `std/alloc` (pool, arena, dma), `std/grant` | slots with generations, regions, buffers | allocate, free, reset, revoke | callers |
| Pure library code (sort, math, bits, fmt, mem, time, ...) | none | functions | - |
| **Fuzz campaign** (`tools/fuzz/mcfuzz.py`, `main`) | worker pool, suspects, failures, buckets, repros | run, corpus, shrink | oracles, pool threads |
| **Fuzz oracles** (`mcfuzz.py` 1403-2398) | none between seeds | one function per oracle, signatures | mcc, clang, llc, produced binaries |
| Fuzz program generator (`mcfuzz.py` 1-1400) | random state, text | generate | campaign |
| **Reference interpreter** (`tools/fuzz/mcref.py`) | syntax tree, Python environment | generate, render, evaluate | oracle `reference` |
| **Fixture stripping** (`tools/toolchain/spec_sweep_lib.py`) | chunks, keep flags | split, strip, normalize | sweeps |
| **Corpus sweeps** (six `*-sweep.py`) | results, temporaries, objects, allowlists | strip, run stages, report | mcc, clang, opt, llc, llvm-as, the manifest |
| **Expected-failure manifest** (`backend_gap_lib.py`, `backend-expected-failures-test.py`) | recorded failures | validate, parse and render a cause, compare | `spec-emit-sweep.py` |
| Gate selection (`dev-gates.py`), documentation scanners, build and shell runners | - | table lookups, text scans | CI |

Components in bold are modelled. `PROJECT.json` lists every component with
its status.

### 1.2 What is hard, and what correct means

* **Ownership verifier.** Everything MC promises about resources (no double
  move, no use after move, no leak) rests on it: a function it admits is
  compiled as it stands. The events of a function are one list, but execute
  along the paths of a graph, so the difficulty is what merges, loops,
  unreachable blocks and roots that share one list do to the analysis, and
  whether the fixpoint is really reached. Correct: no path through an admitted
  function performs an operation its root's state forbids; nothing that paths
  really do is lost and nothing else is added; both passes end; and running
  out of memory admits nothing.
* **Publisher.** Two files must change together on a file system that renames
  one at a time, every call may fail, the rollback may fail too, the process
  may be killed anywhere, and nothing excludes a second process. Correct: no
  partial file is ever visible; an artifact appears only next to its own
  metadata; a reported failure leaves no trace.
* **Locks.** Interleavings of single atomic accesses; counters that wrap
  (`fetch_add`) or trap (checked `+`); the order in which other threads see
  accesses to ordinary memory. Correct: exclusion, FIFO order, no starvation,
  no torn read.
* **Hash map.** Linear probing keeps no tombstones, so a deletion has to repair
  every probe path through the slot it empties, around the end of the table
  too; clients hold pointers into a table that moves. Correct: lookups answer
  as a map would, and probing ends.
* **Fuzzer.** It loads the machine it measures: a deadline missed under load
  looks like a hang. Oracles pass over failures that are "another oracle's
  concern". Shrinking changes the program it asks about. Correct: the exit code
  says what a quiet machine would find, a failure that one oracle leaves to the
  others is taken up by one of them, and a minimized program is minimal and still fails.
* **Reference interpreter.** Unbounded Python integers stand in for fixed-width
  arithmetic, and generator, renderer and evaluator are separate code. Correct:
  for every program it can generate, `mcc check` accepts the text and the value
  is the one the compiled program must print.
* **Stripping and sweeps.** Rejected declarations are cut out of a fixture by a
  text scan, and what depended on them must go too, no more and no less. Then
  many external steps may fail, on a pool, with files left from earlier runs
  and lists that excuse failures. Correct: PASS only if every fixture went
  through every stage or is excused, every excuse is still owed, and no
  temporary file stays behind.

The hazards behind these, each at its source line, are in `PROJECT.json`.

## 2. Modules

| Module | Models | Kind |
|---|---|---|
| `OwnershipFlow` | `mir_cleanup_cfg.zig` 526-533, 847-1224; the verdict of `VerifiedProgram.init` | component |
| `MCOwnershipFlow` | - | instances, and the path semantics used as reference |
| `OwnershipFlowProofs` | - | theorems |
| `ArtifactPublisher` | `artifact_publisher.zig`, the hand-over in `driver_build.zig` | component |
| `ArtifactPublisherProofs` | - | theorems |
| `FifoLock` | what a fair lock promises | abstract specification |
| `Spinlock` | `spinlock.mc` | component |
| `SpinlockFifo` | - | refinement mapping from `Spinlock` to `FifoLock` |
| `SpinlockProofs` | - | theorems |
| `RwLock` | `rwlock.mc` over `Spinlock` | composition |
| `RwLockProofs` | - | theorems |
| `SeqLock` | `seqlock.mc` over `Spinlock`, with the callers' data | composition |
| `SeqLockProofs` | - | theorems |
| `StrMap` | what the calls of the hash map promise | abstract specification |
| `StrHashMap` | `hashmap.mc`, with a client that holds a pointer | component |
| `StrHashMapProofs` | - | theorems |
| `FuzzOracles` | `mcfuzz.py` 1403-2398, `run_one` | pure operators |
| `ShrinkSource` | `shrink_source` | component |
| `FuzzCampaign` | `main` of `mcfuzz.py`, triage and auto-shrink, over the two above | composition |
| `FuzzCampaignProofs` | - | theorems, those about `ShrinkSource` included |
| `MCFuzzCampaign` | - | defects, gates and worlds |
| `RefInterp` | `mcref.py`, next to a machine with MC's semantics | component |
| `KeepFlags` | `_keep_flags` | component |
| `FixtureStrip` | the rest of `spec_sweep_lib.py` | pure operators |
| `BackendGap` | `backend_gap_lib.py`, `require_cause`, `failure_mismatch` | pure operators |
| `CorpusSweep` | the six sweeps, over the three above | composition |
| `CorpusSweepProofs` | - | theorems, those about `KeepFlags` and `BackendGap` included |
| `MCCorpusSweep` | - | fixtures and scenarios |

Operators named "Mutant of X" are deliberately wrong forms of X; they are
never part of a specification and exist to show that each property can fail.

### 2.1 OwnershipFlow

A function is its successor sets and its event list; each event has a kind, a
block, a root, a generation, whether its root's type identity is known
(`typed`) and whether its other identities are right (`shaped`). The values of
an `OwnershipStateSet` are sets of the four states; an `OwnershipFlow` is a
record with the same fields. Actions follow the control of the code:
`CheckEvents` is the loop over single events (the admission stops at a bad
one, the diagnostic pass reports and goes on), `NextRoot` the next unseen root
in list order (`Reset` overwrites the one buffer that serves every root, as
it is after the root before), `SolveBlock` one block of one round,
`EndRound` the loop condition with its bound, `ValidateRoot` the check of every
event of the root, `FinishRoots` the list-order closing check, and
`AnalysisOutOfMemory` a failed allocation, which the admission propagates and
the diagnostic pass takes for "valid". `Conclude` is the verdict: the
admission comes first, then the diagnostic pass, then `has_errors`.

The transfer function of a block is written without a loop: every event either
leaves the flow alone or replaces it, so the flow after a prefix of the list is
what the last replacing event left. This keeps the module free of recursion.
`StateAfter` says the same of one state; `MCOwnershipFlow` has TLC compare it,
on every event list of the instance, with running the events one by one
(`StateAfterRunsBlock`).

`ExecuteEvent`, `FollowEdge` and `Return` run an admitted function. They are
the environment, not compiler code: any successor may be taken, and the events
of a block happen in list order.

Left out: places with projections and places rooted at symbols, which every
loop modelled here skips; the generation's 32-bit limit.

### 2.2 ArtifactPublisher

Contents are abstract: an artifact is the number of the build that produced
it, a sidecar the build it describes. `Partial` is a file between its creation
and the end of its write. `Begin` starts one of three entry points (`emit`:
`writeArtifactWithMetadata`; `link`: `publishExistingFileWithMetadata` with
clang's output in a temporary; `plain`: `writeArtifact`). Then one action per
file system step: `Snapshot`, `WriteMetadata`, `WriteArtifact` (twice each:
created, then complete), `CommitMetadata`, `CommitArtifact`, and the failures
`FailBeforeCommit`, `ArtifactCommitFails`, `RestoreMetadata`, `RestoreFails`.
`Kill` ends a process between any two of them. `before` and `torn` are history
variables: what the files were when the publish began, and whether a kill, a
failed rollback or a publish without metadata has separated them.

### 2.3 Spinlock, FifoLock

One action per atomic access. `Width` is the number of values of a counter,
2^32 in the code. `Draw` is the `fetch_add`, which wraps; `UnlockStore` the
store of the checked `cur + 1`, which traps instead: the thread keeps the lock
and takes no further step. `FifoLock` knows an owner and a queue. The mapping
(`SpinlockFifo`) takes as queue the waiting threads in the order of their
tickets, starting behind the one that is served.

### 2.4 RwLock, SeqLock

Both contain the gate as an instance of `Spinlock`, all of its steps included,
so a wrap or a trap of the gate is visible in them. `SeqLock` also models the
caller: two protected words, each write adds one to both, a copy is torn when
they differ. A data store may pass the release store of the odd sequence before it,
and the second acquire load may pass the data loads before it, which is all that
acquire and release leave open here; a machine that keeps program order has the
behaviours in which neither happens. The history variable `reordered` holds the
readers during whose copy one of the two did happen.

### 2.5 StrHashMap, StrMap

The table is a function from slot indices to entries; `hash` gives every key
an arbitrary hash value, chosen once. `frame` holds the locals of the call in
progress. A call without a loop that changes the table is one step; a put that
grows is `GrowBegin`, one `Rehash` per slot of the old table, `GrowEnd` and
`PutGrown`; `strmap_del` empties the slot of its key and `ShiftNext` is one
round of its loop. Calls do not overlap: the map has no lock and is used by one
thread. The client keeps at most one pointer (the key it asked for and the slot
it was given) and writes through it (`WriteThrough`); it drops it when a put
grows the table, as the header demands, when it deletes that key, and, unless
`HoldAcrossDel`, when it deletes another one. `StrMap` states what each call
does to a finite map, which here is that of the entries in the table
(`Bindings`); that lookups see the same map is part of `Searchable`. `StartCap`
is 8 in the code.

Left out: the borrowed key bytes, which callers must not change while a key is
in the map, and an exhausted allocator, whose reaction is its own (the arena traps).

### 2.6 FuzzOracles, ShrinkSource, FuzzCampaign

What is wrong with the compiler on the programs of one seed is a set of defects
`<<tool, program, how>>`. An oracle is the sequence of its steps; each step is
Go, a finding, a silent return, or Stuck (a call without a timeout that does
not return), and the first that is not Go is the answer. `FindingSignature`
says which findings share a bucket. `FuzzCampaign` is `main`: `Start` with the
skips for missing tools, `Take` and `Finish` for the pool's threads (a call with a
deadline may be late while others run), `Consume` in seed order, `Recheck` one
suspect at a time when the pool is empty, `Summarise`, then the records
one by one: `SkipRecord`, or `BeginShrink`, the steps of `ShrinkSource`, and
`WriteRepro`. `ReplayFile` is the corpus command, `ShrinkSeed` and
`PrintMinimal` the shrink command. A program is the set of its lines that are
left, and which programs show a signature is any set that has the whole source
(all of them, where the finding is about a program the oracle makes from the
seed: `Blind`).

Left out: which programs the generator makes, the text of findings; `--async`,
which only exchanges the generator.

### 2.7 RefInterp

Generation, evaluation and execution in step. Every random choice is a
disjunct; `env` is the interpreter's dictionary and `mc` the compiled
program's variables, computed by the `Machine...` and `Run...` operators from
MC's semantics at scaled-down widths. `sound` says that every statement so far is
one `mcc check` accepts and that cannot trap (`...Typed`, `LayoutLegal`). The layout and switch constructs each add
their contribution to the digest, next to what the machine's memory or branch
would give.

### 2.8 KeepFlags, FixtureStrip, BackendGap, CorpusSweep

A fixture is a sequence of tokens (`FixtureStrip`) that the scanner cuts into
chunks; `KeepFlags` is the loop that drops the rejected ones and those left
dangling, one action per round. `BackendGap` renders a structured cause to the
tokens of a diagnostic and parses one back, at the first match of the regular
expression, as the code does. `CorpusSweep` has one state machine for all six
sweeps, which differ in their stages, their pool, their temporaries and their
report: `Start`, `StripBegin`, `StripRound`, `StripReturn`, `StripEnd` (the
temporary is created and written) or `StripEndFails`, `RunStage` (one call, with
the `finally` that unlinks), `StageWriteFails` (the second temporary of
`run_llc_object`), `SweepCrash` (an exception that leaves the loop over the
results), `Report`. A write that fails does so before the `try`, so that its
file may stay behind. The scenario says what the compiler
and the tools do, which lists a fixture is on and what the manifest records. `Parts` says which reason codes are part of a longer one,
since `failure_mismatch` looks for the recorded one as a substring.

## 3. What is checked

| Run | Instance | Shows |
|---|---|---|
| `ownership_flow` | all graphs over 3 blocks (at most 2 successors; the entry block leads to the last block, or to both others), 3 x 9 x 9 combinations of block bodies, one root; 24 interleaved event lists of two roots, each intact or with one damaged event, failing allocations | soundness, exactness of the solved flows, closing, linearity, and that both passes end |
| `ownership_double_move` | a loop of 6 blocks numbered against the flow | finding 1 |
| `publisher` | 1 process, 4 builds | all properties of the publisher |
| `publisher_pair` | 2 processes, 2 builds | finding 2 |
| `spinlock` | 3 threads, two-bit counters, 9 calls | exclusion, ticket order, refinement of `FifoLock`, service of every ticket up to the trap |
| `rwlock` | 3 threads, two-bit counters, 9 calls | exclusion, count, no overtaking; every call returns |
| `seqlock` | 2 writers, 1 reader, three-bit sequence, 4 writes | which copies can be torn, in every order of accesses that acquire and release allow; readers are served |
| `hashmap` | 4 keys, every choice of 3 hash values, 2 values, first table of 4 slots | every entry reachable and room to probe (`Searchable`), a held pointer stays valid, refinement of `StrMap` |
| `fuzz_campaign` | every gate, 3 seeds, 2 workers, the defects its oracle reacts to alone and in pairs, late calls, missing tools; corpora with any one or two of all defects | exit code, no report of mere load, a minimal repro per signature, what the fleet looks for is noticed by some gate, termination |
| `fuzz_blind_shrink` | the same | finding 3 |
| `reference` | widths 2 and 3, 2 declarations, 2 statements, loop bounds 1 and 2 | interpreter and machine agree; every program is accepted |
| `sweep` | 2 fixtures, 2 workers, all six sweeps | stripping, PASS, the manifest, temporaries, termination |

**Bounds.** Three blocks contain a branch, a merge, a loop, a self-loop and an
unreachable block, also in combination, and the bodies cover every kind of
event that changes a state; two roots are needed for the list to interleave
and for a second allocation. Six blocks are the fewest on which the round bound
is too small. Two processes are needed for a race of publishers; four builds
in sequence let one publish find what a failed, a killed and a successful one
left. Two-bit counters with nine calls wrap `next_ticket` and reach the trap;
the liveness properties of these runs allow for a trapped thread. `MaxCalls` and
`MaxBuilds` only bound the length of a behaviour. Four keys fill a table of
four slots to its limit, force it to grow, and form clusters that wrap around
the end of both tables, with entries that a deletion must move and entries it
must leave; keys are interchangeable, so the run uses symmetry.

Three seeds on two workers let a later seed end before an earlier one while a
third waits; two defects on one program let one hide the other, and the same
defect on two seeds puts two findings into one bucket. A gate is run only with
defects that change its oracle's answer, since the others are the same run
again; whether the fleet as a whole notices something must not depend on such a
choice, so the corpus replays, on programs that trap and on programs that do
not, meet every defect and every pair, those included that no oracle reacts to
(on trapping programs, one of a pair is in what the gates for those look at). That a line becomes
droppable only after a later one went needs two lines and a set of failing
programs that is not monotone; the proof covers any number of lines. At widths 2 and 3 every
operation overflows, saturates and shifts out; two declarations give every
pair of operand types, two statements a loop or branch followed by a use of
what it assigned. Two fixtures and two workers let an exception in one meet the
other at any stage; three declarations are the fewest in which dropping a user
drops the only definition a third one needs.

**Deadlock** is checked in every run but `fuzz_campaign`, `fuzz_blind_shrink`,
`reference` and `sweep`, which model programs that end (that they do is
`Ends`). `Finished` of `OwnershipFlow` and `ArtifactPublisher` marks the states
in which the system may stop; the locks need none, because a thread that waits
polls and a counter is exhausted before `MaxCalls` is.

**Fairness.** `OwnershipFlow`: weak fairness of `Next`, the compiler runs on.
Locks: weak fairness of the steps of a call in progress and of leaving a
critical section, per thread, which is a processor that is not taken away for
ever; no fairness for making calls. Nothing needs strong fairness: a waiting
thread's poll stays enabled until it succeeds, and a ticket that is served
stays served until its owner moves. `ReadersServed` rests on writers making
finitely many calls: a reader may retry for ever against an endless stream of
writes, as the code says ("wait-free in the common case").
Fuzzer: weak fairness of the main thread, of handing out seeds and of each
worker's return, which is an operating system that schedules its threads and
tools that end; `Ends` excludes the tools that hang in a call without a
timeout. Sweeps: weak fairness of `Next`; their calls have no timeouts, and
that the tools they call end is an assumption.

### Findings

1. `solveOwnershipRootEntryStates` stops after `blocks.len + 1` rounds even
   when its last round changed something. The comment calls the bound "a
   guard, not the termination argument", but the rounds a graph needs are not
   bounded by the block count when blocks are numbered against the flow. As a
   consequence a double move in such a loop is admitted, which the code's
   comment says "stays rejected". The run submits the function directly to the
   verifier. Whether `mir_build` can produce such a numbering was not
   established; nothing in the verifier excludes it.
2. With two processes on one output path an artifact can appear, and stay,
   next to the other build's sidecar; a strict consumer then rejects the pair.
3. Auto-shrink is meant for "source-preserving" oracles, and
   `_source_for_auto_shrink` excludes `reference` and `floatbits`. `robust`
   (its hostile case) and `metamorphic` (its variant) also judge programs made
   from the seed. A finding about one of those is there for every trial, so
   the shrinker drops every line and the repro that is written holds nothing of
   the program. The `shrink` command excludes no oracle.

### Observations without a run

Statements that are deliberately not claimed, with what the models show when
the condition named is dropped:

* The unlock after ticket 2^32 - 1 traps with the lock held, so "no starvation"
  (`spinlock.mc` 5-6) ends there; `ServedUnlessTrapped` allows for it.
* The sequence lock relies on orderings that a release store and an acquire
  load do not provide: without `q \notin reordered` in
  `AcceptedCopyConsistent`, TLC finds an accepted torn copy.
  Whether a machine shows it depends on the target.
* A pointer returned by `strmap_get` is said to be valid until a put grows the
  table; with `HoldAcrossDel = TRUE` the deletion of another key moves its
  entry, and `PointerValid` fails.
* `oracle_reference` and `oracle_floatbits` leave a program that does not check
  or build to "another oracle" (`mcfuzz.py` 2236, 2251, 2255), but only they
  ever see it. The differential oracles leave a program that both backends
  reject to the pipeline oracle (1441), which does not run on trapping programs.
  Results that are compared only with each other (both binaries of a float_bits
  program, facts and trap edges) may be wrong together. `PassedOver` names
  these cases.
* No oracle looks for a panic on the ill-typed program (it exits with 1, like a
  rejection), for undefined behaviour or non-determinism in the programs that
  oracles derive from the seed, for a fact that is missing or listed twice, or
  for a trap edge of `lower-mir` that is moved, or missing and not counted
  either; and the gates for trapping programs only check, build and run them.
  `Overlooked` names these, and `FleetCatches` includes that each of them, alone, really goes unnoticed.
* `RefGen.build` draws the types of its variables without repetition, so both
  operands of a wrap or sat operation are always the same variable and
  comparisons of two different domain variables are never generated.
* With `--async` the text "(reproduce: ... --async)" is not removed by
  `_finding_body`, so a finding whose signature is a short text never
  reproduces for auto-shrink. The one gate with `--async` does not shrink.
* Only `spec-emit-sweep.py` notices an allowlisted fixture that compiles again;
  the LLVM sweeps do not. A sweep or gate without its tools prints SKIP and
  exits with 0.
* All four sweeps that write a temporary program do so before the `try` whose
  `finally` unlinks it (`spec-emit-sweep.py` 84-86, `spec-llvm-sweep.py` 87-89,
  `spec-llvm-obj-sweep.py` 99-101, `llvm-opt-sweep.py` 107-109 and 138-140), with
  `delete=False`: a write that fails leaves the file. `NoTempLeft` excepts
  that file, and only that one.
* The object directories are not emptied. An `llc` that exits with 0 without
  writing passes if an earlier sweep left an object (`spec-llvm-obj-sweep.py`
  116 looks for a missing one, which then is not missing); `PassIsEarned`
  excepts that case.
* `failure_mismatch` asks whether the recorded reason is `in` the message (147):
  an entry that recorded `E_BACKEND` or `E_PARSE` would match every code that
  contains it, and the manifest's gate accepts any `E_*`. `DebtIsPinned`
  therefore says "contains", except for `E_BACKEND_UNSUPPORTED`, where the cause
  decides. The codes now on record are part of no other code.
* The verifier's closing check is about the last listed event of each root:
  a return that another path takes with the root still owned is outside
  `ClosedAtFinalReturn`.
* A `//` inside a string literal hides what follows from `_without_comments`,
  and a marker after the semicolon of its declaration goes to the next chunk;
  `StrippedIsWhole` is stated for fixtures without these (`Isolable`).

## 4. What is proved

All theorems hold for every value of the constants that satisfies the named
assumptions. Constants of bounded exploration (`MaxCalls`, `MaxBuilds`) are
arbitrary natural numbers there. Each safety theorem has the same shape: an
inductive invariant, one lemma per action that it is kept, and the property as
a consequence.

* **`OwnershipFlowProofs`** (`ConstantsAssumption`: at least one block; the
  functions are well typed). `TypeCorrect`. `Soundness` and `Coverage`:
  `Spec => [](cut = {} => NoInvalidOperation)` and the same for
  `ExecutionCovered`, where `cut` is the set of roots whose solver stopped at
  its bound with its last round still changing a flow. The condition is
  exactly finding 1: without it the theorems are false. The inductive
  invariant is `TypeOK`, plus what the analysis has established (while a round
  has not changed anything, the blocks before `index` are stable; an analysed
  root that was not cut has stable entry flows, a reachable entry block and
  only valid events), plus the coverage of the execution. `NoInvalidOperation`
  alone is not inductive, since a state says nothing of the next block; that
  the flows are stable and cover the present state is what carries over an
  edge. `OwnershipLinear` is the action property `OwnershipIsLinear`, under the
  same condition for the whole behaviour, `[](cut = {})`: an event that the
  validation permits moves a state as the property says. `ReturnsClosed`
  (`ClosedAtFinalReturn`) needs no condition: its invariant `ClosedInv` says
  that the execution's state of a root is the one that the last state-setting
  event of the present block so far gave it, and that the diagnostic pass began
  only after `typedOwnershipRootsClosed` had looked at each root's last event. So the closing check is
  sound even where the solver gave up or the second pass ran out of memory.
  `SolverIsExact`: `Spec => [](cur \notin cut => EntryStatesExact)`. What paths
  lead to is stated without recursion, as the least set of pairs of a block and
  a state that has the start of an execution and is closed under running a
  block and following an edge. That the solved pairs are closed is what a
  fixpoint is; that they are the least such set needs the invariant `LeastInv`,
  kept in every round: what is solved so far lies in every closed set, and a
  block counts as reachable exactly when it has a state.
* **`ArtifactPublisherProofs`** (`MaxBuilds` positive). `TypeCorrect` and
  `NeverExposesPartial` for any set of publishers: what is about to be renamed
  is complete, and so is the snapshot a rollback would write. `OneAtATime`
  (`PairAgrees`), `FailureUndone` (`FailureLeavesNoTrace`) and
  `AppearsDescribed` for one publisher at a time and any number of builds: the
  invariant relates snapshot, temporaries and history to the two files at each
  label. Finding 2 shows that one at a time is needed.
* **`SpinlockProofs`** (a finite set of threads, no more of them than a counter
  has values). `TypeCorrect`, `TicketsInOrder`, `Exclusion`, and `Refinement`:
  `Spec => ImplementsFifo`. The invariant `TicketInv` says that the tickets
  drawn and not yet passed on are pairwise different and lie between
  `now_serving` and `next_ticket` modulo `Width`; a counting lemma shows that
  they fit, so a ticket drawn after the wrap cannot equal one still held.
* **`RwLockProofs`** (the same assumption). The exclusion of the gate is not
  proved again: every step of the reader/writer lock is a step of the ticket
  lock or leaves it alone, so `SpinlockProofs`, instantiated for the gate,
  gives it (`GateExclusive`). `WritersExclude`, `CountExact` and
  `WriterNotOvertaken` then follow from an invariant that ties each thread's
  place to the gate (`GateMatches`), the count to the registered readers, and
  says that a writer that has seen zero still has nobody inside (`Drained`).
  The count cannot wrap because there are no more threads than values.
* **`SeqLockProofs`** (the same, and `Width` even, as 2^32 is: the sequence
  then traps at an odd value). The gate as above. `SequenceTells` rests on the
  parity of the sequence at each place of a writer and on the words already
  written at that place. `AcceptedIsConsistent` makes no assumption about the
  order of accesses beyond what acquire and release give: it says which
  reorderings can tear a copy, and that nothing else can. Its readers'
  invariant `CopyInv` is about the readers outside `reordered`: as long as the
  sequence is still the one a copy started with, no word was stored that it
  does not announce and every word copied so far is half of it; and a check
  that equals the start vouches for the words of the copy.
* **`StrHashMapProofs`** (`StrHashMapAssumption`: hash values are natural
  numbers, the first table has at least two slots; any set of keys, finite or
  not). `AlwaysSearchable` (`Searchable`) without any further condition,
  `PointerStaysValid` (`PointerValid`) and `MapRefinement` (`ImplementsMap`)
  for a client that gives its pointer up when it deletes (`~HoldAcrossDel`;
  without that both are false, see the observations). The invariant of the
  table between calls is that keys are distinct and that no slot between an
  entry's home and the entry is empty (`Reach`), which is stronger than being
  found; `len` counts the entries and stays within three quarters of `cap`.
  During a grow, the new table has the same two properties and holds exactly
  the entries of the slots already visited. During the backward shift, paths
  are gap-free but for the hole (`HoleReach`), every entry whose path passes
  the hole is still ahead of the cursor (`Ahead`), and an empty slot lies ahead
  before the loop is round (`EndAhead`). So an empty slot met by the cursor
  lies on no path through the hole, and there is no such path left: this is
  why the loop may stop at the first empty slot. `MapRefinement` adds that
  a step writes, removes or moves one entry (`Written`, `Removed`, `Moved`) and
  what this does to the set of entries.
* **`FuzzCampaignProofs`, `ShrinkSource`** (`NLines` a natural number).
  `ShrinkMinimal`: whatever set of programs shows the signature, what
  `shrink_source` returns shows it, and no longer does when any one line is
  dropped. The invariant: the lines that are left show the signature, and
  while a walk has dropped nothing every line before the cursor is needed.
  `changed` is what makes it inductive: one drop invalidates what the walk
  knew of earlier lines.
* **`FuzzCampaignProofs`** (`FuzzCampaignAssumption`: at least one seed and one
  worker; an invocation is one the argument parser lets through, so `corpus`
  has no oracle of its own and only `run` shrinks). Nothing is assumed about
  what is wrong with the compiler, or about which calls have a deadline.
  `ReportsAreReal` and `VerdictIsExact`: the invariant says that a worker's
  answer is the quiet machine's or a timeout (`AnswerInv`), that a report is a
  quiet machine's finding (`ReportInv`), and that no seed whose answer was
  taken has its finding lost: it is reported or among the suspects
  (`CoverInv`). This needs, oracle by oracle, that a late call makes an oracle
  say what it says on a quiet machine, or HANGS. `CampaignShrinks`:
  `Spec => ShrinkSpec`, the campaign implements the shrinker, from which
  `ReprosMinimal` is `ShrinkMinimal`. `BucketsAreShrunk` says that triage
  misses no bucket; its invariant relates the signatures seen to the records
  already behind it.
* **`CorpusSweepProofs`** (`CorpusSweepAssumption`: at least one fixture and
  one worker; a scenario lets each tool reject only where its sweep runs it; a
  refusal of the C backend spells a cause whose texts have no backtick and
  whose phase has no parenthesis, which is how `lower_c_emitter.zig` fills it
  in, `Refusal`; and no entry of the manifest records the reason that stands
  for "some other diagnostic", or a part of it; `Parts` is any relation). `KeptGreatest`: for any fixture, the chunks
  `_keep_flags` returns contain no rejected one, name nothing that only dropped
  chunks define, and include every set of chunks with these two properties.
  The invariant is that every such set is kept in every round; a return adds
  that nothing dangles. `SweepKeepsGreatest` says the same of the strips of a
  sweep. `TempsGone` and `PassEarned` use one invariant: a temporary belongs to a
  fixture in its stages or to one whose write failed, nothing runs after the verdict, and a fixture
  without a failure got past every stage before its next one; that the stages
  of each of the six sweeps meet every place where its tools may object, and
  that an object is written before it is looked at, is a lemma about their
  tables. `RefusalReadsBack`: `parse_cause` undoes `render_cause`, for texts
  of any length, by computing where each token of the rendering stands and
  that none of the regular expression's searches stops earlier. `DebtPinned`
  combines it with what a passing report says of each fixture and with the
  manifest's cheap gate.

Only model-checked:

* liveness (`Decided`, `ServedUnlessTrapped`, `EveryCallReturns`,
  `ReadersServed`, both `Ends`), which the prover does not handle;
* `StrippedIsWhole`: the scanner is a fold over the tokens;
* `InterpreterIsExact`, `RenderSound`: recursion over the syntax tree, bitwise
  operators;
* `FleetCatches`: a statement about one or two defects of a fixed list (162
  ways in which a call or its result can be wrong), a matter of enumeration, not of proof.

## 5. Plan

1. **Ownership, the rest of it**: the cleanup plans and edge tables
   (`mir_cleanup_cfg.zig` 535-846), `backend_cleanup.zig` and
   `mir_ownership_authority.zig`.
2. **Generation-checked handles**: one abstract handle table, refined by
   `pool.mc`, `arena.mc` and `grant.mc`; `arc.mc` and `guarded.mc`.
3. **Loader and module graph**: import cycles, and each module loaded once.

## 6. Not modelled, and why

Lexing, parsing, type checking, compile-time evaluation and the two backends
are sequential functions over trees and text; small instances say little about
them. MIR construction (20,000 lines) is represented by its result: arbitrary
graphs and event lists. `barrier.mc` and `sync.mc` wrap platform primitives
that are not in the repository. The fuzzer's program generator is 1,400 lines
of random choices put together as text: its programs are data of the oracles.
`dev-gates.py` and the consistency tests around it map changed paths to gates
by tables, and the documentation scanners print what a regular expression
finds; neither keeps state or has an order to get wrong. Bodies of messages, wording and file formats are abstracted
throughout.
