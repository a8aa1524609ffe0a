---------------------------- MODULE CorpusSweep ----------------------------
(***************************************************************************)
(* The corpus sweeps of tools/toolchain: spec-emit-sweep.py,               *)
(* spec-llvm-sweep.py, spec-llvm-obj-sweep.py, llvm-opt-sweep.py,          *)
(* llvm-c-emit-sweep.py and llvm-c-obj-sweep.py.  Each strips the rejected *)
(* declarations from a fixture (the spec corpus only), drives it through a *)
(* chain of compiler stages, and reports; spec-emit-sweep.py compares the  *)
(* failures with docs/backend-expected-failures.json.                      *)
(*                                                                         *)
(* Fixtures are numbered in the sorted order of their names.  Three sweeps *)
(* run them on a thread pool, three one after the other.  mcc, clang, opt, *)
(* llc and llvm-as are external: `back` says where they reject a fixture   *)
(* whose text is in order.                                                 *)
(***************************************************************************)
EXTENDS FixtureStrip, KeepFlags, BackendGap, FiniteSets, TLC

CONSTANTS NFixtures,     \* size of the corpus
          Jobs,          \* JOBS
          Scenarios      \* what a sweep may find: records, see Scenario below

Fixture == 1 .. NFixtures

Sweeps    == {"emit", "llvm", "llvm_obj", "opt", "c_emit", "c_obj"}

\* llvm-opt-sweep.py goes over both corpora; here its last fixture is a c_emit one.
SpecFixture(sweep, f) == sweep \in {"emit", "llvm", "llvm_obj"} \/ (sweep = "opt" /\ f < NFixtures)

\* Where the compiler and the tools that a sweep runs may reject a fixture, or
\* emit an assumption that the sweep forbids (external).  "OBJECT": llc reports
\* success with an empty object, "UNWRITTEN": without having written one.
RejectsAt(sweep, spec) ==
  CASE sweep = "emit"     -> {"EMIT", "UNSUPPORTED", "CLANG"}
    [] sweep = "llvm"     -> {"EMIT", "token", "reassoc", "LLVM-AS"}
    [] sweep = "llvm_obj" -> {"EMIT", "token", "reassoc", "LLC", "OBJECT", "UNWRITTEN"}
    [] sweep = "opt"      -> {"EMIT", "token", "reassoc", "OPT-VERIFY", "OPT-O2", "LLC-O2"}
                             \cup (IF spec THEN {} ELSE {"CHECK"})
    [] sweep = "c_emit"   -> {"CHECK", "EMIT", "token", "reassoc", "LLVM-AS"}
    [] sweep = "c_obj"    -> {"CHECK", "LLC", "OBJECT", "UNWRITTEN"}

\* The reason of a rejection that is not the one in the scenario; no entry of
\* the manifest records it, or a part of it.
OtherReason == "E_OTHER"

ASSUME CorpusSweepAssumption ==
  /\ NFixtures \in Nat \ {0} /\ Jobs \in Nat \ {0}
  /\ \A w \in Scenarios :
       /\ w.sweep \in Sweeps /\ w.objects \in [Fixture -> {"none", "old", "empty"}]
       /\ \A f \in Fixture : w.back[f].fails \in {"ok"} \cup RejectsAt(w.sweep, SpecFixture(w.sweep, f))
       /\ \A f \in Fixture : w.back[f].cause = NoCause
                             \/ (w.back[f].reason = STRUCTURED_REASON /\ Refusal(w.back[f].cause))
       /\ \A f \in Fixture : ~Within(w.entry[f].reason, <<OtherReason>>)

VARIABLES
  world,      \* the scenario: sweep, tools, fixtures, lists; it never changes
  parsed,     \* fixture -> its chunks and their names, functions of the text
  st,         \* fixture -> "queued", "strip", "keep", "stage" or "done"
  at,         \* fixture -> number of its next stage
  program,    \* fixture -> what valid_program keeps: index -> chunk
  temps,      \* fixtures of which a temporary file exists: the program, or the
              \* optimized module that run_llc_object gives to llc
  objects,    \* fixture -> "none", "old", "empty" or "new" in the output directory
  result,     \* fixture -> its failure record, NoFailure or what its worker raised
  verdict     \* "none", then "SKIP", "PASS", "FAIL" or "crash"

sweepVars == <<world, parsed, st, at, program, temps, objects, result, verdict>>
vars == <<sweepVars, keepVars>>

NoFailure == [kind |-> "", message |-> << >>]
NoTool    == [kind |-> "FileNotFoundError", message |-> << >>]
NoWrite   == [kind |-> "OSError", message |-> << >>]
Raised    == {NoTool, NoWrite}
NoEntry   == [stage |-> "", reason |-> "", cause |-> NoCause]

-----------------------------------------------------------------------------
(* The sweeps: the stages a fixture goes through, and the tool of each.    *)

Parallel  == {"emit", "opt", "c_emit"}
Workers   == IF world.sweep \in Parallel THEN Jobs ELSE 1

IsSpec(f) == SpecFixture(world.sweep, f)

\* Mutant of EmitStages: placeholders in the emitted C are not looked for.
EmitStagesNoPlaceholder == <<"EMIT", "CLANG">>

EmitStages       == <<"EMIT", "UNSUPPORTED", "CLANG">>
LlvmStages       == <<"EMIT", "ASSUMPTION", "LLVM-AS">>
LlvmObjStages    == <<"EMIT", "ASSUMPTION", "LLC", "OBJECT">>
OptStages(spec)  == IF spec THEN <<"EMIT", "ASSUMPTION", "OPT-VERIFY", "OPT-O2", "LLC-O2">>
                    ELSE <<"CHECK", "EMIT", "ASSUMPTION", "OPT-VERIFY", "OPT-O2", "LLC-O2">>
CEmitStages      == <<"CHECK", "EMIT", "ASSUMPTION", "LLVM-AS">>
CObjStages       == <<"CHECK", "LLC", "OBJECT">>

Stages(f) ==
  CASE world.sweep = "emit"     -> EmitStages
    [] world.sweep = "llvm"     -> LlvmStages
    [] world.sweep = "llvm_obj" -> LlvmObjStages
    [] world.sweep = "opt"      -> OptStages(IsSpec(f))
    [] world.sweep = "c_emit"   -> CEmitStages
    [] world.sweep = "c_obj"    -> CObjStages

Tool(stage) ==
  CASE stage \in {"CHECK", "EMIT"}         -> "mcc"
    [] stage = "CLANG"                     -> "clang"
    [] stage = "LLVM-AS"                   -> "llvm-as"
    [] stage \in {"LLC", "LLC-O2"}         -> IF world.sweep = "c_obj" THEN "mcc" ELSE "llc"
    [] stage \in {"OPT-VERIFY", "OPT-O2"}  -> "opt"
    [] OTHER                               -> ""

\* Tools whose absence makes the sweep print SKIP and return 0.
Probed == CASE world.sweep \in {"llvm_obj", "c_obj"} -> {"llc"}
            [] world.sweep = "opt"                   -> {"opt", "llc"}
            [] OTHER                                 -> {}

\* forbidden_assumption: a forbidden token, or a `reassoc` outside the sum_fast idiom.
ForbiddenAssumption(f) ==
  \/ world.back[f].fails = "token"
  \/ world.back[f].fails = "reassoc" /\ ~world.back[f].sum_fast

\* What the compiler makes of the kept declarations (external): it rejects a
\* declaration that is in error, a name nobody declares, and a prototype.
Accepted(decls, prog) ==
  \A i \in DOMAIN prog : /\ ~decls[i].errs /\ decls[i].uses \subseteq {decls[j].name : j \in DOMAIN prog}
                         /\ "proto" \notin Kinds(prog[i])

StageFails(f, stage) ==
  CASE stage = "ASSUMPTION"       -> ForbiddenAssumption(f)
    [] stage \in {"CHECK", "EMIT"} ->
         \/ world.back[f].fails = stage
         \/ IsSpec(f) /\ ~Accepted(world.text[f], program[f])
    [] stage = "OBJECT"           -> objects[f] \in {"none", "empty"}
    [] OTHER                      -> world.back[f].fails = stage

-----------------------------------------------------------------------------

Init ==
  /\ world \in Scenarios
  /\ parsed = [f \in Fixture |-> LET chunks == split_top_level(Source(world.text[f]))
                                 IN  [chunks |-> chunks, table |-> ChunkTable(chunks)]]
  /\ st = [f \in Fixture |-> "queued"]
  /\ at = [f \in Fixture |-> 1]
  /\ program = [f \in Fixture |-> << >>]
  /\ temps = {}
  /\ objects = world.objects
  /\ result = [f \in Fixture |-> NoFailure]
  /\ verdict = "none"
  /\ KeepInit

Running == {f \in Fixture : st[f] \in {"strip", "keep", "stage"}}

\* The results are consumed in order: a raised one ends the loop.  A pool goes
\* on until the main thread sees it and cancels what is still queued.
Crashing == \E f \in Fixture : /\ result[f] \in Raised /\ st[f] = "done"
                               /\ \A g \in 1 .. f - 1 : st[g] = "done"

SkipSweep ==
  /\ verdict = "none"
  /\ world.missing \in Probed
  /\ verdict' = "SKIP"
  /\ UNCHANGED <<world, parsed, st, at, program, temps, objects, result, keepVars>>

Start(f) ==
  /\ verdict = "none" /\ world.missing \notin Probed
  /\ Crashing => world.sweep \in Parallel
  /\ st[f] = "queued" /\ \A g \in 1 .. f - 1 : st[g] # "queued"
  /\ Cardinality(Running) < Workers
  /\ st' = [st EXCEPT ![f] = IF IsSpec(f) THEN "strip" ELSE "stage"]
  /\ UNCHANGED <<world, parsed, at, program, temps, objects, result, verdict, keepVars>>

\* valid_program has no shared state: the workers' calls are taken one at a time.
StripBegin(f) ==
  /\ st[f] = "strip"
  /\ KeepBegin(parsed[f].table)
  /\ st' = [st EXCEPT ![f] = "keep"]
  /\ UNCHANGED <<world, parsed, at, program, temps, objects, result, verdict>>

StripRound == KeepRound /\ UNCHANGED sweepVars
StripReturn == KeepReturn /\ UNCHANGED sweepVars

\* The program is joined and written to a temporary file.
StripEnd(f) ==
  /\ st[f] = "keep"
  /\ KeepJoined
  /\ program' = [program EXCEPT ![f] = valid_program(parsed[f].chunks, keep)]
  /\ temps' = temps \cup {f}
  /\ st' = [st EXCEPT ![f] = "stage"]
  /\ UNCHANGED <<world, parsed, at, objects, result, verdict>>

\* The file cannot be created, or not written: NamedTemporaryFile and write come
\* before the try, so the exception leaves the worker and a file that was
\* created stays behind (delete=False).
WriteFails(f) ==
  /\ temps' \in {temps, temps \cup {f}}
  /\ result' = [result EXCEPT ![f] = NoWrite]
  /\ st' = [st EXCEPT ![f] = "done"]
  /\ UNCHANGED <<world, parsed, at, program, objects, verdict>>

StripEndFails(f) == st[f] = "keep" /\ KeepJoined /\ WriteFails(f)

\* The diagnostic of the compiler or tool that rejects the fixture (external):
\* a refusal of the C backend spells its cause, another one only its code.
Diagnostic(f) == IF world.back[f].cause = NoCause THEN <<world.back[f].reason>>
                 ELSE render_cause(world.back[f].cause)

\* The first line with "error:" of the stage that failed.
Failure(f, stage) ==
  [kind |-> stage, message |-> IF stage = world.back[f].fails THEN Diagnostic(f) ELSE <<OtherReason>>]

\* The finally clauses: two sweeps unlink the program after emit, two at the end.
\* (The two files of run_llc_object are written and unlinked within LLC-O2.)
Unlinked(f, last) == IF last \/ world.sweep \in {"emit", "opt"} THEN temps \ {f} ELSE temps

\* What is at the output path after an llc that reports success.
ObjectAfter(f) == CASE world.back[f].fails = "OBJECT" -> "empty"
                    [] world.back[f].fails = "UNWRITTEN" -> objects[f]
                    [] OTHER -> "new"

\* Mutant of RunStage: a failed emit returns before the unlink.
RunStageNoFinally(f) ==
  /\ st[f] = "stage"
  /\ LET stage == Stages(f)[at[f]]
         raises == Tool(stage) = world.missing
         fails == ~raises /\ StageFails(f, stage)
         last == raises \/ fails \/ at[f] = Len(Stages(f))
     IN  /\ at' = [at EXCEPT ![f] = @ + 1]
         /\ st' = [st EXCEPT ![f] = IF last THEN "done" ELSE "stage"]
         /\ result' = [result EXCEPT ![f] = CASE raises -> NoTool [] fails -> Failure(f, stage) [] OTHER -> @]
         /\ temps' = IF fails THEN temps ELSE Unlinked(f, last)
         /\ objects' = [objects EXCEPT ![f] = IF stage = "LLC" /\ ~raises /\ ~fails THEN ObjectAfter(f) ELSE @]
  /\ UNCHANGED <<world, parsed, program, verdict, keepVars>>

\* One stage: the fixture is done when it fails, when the tool cannot be run
\* (the exception leaves the worker), or after the last one.  A successful llc
\* writes the object, or writes nothing; then, as after a failed one, what an
\* earlier sweep put there stays.
RunStage(f) ==
  /\ st[f] = "stage"
  /\ LET stage == Stages(f)[at[f]]
         raises == Tool(stage) = world.missing
         fails == ~raises /\ StageFails(f, stage)
         last == raises \/ fails \/ at[f] = Len(Stages(f))
     IN  /\ at' = [at EXCEPT ![f] = @ + 1]
         /\ st' = [st EXCEPT ![f] = IF last THEN "done" ELSE "stage"]
         /\ result' = [result EXCEPT ![f] = CASE raises -> NoTool [] fails -> Failure(f, stage) [] OTHER -> @]
         /\ temps' = Unlinked(f, last)
         /\ objects' = [objects EXCEPT ![f] = IF stage = "LLC" /\ ~raises /\ ~fails THEN ObjectAfter(f) ELSE @]
  /\ UNCHANGED <<world, parsed, program, verdict, keepVars>>

\* run_llc_object writes its module before its try.
StageWriteFails(f) ==
  /\ st[f] = "stage" /\ Stages(f)[at[f]] = "LLC-O2"
  /\ WriteFails(f)
  /\ UNCHANGED keepVars

SweepCrash ==
  /\ verdict = "none" /\ Crashing /\ Running = {}
  /\ verdict' = "crash"
  /\ UNCHANGED <<world, parsed, st, at, program, temps, objects, result, keepVars>>

-----------------------------------------------------------------------------
(* The report.                                                             *)

Failed   == {f \in Fixture : result[f] # NoFailure}
HasEntry(f) == world.entry[f] # NoEntry

\* OUT_OF_SCOPE: fixtures that the strip cannot isolate.
OutOfScope == world.allow

EmitReport ==
  LET failures   == Failed \ OutOfScope
      unexpected == {f \in failures : ~HasEntry(f)}
      drifted    == {f \in failures : /\ HasEntry(f)
                                      /\ failure_mismatch(world.entry[f], result[f].kind, result[f].message)}
      fixed      == {f \in Fixture \ Failed : HasEntry(f)}
      unlisted   == {f \in Fixture \ Failed : ~HasEntry(f) /\ f \in OutOfScope}
  IN  unexpected \cup drifted \cup fixed \cup unlisted

\* The LLVM sweeps over the spec corpus know the allowlist only.
SpecReport == Failed \ OutOfScope

\* The sweeps over the c_emit corpus know no list.
Complaints == CASE world.sweep = "emit" -> EmitReport
                [] world.sweep \in {"llvm", "llvm_obj", "opt"} -> SpecReport
                [] OTHER -> Failed

Report ==
  /\ verdict = "none" /\ \A f \in Fixture : st[f] = "done" /\ result[f] \notin Raised
  /\ verdict' = IF Complaints = {} THEN "PASS" ELSE "FAIL"
  /\ UNCHANGED <<world, parsed, st, at, program, temps, objects, result, keepVars>>

Next ==
  \/ SkipSweep \/ SweepCrash \/ Report
  \/ StripRound \/ StripReturn
  \/ \E f \in Fixture : Start(f) \/ StripBegin(f) \/ StripEnd(f) \/ StripEndFails(f)
                          \/ RunStage(f) \/ StageWriteFails(f)

Spec == Init /\ [][Next]_vars
FairSpec == Spec /\ WF_vars(Next)

-----------------------------------------------------------------------------
(* backend-expected-failures-test.py, the cheap gate on the manifest.      *)

ManifestValid == \A f \in Fixture : HasEntry(f) => world.entry[f].stage \in {"EMIT", "CLANG"}
                                                    /\ require_cause(world.entry[f])

-----------------------------------------------------------------------------

\* The program given to the compiler is a whole program: without the rejected
\* declarations, with everything it uses and no bare prototype; and every
\* declaration that does not depend on a rejected one is still in it.  (For
\* the fixtures that the chunk-level strip can isolate.)
StrippedIsWhole ==
  \A f \in Fixture : (IsSpec(f) /\ st[f] = "stage" /\ Isolable(world.text[f])) =>
    LET decls == world.text[f]
        Standing(K) == \A i \in K : ~decls[i].errs /\ decls[i].uses \subseteq {decls[j].name : j \in K}
    IN  /\ Accepted(decls, program[f])
        /\ \A K \in SUBSET (DOMAIN decls) : Standing(K) => K \subseteq DOMAIN program[f]

\* PASS is earned: each fixture went through every stage of the sweep without
\* a failure, or it is on one of the lists; no fixture is lost in the pool, and
\* an object sweep has a new object of it although the output directory survives
\* from one sweep to the next.  (Only an llc that reports success and writes
\* nothing can make an object of an earlier sweep pass for a new one.)
PassIsEarned ==
  verdict = "PASS" =>
    \A f \in Fixture :
      LET back == world.back[f] IN
      \/ /\ back.fails = "ok" \/ (back.fails = "reassoc" /\ back.sum_fast)
         /\ world.sweep \in {"llvm_obj", "c_obj"} => objects[f] = "new"
      \/ back.fails = "UNWRITTEN" /\ world.objects[f] = "old"
      \/ world.sweep = "emit" /\ HasEntry(f)
      \/ world.sweep \in {"emit", "llvm", "llvm_obj", "opt"} /\ f \in world.allow

\* "Each entry is still asserted: it must fail, and fail for the recorded
\* reason" (docs/backend-expected-failures.json): when both gates are green, the
\* compiler refuses the fixture at the recorded stage with a diagnostic that
\* contains the recorded reason; where the reason is the C backend's refusal, it
\* is that refusal and for exactly the recorded cause, although what is compared
\* is a parsed text and only the fields of the entry.  And an allowlisted
\* fixture of the C sweep still needs its place there.
DebtIsPinned ==
  (world.sweep = "emit" /\ verdict = "PASS" /\ ManifestValid) =>
    \A f \in Fixture :
      /\ (HasEntry(f) /\ f \notin world.allow) =>
           /\ result[f].kind = world.entry[f].stage
           /\ Within(world.entry[f].reason, Diagnostic(f))
           /\ world.entry[f].reason = STRUCTURED_REASON =>
                /\ world.back[f].reason = STRUCTURED_REASON
                /\ world.back[f].cause = world.entry[f].cause
      /\ f \in world.allow => result[f] # NoFailure

\* However the sweep ends, by a report or by an exception in a worker, its
\* temporary files are gone, but for the one whose write was the exception.
NoTempLeft == verdict # "none" => \A f \in temps : result[f] = NoWrite

\* The sweep ends, whatever the fixtures: _keep_flags' loop leaves off, and no
\* worker waits for another.
Ends == <>(verdict # "none")

=============================================================================
