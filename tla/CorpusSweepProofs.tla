------------------------- MODULE CorpusSweepProofs -------------------------
(***************************************************************************)
(* _keep_flags returns the greatest set of chunks that can stand alone,    *)
(* for every fixture: any number of chunks, any names.  And a sweep over   *)
(* any number of fixtures, with any number of workers, leaves no temporary *)
(* file, passes only what went through every stage, and pins the debt that *)
(* the manifest records: a refusal reads back as it was rendered.          *)
(***************************************************************************)
EXTENDS CorpusSweep, SequenceTheorems, TLAPS

----------------------------------------------------------------------------
(* _keep_flags.                                                            *)

\* While the loop runs, no chunk of a set that can stand alone has been dropped.
KeepInv ==
  /\ keepPc \in {"idle", "loop", "returned"}
  /\ keepPc # "idle" => /\ keep \subseteq Unrejected
                        /\ \A K \in SUBSET Unrejected : Closed(K) => K \subseteq keep
  /\ keepPc = "returned" => Dangling(keep) = {}

\* A set that can stand alone and is still kept loses nothing in a round: what
\* is missing beside `keep` is missing beside the smaller set, too.
LEMMA RoundKeepsClosed ==
  ASSUME NEW K \in SUBSET Unrejected, Closed(K), K \subseteq keep
  PROVE  K \subseteq keep \ Dangling(keep)
<1>1. \A n : n \in Missing(keep) => n \in Missing(K)
  BY DEF Missing, Available
<1>2. ASSUME NEW i \in K, i \in Dangling(keep) PROVE i \in Dangling(K)
  <2>1. PICK n : n \in chunk[i].references /\ n \in Missing(keep)
    BY <1>2 DEF Dangling
  <2>2. n \in Missing(K)
    BY <1>1, <2>1
  <2> QED BY <2>1, <2>2 DEF Dangling
<1> QED BY <1>2 DEF Closed

LEMMA InitKeepInv == KeepInit => KeepInv
BY DEF KeepInit, KeepInv

LEMMA BeginKeepInv ==
  ASSUME KeepInv, NEW table, KeepBegin(table)
  PROVE  KeepInv'
<1>1. keep' = Unrejected'
  BY DEF KeepBegin, Unrejected
<1>2. keepPc' = "loop"
  BY DEF KeepBegin
<1> QED BY <1>1, <1>2 DEF KeepInv

LEMMA RoundKeepInv == KeepInv /\ KeepRound => KeepInv'
<1> SUFFICES ASSUME KeepInv, KeepRound PROVE KeepInv'
  OBVIOUS
<1>1. /\ keepPc = "loop" /\ keepPc' = "loop" /\ chunk' = chunk
      /\ keep' = keep \ Dangling(keep)
  BY DEF KeepRound
<1>2. keep \subseteq Unrejected /\ \A K \in SUBSET Unrejected : Closed(K) => K \subseteq keep
  BY <1>1 DEF KeepInv
<1>3. Unrejected' = Unrejected
  BY <1>1 DEF Unrejected
<1>4. \A K : Closed(K)' <=> Closed(K)
  BY <1>1, <1>3 DEF Closed, Dangling, Missing, Available
<1>5. \A K \in SUBSET Unrejected : Closed(K) => K \subseteq keep'
  BY <1>1, <1>2, RoundKeepsClosed
<1>6. keep' \subseteq Unrejected'
  BY <1>1, <1>2, <1>3
<1>7. \A K \in SUBSET Unrejected' : Closed(K)' => K \subseteq keep'
  BY <1>3, <1>4, <1>5
<1> QED BY <1>1, <1>6, <1>7 DEF KeepInv

LEMMA ReturnKeepInv == KeepInv /\ KeepReturn => KeepInv'
<1> SUFFICES ASSUME KeepInv, KeepReturn PROVE KeepInv'
  OBVIOUS
<1>1. /\ keepPc = "loop" /\ keepPc' = "returned" /\ chunk' = chunk /\ keep' = keep
      /\ Dangling(keep) = {}
  BY DEF KeepReturn
<1>2. Unrejected' = Unrejected /\ Dangling(keep)' = Dangling(keep)
  BY <1>1 DEF Unrejected, Dangling, Missing, Available
<1>3. \A K : Closed(K)' <=> Closed(K)
  BY <1>1, <1>2 DEF Closed, Dangling, Missing, Available
<1>4. /\ keep' \subseteq Unrejected'
      /\ \A K \in SUBSET Unrejected' : Closed(K)' => K \subseteq keep'
  BY <1>1, <1>2, <1>3 DEF KeepInv
<1> QED BY <1>1, <1>2, <1>4 DEF KeepInv

LEMMA StutterKeepInv == KeepInv /\ UNCHANGED keepVars => KeepInv'
<1> SUFFICES ASSUME KeepInv, UNCHANGED keepVars PROVE KeepInv'
  OBVIOUS
<1>1. chunk' = chunk /\ keep' = keep /\ keepPc' = keepPc
  BY DEF keepVars
<1>2. Unrejected' = Unrejected /\ Dangling(keep)' = Dangling(keep)
  BY <1>1 DEF Unrejected, Dangling, Missing, Available
<1>3. \A K : Closed(K)' <=> Closed(K)
  BY <1>1, <1>2 DEF Closed, Dangling, Missing, Available
<1> QED BY <1>1, <1>2, <1>3 DEF KeepInv

LEMMA JoinedKeepInv == KeepInv /\ KeepJoined => KeepInv'
BY DEF KeepInv, KeepJoined

LEMMA KeepInvHolds == KeepSpec => []KeepInv
<1>1. KeepInv /\ [KeepNext]_keepVars => KeepInv'
  BY BeginKeepInv, RoundKeepInv, ReturnKeepInv, JoinedKeepInv, StutterKeepInv DEF KeepNext
<1> QED BY <1>1, InitKeepInv, PTL DEF KeepSpec

\* Whatever the fixture, the chunks that _keep_flags returns can stand alone, and
\* every set of chunks that can stand alone is among them.
THEOREM KeptGreatest == KeepSpec => []KeptIsGreatest
<1>1. KeepInv => KeptIsGreatest
  BY DEF KeepInv, KeptIsGreatest, Closed
<1> QED BY <1>1, KeepInvHolds, PTL

\* The strips of a sweep, which the workers do one at a time, are those of
\* _keep_flags: what a fixture is reduced to is the greatest such set.
THEOREM SweepKeepsGreatest == Spec => []KeptIsGreatest
<1>1. Init => KeepInv
  BY InitKeepInv DEF Init
<1>2. KeepInv /\ [Next]_vars => KeepInv'
  <2> SUFFICES ASSUME KeepInv, [Next]_vars PROVE KeepInv'
    OBVIOUS
  <2>1. CASE UNCHANGED keepVars
    BY <2>1, StutterKeepInv
  <2>2. CASE KeepRound \/ KeepReturn \/ KeepJoined
    BY <2>2, RoundKeepInv, ReturnKeepInv, JoinedKeepInv
  <2>3. CASE \E f \in Fixture : StripBegin(f)
    BY <2>3, BeginKeepInv DEF StripBegin
  <2> QED
    BY <2>1, <2>2, <2>3 DEF Next, vars, SkipSweep, SweepCrash, Report, StripRound, StripReturn,
                            Start, StripEnd, StripEndFails, RunStage, StageWriteFails
<1>3. KeepInv => KeptIsGreatest
  BY DEF KeepInv, KeptIsGreatest, Closed
<1> QED
  BY <1>1, <1>2, <1>3, PTL DEF Spec

----------------------------------------------------------------------------
(* The stages of a sweep.                                                  *)

StageNames == {"CHECK", "EMIT", "UNSUPPORTED", "CLANG", "ASSUMPTION", "LLVM-AS", "LLC", "OBJECT",
               "OPT-VERIFY", "OPT-O2", "LLC-O2"}

\* A chain of stages that looks for everything a tool may object to: each place
\* where one rejects has its stage, the forbidden assumptions have theirs, and
\* an object is written before it is looked at.
Complete(stages, places) ==
  /\ Len(stages) \in Nat \ {0} /\ \A n \in 1 .. Len(stages) : stages[n] \in StageNames
  /\ \A n \in 1 .. Len(stages) : stages[n] = "LLC" =>
        \A m \in 1 .. n - 1 : stages[m] \notin {"LLC", "OBJECT"}
  /\ \A p \in places \cap StageNames : \E n \in 1 .. Len(stages) : stages[n] = p
  /\ places \cap {"token", "reassoc"} # {} => \E n \in 1 .. Len(stages) : stages[n] = "ASSUMPTION"

\* The chains of the six sweeps.
LEMMA StagesComplete ==
  ASSUME world.sweep \in Sweeps, NEW f
  PROVE  Complete(Stages(f), RejectsAt(world.sweep, IsSpec(f)))
<1>1. CASE world.sweep = "emit"
  <2>1. Stages(f) = <<"EMIT", "UNSUPPORTED", "CLANG">>
    BY <1>1 DEF Stages, EmitStages
  <2>2. RejectsAt(world.sweep, IsSpec(f)) = {"EMIT", "UNSUPPORTED", "CLANG"}
    BY <1>1 DEF RejectsAt
  <2> QED
    BY <2>1, <2>2 DEF Complete, StageNames
<1>2. CASE world.sweep = "llvm"
  <2>1. Stages(f) = <<"EMIT", "ASSUMPTION", "LLVM-AS">>
    BY <1>2 DEF Stages, LlvmStages
  <2>2. RejectsAt(world.sweep, IsSpec(f)) = {"EMIT", "token", "reassoc", "LLVM-AS"}
    BY <1>2 DEF RejectsAt
  <2> QED
    BY <2>1, <2>2 DEF Complete, StageNames
<1>3. CASE world.sweep = "llvm_obj"
  <2>1. Stages(f) = <<"EMIT", "ASSUMPTION", "LLC", "OBJECT">>
    BY <1>3 DEF Stages, LlvmObjStages
  <2>2. RejectsAt(world.sweep, IsSpec(f)) = {"EMIT", "token", "reassoc", "LLC", "OBJECT", "UNWRITTEN"}
    BY <1>3 DEF RejectsAt
  <2> QED
    BY <2>1, <2>2 DEF Complete, StageNames
<1>4. CASE world.sweep = "opt" /\ IsSpec(f)
  <2>1. Stages(f) = <<"EMIT", "ASSUMPTION", "OPT-VERIFY", "OPT-O2", "LLC-O2">>
    BY <1>4 DEF Stages, OptStages
  <2>2. RejectsAt(world.sweep, IsSpec(f))
          = {"EMIT", "token", "reassoc", "OPT-VERIFY", "OPT-O2", "LLC-O2"}
    BY <1>4 DEF RejectsAt
  <2> QED
    BY <2>1, <2>2 DEF Complete, StageNames
<1>5. CASE world.sweep = "opt" /\ ~IsSpec(f)
  <2>1. Stages(f) = <<"CHECK", "EMIT", "ASSUMPTION", "OPT-VERIFY", "OPT-O2", "LLC-O2">>
    BY <1>5 DEF Stages, OptStages
  <2>2. RejectsAt(world.sweep, IsSpec(f))
          = {"CHECK", "EMIT", "token", "reassoc", "OPT-VERIFY", "OPT-O2", "LLC-O2"}
    BY <1>5 DEF RejectsAt
  <2> QED
    BY <2>1, <2>2 DEF Complete, StageNames
<1>6. CASE world.sweep = "c_emit"
  <2>1. Stages(f) = <<"CHECK", "EMIT", "ASSUMPTION", "LLVM-AS">>
    BY <1>6 DEF Stages, CEmitStages
  <2>2. RejectsAt(world.sweep, IsSpec(f)) = {"CHECK", "EMIT", "token", "reassoc", "LLVM-AS"}
    BY <1>6 DEF RejectsAt
  <2> QED
    BY <2>1, <2>2 DEF Complete, StageNames
<1>7. CASE world.sweep = "c_obj"
  <2>1. Stages(f) = <<"CHECK", "LLC", "OBJECT">>
    BY <1>7 DEF Stages, CObjStages
  <2>2. RejectsAt(world.sweep, IsSpec(f)) = {"CHECK", "LLC", "OBJECT", "UNWRITTEN"}
    BY <1>7 DEF RejectsAt
  <2> QED
    BY <2>1, <2>2 DEF Complete, StageNames
<1> QED
  BY <1>1, <1>2, <1>3, <1>4, <1>5, <1>6, <1>7 DEF Sweeps

----------------------------------------------------------------------------
(* The inductive invariants of a sweep.                                    *)

SweepTypes ==
  /\ world \in Scenarios
  /\ st \in [Fixture -> {"queued", "strip", "keep", "stage", "done"}]
  /\ at \in [Fixture -> Nat \ {0}]
  /\ DOMAIN objects = Fixture /\ DOMAIN result = Fixture

\* A temporary file belongs to a fixture that is in its stages, or whose write
\* failed, and nothing runs when the sweep has its verdict or has not the tools
\* it needs.
TempInv ==
  /\ \A f \in temps : f \in Fixture /\ (st[f] = "stage" \/ (st[f] = "done" /\ result[f] = NoWrite))
  /\ verdict # "none" => Running = {}
  /\ world.missing \in Probed => \A f \in Fixture : st[f] = "queued"

\* Where llc reports success without writing, the object stays what it was.
ObjectInv ==
  \A f \in Fixture : world.back[f].fails = "UNWRITTEN" => objects[f] = world.objects[f]

\* A fixture got past a stage.
Passed(f, stage) ==
  /\ stage = "ASSUMPTION" => ~ForbiddenAssumption(f)
  /\ stage = "OBJECT" => objects[f] \notin {"none", "empty"}
  /\ stage = "LLC" /\ world.back[f].fails # "UNWRITTEN" =>
       objects[f] = IF world.back[f].fails = "OBJECT" THEN "empty" ELSE "new"
  /\ stage \notin {"ASSUMPTION", "OBJECT"} => world.back[f].fails # stage

\* A fixture without a failure got past every stage before its next one, and
\* one that is done, past the last.
StageInv ==
  \A f \in Fixture :
    /\ st[f] # "done" => at[f] <= Len(Stages(f))
    /\ st[f] = "done" /\ result[f] = NoFailure => at[f] = Len(Stages(f)) + 1
    /\ at[f] <= Len(Stages(f)) + 1
    /\ result[f] = NoFailure => \A n \in 1 .. at[f] - 1 : Passed(f, Stages(f)[n])

PassInv == verdict = "PASS" => (\A f \in Fixture : st[f] = "done") /\ Complaints = {}

SweepInv == SweepTypes /\ TempInv /\ ObjectInv /\ StageInv /\ PassInv

\* What is fixed by the scenario.
LEMMA SameWorld ==
  ASSUME world' = world
  PROVE  /\ \A f : Stages(f)' = Stages(f) /\ IsSpec(f)' = IsSpec(f)
         /\ \A f : ForbiddenAssumption(f)' = ForbiddenAssumption(f)
         /\ Probed' = Probed
BY DEF Stages, IsSpec, SpecFixture, ForbiddenAssumption, Probed, OptStages

\* A step that leaves the fixtures' stages, objects and results alone.
LEMMA SameStages ==
  ASSUME StageInv, UNCHANGED <<world, at, objects, result>>,
         \A f \in Fixture : (st'[f] = "done") = (st[f] = "done")
  PROVE  StageInv'
<1>1. \A f, stage : Passed(f, stage)' = Passed(f, stage)
  BY SameWorld DEF Passed
<1> QED
  BY <1>1, SameWorld DEF StageInv

\* The report does not change with anything but the scenario and the results.
LEMMA SameComplaints ==
  ASSUME UNCHANGED <<world, result>>
  PROVE  Complaints' = Complaints
BY DEF Complaints, EmitReport, SpecReport, Failed, OutOfScope, HasEntry

\* A step that ends the sweep or does nothing to the fixtures.
LEMMA VerdictStep ==
  ASSUME SweepInv, UNCHANGED <<world, st, at, temps, objects, result>>,
         verdict' # "none" => Running = {},
         verdict' = "PASS" => (\A f \in Fixture : st[f] = "done") /\ Complaints = {}
  PROVE  SweepInv'
<1>1. SweepTypes'
  BY DEF SweepInv, SweepTypes
<1>2. Running' = Running
  BY DEF Running
<1>3. TempInv'
  BY <1>2, SameWorld DEF SweepInv, TempInv
<1>4. StageInv'
  BY SameStages DEF SweepInv
<1>5. PassInv'
  BY SameComplaints DEF PassInv
<1>6. ObjectInv'
  BY DEF SweepInv, ObjectInv
<1> QED
  BY <1>1, <1>3, <1>4, <1>5, <1>6 DEF SweepInv

\* A fixture that is running keeps the sweep without a verdict.
LEMMA RunningNoVerdict ==
  ASSUME SweepInv, NEW f \in Fixture, st[f] \in {"strip", "keep", "stage"}
  PROVE  verdict = "none" /\ world.missing \notin Probed
BY DEF SweepInv, TempInv, Running

\* A fixture moves on to its strip, or from it to its stages.
LEMMA MoveStep ==
  ASSUME SweepInv, NEW f \in Fixture, verdict = "none", world.missing \notin Probed,
         st[f] \in {"queued", "strip", "keep"}, NEW to \in {"strip", "keep", "stage"},
         st' = [st EXCEPT ![f] = to], temps' = temps \/ (temps' = temps \cup {f} /\ to = "stage"),
         UNCHANGED <<world, at, objects, result, verdict>>
  PROVE  SweepInv'
<1>1. SweepTypes'
  BY DEF SweepInv, SweepTypes
<1>2. /\ \A g \in Fixture : st'[g] = IF g = f THEN to ELSE st[g]
      /\ st' \in [Fixture -> {"queued", "strip", "keep", "stage", "done"}]
  BY <1>1 DEF SweepInv, SweepTypes
<1>3. TempInv'
  <2>1. /\ f \notin temps
        /\ \A g \in temps : g \in Fixture /\ (st[g] = "stage" \/ (st[g] = "done" /\ result[g] = NoWrite))
    BY DEF SweepInv, TempInv
  <2>2. \A g \in temps' : g \in Fixture /\ (st'[g] = "stage" \/ (st'[g] = "done" /\ result'[g] = NoWrite))
    BY <1>2, <2>1
  <2> QED
    BY <2>2, SameWorld DEF TempInv
<1>4. StageInv'
  BY <1>2, SameStages DEF SweepInv
<1>5. PassInv'
  BY DEF PassInv
<1>6. ObjectInv'
  BY DEF SweepInv, ObjectInv
<1> QED
  BY <1>1, <1>3, <1>4, <1>5, <1>6 DEF SweepInv

\* A failure and an exception are not the record of no failure.
LEMMA FailuresShow ==
  ASSUME NEW f, NEW stage \in StageNames
  PROVE  Failure(f, stage) # NoFailure /\ NoFailure \notin Raised
<1>1. /\ Failure(f, stage).kind = stage /\ NoFailure.kind = ""
      /\ NoTool.kind = "FileNotFoundError" /\ NoWrite.kind = "OSError"
  BY DEF Failure, NoFailure, NoTool, NoWrite
<1> QED
  BY <1>1 DEF StageNames, Raised

\* A fixture in its stages is at one of them.
LEMMA StageIsNamed ==
  ASSUME SweepInv, NEW f \in Fixture, st[f] = "stage"
  PROVE  /\ at[f] \in 1 .. Len(Stages(f)) /\ at[f] \in Nat /\ Len(Stages(f)) \in Nat
         /\ Stages(f)[at[f]] \in StageNames
         /\ Complete(Stages(f), RejectsAt(world.sweep, IsSpec(f)))
<1>1. world.sweep \in Sweeps
  BY CorpusSweepAssumption DEF SweepInv, SweepTypes
<1>2. Complete(Stages(f), RejectsAt(world.sweep, IsSpec(f)))
  BY <1>1, StagesComplete
<1>3. at[f] \in Nat \ {0} /\ at[f] <= Len(Stages(f))
  BY DEF SweepInv, SweepTypes, StageInv
<1>4. at[f] \in 1 .. Len(Stages(f)) /\ Len(Stages(f)) \in Nat
  BY <1>2, <1>3 DEF Complete
<1> QED
  BY <1>2, <1>3, <1>4 DEF Complete

\* A stage that does not fail has been passed, and those before it still are:
\* an object is written before any stage has looked at it.
LEMMA PassStage ==
  ASSUME SweepInv, NEW f \in Fixture, st[f] = "stage", result[f] = NoFailure,
         NEW stage, stage = Stages(f)[at[f]], ~StageFails(f, stage), world' = world,
         objects' = [objects EXCEPT ![f] = IF stage = "LLC" THEN ObjectAfter(f) ELSE @]
  PROVE  \A n \in 1 .. at[f] : \A s : s = Stages(f)[n] => Passed(f, s)'
<1>1. /\ at[f] \in 1 .. Len(Stages(f)) /\ at[f] \in Nat /\ stage \in StageNames
      /\ Complete(Stages(f), RejectsAt(world.sweep, IsSpec(f)))
  BY StageIsNamed
<1>2. \A n \in 1 .. at[f] - 1 : Passed(f, Stages(f)[n])
  BY DEF SweepInv, StageInv
<1>3. /\ stage = "LLC" /\ world.back[f].fails # "UNWRITTEN" =>
           objects'[f] = IF world.back[f].fails = "OBJECT" THEN "empty" ELSE "new"
      /\ stage # "LLC" => objects'[f] = objects[f]
  BY DEF SweepInv, SweepTypes, ObjectAfter
<1>4. Passed(f, stage)'
  <2>1. CASE stage = "ASSUMPTION"
    BY <2>1, SameWorld DEF StageFails, Passed
  <2>2. CASE stage = "OBJECT"
    BY <1>3, <2>2 DEF StageFails, Passed
  <2>3. CASE stage \notin {"ASSUMPTION", "OBJECT"}
    <3>1. world.back[f].fails # stage
      BY <2>3 DEF StageFails
    <3> QED
      BY <1>3, <2>3, <3>1 DEF Passed
  <2> QED
    BY <2>1, <2>2, <2>3
<1>5. ASSUME NEW n \in 1 .. at[f] - 1, NEW s, s = Stages(f)[n] PROVE Passed(f, s)'
  <2>1. Passed(f, s)
    BY <1>2, <1>5
  <2>2. CASE stage = "LLC"
    <3>1. s \notin {"LLC", "OBJECT"}
      BY <1>1, <1>5, <2>2 DEF Complete
    <3> QED
      BY <2>1, <3>1, SameWorld DEF Passed
  <2>3. CASE stage # "LLC"
    BY <1>3, <2>1, <2>3, SameWorld DEF Passed
  <2> QED
    BY <2>2, <2>3
<1>6. \A n \in 1 .. at[f] : n \in 1 .. at[f] - 1 \/ n = at[f]
  BY <1>1
<1> QED
  BY <1>4, <1>5, <1>6

\* A stage of one fixture.
LEMMA RunStageInv ==
  ASSUME SweepInv, NEW f \in Fixture, RunStage(f)
  PROVE  SweepInv'
<1> DEFINE stage == Stages(f)[at[f]]
           raises == Tool(stage) = world.missing
           fails == ~raises /\ StageFails(f, stage)
           last == raises \/ fails \/ at[f] = Len(Stages(f))
<1>1. /\ st[f] = "stage" /\ UNCHANGED <<world, verdict>>
      /\ at' = [at EXCEPT ![f] = @ + 1]
      /\ st' = [st EXCEPT ![f] = IF last THEN "done" ELSE "stage"]
      /\ result' = [result EXCEPT ![f] = CASE raises -> NoTool [] fails -> Failure(f, stage) [] OTHER -> @]
      /\ temps' = Unlinked(f, last)
      /\ objects' = [objects EXCEPT ![f] = IF stage = "LLC" /\ ~raises /\ ~fails THEN ObjectAfter(f) ELSE @]
  BY DEF RunStage
<1>2. verdict = "none" /\ world.missing \notin Probed
  BY <1>1, RunningNoVerdict
<1>3. /\ at[f] \in 1 .. Len(Stages(f)) /\ at[f] \in Nat /\ Len(Stages(f)) \in Nat
      /\ stage \in StageNames
  BY <1>1, StageIsNamed
<1> HIDE DEF last, fails, raises, stage
<1>4. SweepTypes'
  BY <1>1, <1>3 DEF SweepInv, SweepTypes
<1>5. /\ at'[f] = at[f] + 1 /\ st'[f] = IF last THEN "done" ELSE "stage"
      /\ result'[f] = CASE raises -> NoTool [] fails -> Failure(f, stage) [] OTHER -> result[f]
      /\ \A g \in Fixture \ {f} : /\ at'[g] = at[g] /\ st'[g] = st[g] /\ result'[g] = result[g]
                                  /\ objects'[g] = objects[g]
  BY <1>1 DEF SweepInv, SweepTypes
<1>6. TempInv'
  <2>1. \A g \in temps : g \in Fixture /\ (st[g] = "stage" \/ (st[g] = "done" /\ result[g] = NoWrite))
    BY DEF SweepInv, TempInv
  <2>2. temps' \subseteq temps /\ (last => f \notin temps')
    BY <1>1 DEF Unlinked
  <2>3. \A g \in temps' : g \in Fixture /\ (st'[g] = "stage" \/ (st'[g] = "done" /\ result'[g] = NoWrite))
    BY <1>5, <2>1, <2>2
  <2> QED
    BY <1>1, <1>2, <2>3, SameWorld DEF TempInv
<1>7. PassInv'
  BY <1>1, <1>2 DEF PassInv
<1>8. ASSUME result'[f] = NoFailure
      PROVE  /\ last <=> at[f] = Len(Stages(f))
             /\ \A n \in 1 .. at[f] : \A s : s = Stages(f)[n] => Passed(f, s)'
  <2>1. ~raises /\ ~fails
    BY <1>3, <1>5, <1>8, FailuresShow DEF Raised
  <2>2. result[f] = NoFailure
    BY <1>5, <1>8, <2>1
  <2>3. ~StageFails(f, stage)
    BY <2>1 DEF fails
  <2>4. objects' = [objects EXCEPT ![f] = IF stage = "LLC" THEN ObjectAfter(f) ELSE @]
    BY <1>1, <2>1
  <2>5. stage = Stages(f)[at[f]]
    BY DEF stage
  <2>6. \A n \in 1 .. at[f] : \A s : s = Stages(f)[n] => Passed(f, s)'
    BY <1>1, <2>2, <2>3, <2>4, <2>5, PassStage
  <2> QED
    BY <2>1, <2>6 DEF last
<1>9. StageInv'
  <2> SUFFICES ASSUME NEW g \in Fixture
               PROVE  (/\ st[g] # "done" => at[g] <= Len(Stages(g))
                       /\ st[g] = "done" /\ result[g] = NoFailure => at[g] = Len(Stages(g)) + 1
                       /\ at[g] <= Len(Stages(g)) + 1
                       /\ result[g] = NoFailure => \A n \in 1 .. at[g] - 1 : Passed(g, Stages(g)[n]))'
    BY DEF StageInv
  <2>1. CASE g # f
    <3>1. \A s : Passed(g, s)' = Passed(g, s)
      BY <1>1, <1>5, <2>1, SameWorld DEF Passed
    <3>2. Stages(g)' = Stages(g) /\ at'[g] = at[g] /\ st'[g] = st[g] /\ result'[g] = result[g]
      BY <1>1, <1>5, <2>1, SameWorld
    <3> QED
      BY <3>1, <3>2 DEF SweepInv, StageInv
  <2>2. CASE g = f
    <3>1. Stages(f)' = Stages(f)
      BY <1>1, SameWorld
    <3>2. /\ at'[f] <= Len(Stages(f)) + 1 /\ at'[f] - 1 = at[f]
          /\ ~last => at'[f] <= Len(Stages(f))
      BY <1>3, <1>5 DEF last
    <3>3. result'[f] = NoFailure => \A n \in 1 .. at[f] : (\A s : s = Stages(f)[n] => Passed(f, s)')
      BY <1>8
    <3>4. (result[f] = NoFailure => \A n \in 1 .. at[f] - 1 : Passed(f, Stages(f)[n]))'
      BY <3>1, <3>2, <3>3
    <3> QED
      BY <1>5, <1>8, <2>2, <3>1, <3>2, <3>4
  <2> QED
    BY <2>1, <2>2
<1>10. ObjectInv'
  <2>1. world.back[f].fails = "UNWRITTEN" => objects'[f] = objects[f]
    BY <1>1 DEF SweepInv, SweepTypes, ObjectAfter
  <2> QED
    BY <1>1, <1>5, <2>1 DEF SweepInv, ObjectInv
<1> QED
  BY <1>4, <1>6, <1>7, <1>9, <1>10 DEF SweepInv

\* A write of a temporary file that fails ends its fixture.
LEMMA WriteFailsInv ==
  ASSUME SweepInv, NEW f \in Fixture, st[f] \in {"keep", "stage"}, WriteFails(f)
  PROVE  SweepInv'
<1>1. /\ temps' \subseteq temps \cup {f} /\ UNCHANGED <<world, at, objects, verdict>>
      /\ result'[f] = NoWrite /\ st'[f] = "done"
      /\ \A g \in Fixture \ {f} : st'[g] = st[g] /\ result'[g] = result[g]
  BY DEF WriteFails, SweepInv, SweepTypes
<1>2. verdict = "none" /\ world.missing \notin Probed
  BY RunningNoVerdict
<1>3. SweepTypes'
  BY DEF WriteFails, SweepInv, SweepTypes
<1>4. TempInv'
  <2>1. \A g \in temps : g \in Fixture /\ (st[g] = "stage" \/ (st[g] = "done" /\ result[g] = NoWrite))
    BY DEF SweepInv, TempInv
  <2>2. \A g \in temps' : g \in Fixture /\ (st'[g] = "stage" \/ (st'[g] = "done" /\ result'[g] = NoWrite))
    BY <1>1, <2>1
  <2> QED
    BY <1>1, <1>2, <2>2, SameWorld DEF TempInv
<1>5. ObjectInv' /\ PassInv'
  BY <1>1, <1>2 DEF SweepInv, ObjectInv, PassInv
<1>6. StageInv'
  <2>1. \A g, stage : Passed(g, stage)' = Passed(g, stage)
    BY <1>1, SameWorld DEF Passed
  <2>2. NoWrite # NoFailure
    BY FailuresShow DEF Raised, StageNames
  <2> QED
    BY <1>1, <2>1, <2>2, SameWorld DEF SweepInv, StageInv
<1> QED
  BY <1>3, <1>4, <1>5, <1>6 DEF SweepInv

----------------------------------------------------------------------------
(* The theorems.                                                           *)

\* A sweep begins with every fixture queued and no temporary file.
LEMMA InitSweepInv == Init => SweepInv
<1> SUFFICES ASSUME Init PROVE SweepInv
  OBVIOUS
<1>1. /\ world \in Scenarios /\ verdict = "none" /\ temps = {} /\ objects = world.objects
      /\ st = [f \in Fixture |-> "queued"] /\ at = [f \in Fixture |-> 1]
      /\ result = [f \in Fixture |-> NoFailure]
  BY DEF Init
<1>2. world.sweep \in Sweeps /\ DOMAIN objects = Fixture
  BY <1>1, CorpusSweepAssumption
<1>3. SweepTypes
  BY <1>1, <1>2 DEF SweepTypes
<1>4. TempInv
  BY <1>1 DEF TempInv
<1>5. StageInv
  <2>1. \A f \in Fixture : at[f] = 1 /\ st[f] = "queued"
    BY <1>1
  <2>2. \A f \in Fixture : Len(Stages(f)) \in Nat \ {0}
    BY <1>2, StagesComplete DEF Complete
  <2> QED
    BY <2>1, <2>2 DEF StageInv
<1>6. PassInv /\ ObjectInv
  BY <1>1 DEF PassInv, ObjectInv
<1> QED
  BY <1>3, <1>4, <1>5, <1>6 DEF SweepInv

\* Every step of the main thread and of the workers keeps the invariant.
LEMMA NextSweepInv == ASSUME SweepInv, [Next]_vars PROVE SweepInv'
<1>1. CASE SkipSweep
  <2>1. Running = {}
    BY <1>1 DEF SkipSweep, SweepInv, TempInv, Running
  <2> QED
    BY <1>1, <2>1, VerdictStep DEF SkipSweep
<1>2. CASE SweepCrash
  BY <1>2, VerdictStep DEF SweepCrash
<1>3. CASE Report
  <2>1. Running = {}
    BY <1>3 DEF Report, Running
  <2> QED
    BY <1>3, <2>1, VerdictStep DEF Report
<1>4. CASE UNCHANGED sweepVars
  BY <1>4, VerdictStep DEF sweepVars, SweepInv, TempInv, PassInv
<1>5. ASSUME NEW f \in Fixture, Start(f) PROVE SweepInv'
  <2>1. /\ verdict = "none" /\ world.missing \notin Probed /\ st[f] = "queued" /\ temps' = temps
        /\ \E to \in {"strip", "stage"} : st' = [st EXCEPT ![f] = to]
        /\ UNCHANGED <<world, at, objects, result, verdict>>
    BY <1>5 DEF Start
  <2> QED
    BY <2>1, MoveStep
<1>6. ASSUME NEW f \in Fixture, StripBegin(f) PROVE SweepInv'
  <2>1. /\ st[f] = "strip" /\ temps' = temps /\ st' = [st EXCEPT ![f] = "keep"]
        /\ UNCHANGED <<world, at, objects, result, verdict>>
    BY <1>6 DEF StripBegin
  <2> QED
    BY <2>1, MoveStep, RunningNoVerdict
<1>7. ASSUME NEW f \in Fixture, StripEnd(f) PROVE SweepInv'
  <2>1. /\ st[f] = "keep" /\ temps' = temps \cup {f} /\ st' = [st EXCEPT ![f] = "stage"]
        /\ UNCHANGED <<world, at, objects, result, verdict>>
    BY <1>7 DEF StripEnd
  <2> QED
    BY <2>1, MoveStep, RunningNoVerdict
<1>8. ASSUME NEW f \in Fixture, StripEndFails(f) \/ StageWriteFails(f) PROVE SweepInv'
  <2>1. st[f] \in {"keep", "stage"} /\ WriteFails(f)
    BY <1>8 DEF StripEndFails, StageWriteFails
  <2> QED
    BY <2>1, WriteFailsInv
<1> QED
  BY <1>1, <1>2, <1>3, <1>4, <1>5, <1>6, <1>7, <1>8, RunStageInv DEF Next, StripRound, StripReturn, vars

\* However a sweep ends, over any number of fixtures and with any number of
\* workers, of its temporary files none is left but one whose own write failed.
THEOREM TempsGone == Spec => []NoTempLeft
<1>1. SweepInv => NoTempLeft
  BY DEF SweepInv, TempInv, NoTempLeft, Running
<1> QED
  BY <1>1, InitSweepInv, NextSweepInv, PTL DEF Spec

\* A fixture that is done without a failure is one that no tool objects to, and
\* the object in the output directory is its own; or llc wrote nothing where an
\* earlier sweep had left an object.
LEMMA DoneIsFine ==
  ASSUME SweepInv, NEW f \in Fixture, st[f] = "done", result[f] = NoFailure
  PROVE  \/ /\ world.back[f].fails = "ok" \/ (world.back[f].fails = "reassoc" /\ world.back[f].sum_fast)
            /\ world.sweep \in {"llvm_obj", "c_obj"} => objects[f] = "new"
         \/ world.back[f].fails = "UNWRITTEN" /\ world.objects[f] = "old"
<1> DEFINE where == world.back[f].fails
           places == RejectsAt(world.sweep, IsSpec(f))
<1>1. world.sweep \in Sweeps /\ where \in {"ok"} \cup places
  BY CorpusSweepAssumption DEF SweepInv, SweepTypes, IsSpec
<1>2. Complete(Stages(f), places)
  BY <1>1, StagesComplete
<1>3. \A n \in 1 .. Len(Stages(f)) : Passed(f, Stages(f)[n])
  <2>1. at[f] = Len(Stages(f)) + 1 /\ Len(Stages(f)) \in Nat
    BY <1>2 DEF SweepInv, StageInv, Complete
  <2>2. at[f] - 1 = Len(Stages(f))
    BY <2>1
  <2> QED
    BY <2>2 DEF SweepInv, StageInv
<1>4. \A p \in places \cap StageNames : Passed(f, p)
  BY <1>2, <1>3 DEF Complete
<1>5. places \cap {"token", "reassoc"} # {} => ~ForbiddenAssumption(f)
  BY <1>2, <1>3 DEF Complete, Passed
<1>6. world.sweep \in {"llvm_obj", "c_obj"} <=> "OBJECT" \in places
  BY <1>1 DEF RejectsAt, Sweeps
<1>7. "OBJECT" \in places => "LLC" \in places /\ "OBJECT" \in StageNames /\ "LLC" \in StageNames
  BY <1>1 DEF RejectsAt, Sweeps, StageNames
<1>8. /\ "OBJECT" \in places /\ where # "UNWRITTEN" => where # "OBJECT" /\ objects[f] = "new"
      /\ "OBJECT" \in places => objects[f] \notin {"none", "empty"}
  BY <1>4, <1>7 DEF Passed
<1>9. places \subseteq StageNames \cup {"token", "reassoc", "UNWRITTEN"}
  BY <1>1 DEF RejectsAt, Sweeps, StageNames
<1>10. "ASSUMPTION" \notin places /\ ("UNWRITTEN" \in places => "OBJECT" \in places)
  BY <1>1 DEF RejectsAt, Sweeps
<1> HIDE DEF places
<1>11. where \notin StageNames
  <2> SUFFICES ASSUME where \in StageNames PROVE FALSE
    OBVIOUS
  <2>1. where \in places
    BY <1>1 DEF StageNames
  <2>2. Passed(f, where) /\ where # "OBJECT" /\ where # "ASSUMPTION"
    BY <1>4, <1>8, <1>10, <2>1 DEF StageNames
  <2> QED
    BY <2>2 DEF Passed
<1>12. ASSUME where = "UNWRITTEN" PROVE world.objects[f] = "old"
  <2>1. objects[f] = world.objects[f] /\ objects[f] \notin {"none", "empty"}
    BY <1>1, <1>8, <1>10, <1>12 DEF SweepInv, ObjectInv
  <2>2. world.objects[f] \in {"none", "old", "empty"}
    BY CorpusSweepAssumption DEF SweepInv, SweepTypes
  <2> QED
    BY <2>1, <2>2
<1>13. where # "UNWRITTEN" => where = "ok" \/ (where = "reassoc" /\ world.back[f].sum_fast)
  <2> SUFFICES ASSUME where # "UNWRITTEN" PROVE where = "ok" \/ (where = "reassoc" /\ world.back[f].sum_fast)
    OBVIOUS
  <2>1. where \in {"ok", "token", "reassoc"}
    BY <1>1, <1>9, <1>11
  <2>2. where # "ok" => ~ForbiddenAssumption(f)
    BY <1>1, <1>5, <2>1
  <2> QED
    BY <2>1, <2>2 DEF ForbiddenAssumption
<1> QED
  BY <1>6, <1>8, <1>12, <1>13

\* PASS is earned: a fixture of a sweep that passes went through every stage, in
\* any of the six sweeps and whatever an earlier one left in the output directory,
\* or one of the lists names it, or llc reported success for it without writing
\* and an object of an earlier sweep was there.
THEOREM PassEarned == Spec => []PassIsEarned
<1>1. SweepInv => PassIsEarned
  <2> SUFFICES ASSUME SweepInv, verdict = "PASS", NEW f \in Fixture
               PROVE  \/ /\ world.back[f].fails = "ok" \/ (world.back[f].fails = "reassoc" /\ world.back[f].sum_fast)
                         /\ world.sweep \in {"llvm_obj", "c_obj"} => objects[f] = "new"
                      \/ world.back[f].fails = "UNWRITTEN" /\ world.objects[f] = "old"
                      \/ world.sweep = "emit" /\ HasEntry(f)
                      \/ world.sweep \in {"emit", "llvm", "llvm_obj", "opt"} /\ f \in world.allow
    BY DEF PassIsEarned
  <2>1. st[f] = "done" /\ Complaints = {}
    BY DEF SweepInv, PassInv
  <2>2. CASE result[f] = NoFailure
    BY <2>1, <2>2, DoneIsFine
  <2>3. CASE result[f] # NoFailure
    <3>1. f \in Failed
      BY <2>3 DEF Failed
    <3>2. CASE world.sweep = "emit"
      <4>1. EmitReport = {}
        BY <2>1, <3>2 DEF Complaints
      <4>2. f \in OutOfScope \/ HasEntry(f)
        BY <3>1, <4>1 DEF EmitReport
      <4> QED
        BY <3>2, <4>2 DEF OutOfScope
    <3>3. CASE world.sweep \in {"llvm", "llvm_obj", "opt"}
      BY <2>1, <3>1, <3>3 DEF Complaints, SpecReport, OutOfScope
    <3>4. CASE world.sweep \notin {"emit", "llvm", "llvm_obj", "opt"}
      BY <2>1, <3>1, <3>4 DEF Complaints
    <3> QED
      BY <3>2, <3>3, <3>4
  <2> QED
    BY <2>2, <2>3
<1> QED
  BY <1>1, InitSweepInv, NextSweepInv, PTL DEF Spec

----------------------------------------------------------------------------
(* The diagnostic of a refusal: how it is put together.                    *)

\* The least number of a set.
LEMMA MinIs ==
  ASSUME NEW S \in SUBSET Int, NEW x \in S, \A y \in S : x <= y
  PROVE  Min(S) = x
<1>1. \A z \in S : (\A y \in S : z <= y) => z = x
  OBVIOUS
<1> QED
  BY <1>1, Zenon DEF Min

\* The n elements of s and the k elements of t are those of u.
Spliced(u, s, n, t, k) ==
  /\ \A i \in 1 .. n : u[i] = s[i]
  /\ \A i \in 1 .. k : u[n + i] = t[i]

LEMMA Pieces ==
  ASSUME NEW u, NEW s, NEW t, NEW n \in Nat, NEW k \in Nat,
         \A i \in 1 .. n + k : u[i] = IF i <= n THEN s[i] ELSE t[i - n]
  PROVE  Spliced(u, s, n, t, k)
<1>1. ASSUME NEW i \in 1 .. n PROVE u[i] = s[i]
  <2>1. i \in 1 .. n + k /\ i <= n
    OBVIOUS
  <2> QED
    BY <2>1
<1>2. ASSUME NEW i \in 1 .. k PROVE u[n + i] = t[i]
  <2>1. n + i \in 1 .. n + k /\ ~(n + i <= n) /\ (n + i) - n = i
    OBVIOUS
  <2>2. u[n + i] = t[(n + i) - n]
    BY <2>1
  <2> QED
    BY <2>1, <2>2
<1> QED
  BY <1>1, <1>2 DEF Spliced

\* What stands where in a sequence joined of two.
LEMMA Joined ==
  ASSUME NEW S, NEW s \in Seq(S), NEW t \in Seq(S)
  PROVE  /\ s \o t \in Seq(S) /\ Len(s \o t) = Len(s) + Len(t)
         /\ Spliced(s \o t, s, Len(s), t, Len(t))
<1>1. s \o t \in Seq(S) /\ Len(s \o t) = Len(s) + Len(t)
  BY ConcatProperties
<1>2. \A i \in 1 .. Len(s) + Len(t) : (s \o t)[i] = IF i <= Len(s) THEN s[i] ELSE t[i - Len(s)]
  BY ConcatProperties
<1>3. Len(s) \in Nat /\ Len(t) \in Nat
  OBVIOUS
<1>4. Spliced(s \o t, s, Len(s), t, Len(t))
  BY <1>2, <1>3, Pieces, Zenon
<1> QED
  BY <1>1, <1>4

\* s is a sequence of n elements of S.
Text(S, s, n) == s \in Seq(S) /\ Len(s) = n /\ n \in Nat

LEMMA TextsJoined ==
  ASSUME NEW S, NEW s, NEW n, Text(S, s, n), NEW t, NEW k, Text(S, t, k)
  PROVE  Text(S, s \o t, n + k) /\ Spliced(s \o t, s, n, t, k)
<1>1. s \in Seq(S) /\ t \in Seq(S) /\ Len(s) = n /\ Len(t) = k /\ n + k \in Nat
  BY DEF Text
<1>2. Spliced(s \o t, s, Len(s), t, Len(t))
  BY <1>1, Joined, Zenon
<1>3. s \o t \in Seq(S) /\ Len(s \o t) = Len(s) + Len(t)
  BY <1>1, Joined, Zenon
<1> QED
  BY <1>1, <1>2, <1>3, Zenon DEF Text

\* What stands where when four texts of these lengths are joined between five
\* punctuations.
Placed(m, R, A, a, T1, B, b, T2, C, c, T3, D, d, T4) ==
  /\ m[1] = R[1] /\ m[a + 2] = T1[1]
  /\ m[a + b + 3] = T2[1] /\ m[a + b + 4] = T2[2] /\ m[a + b + 5] = T2[3]
  /\ m[a + b + c + 6] = T3[1] /\ m[a + b + c + 7] = T3[2]
  /\ m[a + b + c + d + 8] = T4[1]
  /\ \A i \in 1 .. a : m[1 + i] = A[i]
  /\ \A i \in 1 .. b : m[a + 2 + i] = B[i]
  /\ \A i \in 1 .. c : m[a + b + 5 + i] = C[i]
  /\ \A i \in 1 .. d : m[a + b + c + 7 + i] = D[i]

\* Four texts between five punctuations, put together one after the other.
LEMMA Punctuated ==
  ASSUME NEW m, NEW m1, NEW m2, NEW m3, NEW m4, NEW m5, NEW m6, NEW m7,
         NEW R, NEW A, NEW T1, NEW B, NEW T2, NEW C, NEW T3, NEW D, NEW T4,
         NEW a \in Nat, NEW b \in Nat, NEW c \in Nat, NEW d \in Nat,
         Spliced(m1, R, 1, A, a), Spliced(m2, m1, 1 + a, T1, 1),
         Spliced(m3, m2, 1 + a + 1, B, b), Spliced(m4, m3, 1 + a + 1 + b, T2, 3),
         Spliced(m5, m4, 1 + a + 1 + b + 3, C, c), Spliced(m6, m5, 1 + a + 1 + b + 3 + c, T3, 2),
         Spliced(m7, m6, 1 + a + 1 + b + 3 + c + 2, D, d),
         Spliced(m, m7, 1 + a + 1 + b + 3 + c + 2 + d, T4, 1)
  PROVE  Placed(m, R, A, a, T1, B, b, T2, C, c, T3, D, d, T4)
<1>1. \A i \in 1 .. a + b + c + d + 7 : m[i] = m7[i]
  BY DEF Spliced
<1>2. \A i \in 1 .. a + b + c + 7 : m[i] = m6[i]
  BY <1>1 DEF Spliced
<1>3. \A i \in 1 .. a + b + c + 5 : m[i] = m5[i]
  BY <1>2 DEF Spliced
<1>4. \A i \in 1 .. a + b + 5 : m[i] = m4[i]
  BY <1>3 DEF Spliced
<1>5. \A i \in 1 .. a + b + 2 : m[i] = m3[i]
  BY <1>4 DEF Spliced
<1>6. \A i \in 1 .. a + 2 : m[i] = m2[i]
  BY <1>5 DEF Spliced
<1>7. \A i \in 1 .. a + 1 : m[i] = m1[i]
  BY <1>6 DEF Spliced
<1>8. m[1] = R[1] /\ \A i \in 1 .. a : m[1 + i] = A[i]
  BY <1>7 DEF Spliced
<1>9. m[a + 2] = T1[1]
  BY <1>6 DEF Spliced
<1>10. \A i \in 1 .. b : m[a + 2 + i] = B[i]
  BY <1>5 DEF Spliced
<1>11. m[a + b + 3] = T2[1] /\ m[a + b + 4] = T2[2] /\ m[a + b + 5] = T2[3]
  BY <1>4 DEF Spliced
<1>12. ASSUME NEW i \in 1 .. c PROVE m[a + b + 5 + i] = C[i]
  <2>1. m5[a + b + 5 + i] = C[i]
    BY DEF Spliced
  <2> QED
    BY <1>3, <2>1
<1>13. m[a + b + c + 6] = T3[1] /\ m[a + b + c + 7] = T3[2]
  BY <1>2 DEF Spliced
<1>14. \A i \in 1 .. d : m[a + b + c + 7 + i] = D[i]
  BY <1>1 DEF Spliced
<1>15. m[a + b + c + d + 8] = T4[1]
  BY DEF Spliced
<1> QED
  BY <1>8, <1>9, <1>10, <1>11, <1>12, <1>13, <1>14, <1>15 DEF Placed

\* The lengths add up.
LEMMA LengthsAdd ==
  ASSUME NEW S, NEW m, NEW a \in Nat, NEW b \in Nat, NEW c \in Nat, NEW d \in Nat,
         Text(S, m, 1 + a + 1 + b + 3 + c + 2 + d + 1)
  PROVE  Text(S, m, a + b + c + d + 8)
<1>1. 1 + a + 1 + b + 3 + c + 2 + d + 1 = a + b + c + d + 8
  OBVIOUS
<1> QED
  BY <1>1, Zenon

\* What render_cause joins, text by text.
LEMMA NineJoined ==
  ASSUME NEW S, NEW R, Text(S, R, 1), NEW T1, Text(S, T1, 1), NEW T2, Text(S, T2, 3),
         NEW T3, Text(S, T3, 2), NEW T4, Text(S, T4, 1),
         NEW A, NEW a \in Nat, Text(S, A, a), NEW B, NEW b \in Nat, Text(S, B, b),
         NEW C, NEW c \in Nat, Text(S, C, c), NEW D, NEW d \in Nat, Text(S, D, d)
  PROVE  /\ Text(S, R \o A \o T1 \o B \o T2 \o C \o T3 \o D \o T4, a + b + c + d + 8)
         /\ Placed(R \o A \o T1 \o B \o T2 \o C \o T3 \o D \o T4, R, A, a, T1, B, b, T2, C, c, T3, D, d, T4)
<1> DEFINE m1 == R \o A
           m2 == m1 \o T1
           m3 == m2 \o B
           m4 == m3 \o T2
           m5 == m4 \o C
           m6 == m5 \o T3
           m7 == m6 \o D
           m8 == m7 \o T4
<1>1. Text(S, m1, 1 + a) /\ Spliced(m1, R, 1, A, a)
  BY TextsJoined, Zenon
<1>2. Text(S, m2, 1 + a + 1) /\ Spliced(m2, m1, 1 + a, T1, 1)
  BY <1>1, TextsJoined, Zenon
<1>3. Text(S, m3, 1 + a + 1 + b) /\ Spliced(m3, m2, 1 + a + 1, B, b)
  BY <1>2, TextsJoined, Zenon
<1>4. Text(S, m4, 1 + a + 1 + b + 3) /\ Spliced(m4, m3, 1 + a + 1 + b, T2, 3)
  BY <1>3, TextsJoined, Zenon
<1>5. Text(S, m5, 1 + a + 1 + b + 3 + c) /\ Spliced(m5, m4, 1 + a + 1 + b + 3, C, c)
  BY <1>4, TextsJoined, Zenon
<1>6. Text(S, m6, 1 + a + 1 + b + 3 + c + 2) /\ Spliced(m6, m5, 1 + a + 1 + b + 3 + c, T3, 2)
  BY <1>5, TextsJoined, Zenon
<1>7. Text(S, m7, 1 + a + 1 + b + 3 + c + 2 + d) /\ Spliced(m7, m6, 1 + a + 1 + b + 3 + c + 2, D, d)
  BY <1>6, TextsJoined, Zenon
<1>8. /\ Text(S, m8, 1 + a + 1 + b + 3 + c + 2 + d + 1)
      /\ Spliced(m8, m7, 1 + a + 1 + b + 3 + c + 2 + d, T4, 1)
  BY <1>7, TextsJoined, Zenon
<1>9. Text(S, m8, a + b + c + d + 8)
  BY <1>8, LengthsAdd, Zenon
<1>10. Placed(m8, R, A, a, T1, B, b, T2, C, c, T3, D, d, T4)
  <2> HIDE DEF m1, m2, m3, m4, m5, m6, m7, m8
  <2> QED
    BY <1>1, <1>2, <1>3, <1>4, <1>5, <1>6, <1>7, <1>8, Punctuated, Zenon
<1> QED
  BY <1>9, <1>10, Zenon

----------------------------------------------------------------------------
(* Reading it back.                                                        *)

\* The first t of message at or after `from`, as parse_cause looks for it.
FirstOf(message, t, from) ==
  LET found == {n \in from .. Len(message) : message[n] = t}
  IN  IF found = {} THEN Len(message) + 1 ELSE Min(found)

LEMMA FirstAt ==
  ASSUME NEW m, NEW L \in Nat, Len(m) = L, NEW t, NEW from \in Nat, NEW n \in from .. L,
         m[n] = t, \A i \in from .. n - 1 : m[i] # t
  PROVE  FirstOf(m, t, from) = n
<1> DEFINE found == {i \in from .. L : m[i] = t}
<1>1. n \in found
  OBVIOUS
<1>2. found \in SUBSET Int /\ \A y \in found : n <= y
  OBVIOUS
<1>3. Min(found) = n
  <2> HIDE DEF found
  <2> QED
    BY <1>1, <1>2, MinIs
<1> QED
  BY <1>1, <1>3 DEF FirstOf

\* The a elements of A stand in m after position o.
StandsAt(m, o, A, a) == \A i \in 1 .. a : m[o + i] = A[i]

\* The elements of m between the two positions are A.
Between(m, from, to, A) == SubSeq(m, from + 1, to - 1) = A

\* A part of a sequence, element by element.
LEMMA PartIs ==
  ASSUME NEW S, NEW m, NEW L, Text(S, m, L), NEW U, NEW A, NEW a, Text(U, A, a),
         NEW from \in Nat, from + a + 1 <= L, StandsAt(m, from, A, a)
  PROVE  Between(m, from, from + a + 1, A)
<1>1. /\ m \in Seq(S) /\ Len(m) = L /\ L \in Nat /\ A \in Seq(U) /\ Len(A) = a /\ a \in Nat
  BY DEF Text
<1>2. SubSeq(m, from + 1, (from + a + 1) - 1) = [i \in 1 .. a |-> m[from + i]]
  BY <1>1
<1>3. A = [i \in 1 .. a |-> A[i]]
  BY <1>1
<1>4. \A i \in 1 .. a : m[from + i] = A[i]
  BY DEF StandsAt
<1> QED
  BY <1>2, <1>3, <1>4, Zenon DEF Between

\* No element of m after position o, for the next a, is t.
FreeOf(m, o, a, t) == \A i \in o + 1 .. o + a : m[i] # t

\* A text that is free of t stays so where it is placed.
LEMMA FreeWherePlaced ==
  ASSUME NEW m, NEW A, NEW o \in Nat, NEW a \in Nat, NEW t,
         StandsAt(m, o, A, a), FreeOf(A, 0, a, t)
  PROVE  FreeOf(m, o, a, t)
<1> SUFFICES ASSUME NEW i \in o + 1 .. o + a PROVE m[i] # t
  BY DEF FreeOf
<1>1. i - o \in 1 .. a /\ i - o \in 0 + 1 .. 0 + a /\ o + (i - o) = i
  OBVIOUS
<1> QED
  BY <1>1 DEF FreeOf, StandsAt

\* A diagnostic with four texts where render_cause puts them.
Laid(m, A, a, B, b, C, c, D, d) ==
  /\ m[1] = STRUCTURED_REASON /\ m[a + 2] = "tick"
  /\ m[a + b + 3] = "tick" /\ m[a + b + 4] = "in" /\ m[a + b + 5] = "tick"
  /\ m[a + b + c + 6] = "tick" /\ m[a + b + c + 7] = "declined by" /\ m[a + b + c + d + 8] = ")"
  /\ StandsAt(m, 1, A, a) /\ StandsAt(m, a + 2, B, b)
  /\ StandsAt(m, a + b + 5, C, c) /\ StandsAt(m, a + b + c + 7, D, d)

\* Where the first tokens are that parse_cause looks for, from the one that ends
\* the category.
FirstIs(m, t, from, n) == FirstOf(m, t, from) = n

LEMMA TokensAt ==
  ASSUME NEW m, NEW a \in Nat, NEW b \in Nat, NEW c \in Nat, NEW d \in Nat,
         NEW S, Text(S, m, a + b + c + d + 8),
         FreeOf(m, a + 2, b, "tick"), FreeOf(m, a + b + 5, c, "tick"), FreeOf(m, a + b + c + 7, d, ")"),
         NEW A, NEW B, NEW C, NEW D, Laid(m, A, a, B, b, C, c, D, d)
  PROVE  /\ FirstIs(m, "tick", a + 2 + 1, a + b + 3)
         /\ FirstIs(m, "tick", a + b + 3 + 3, a + b + c + 6)
         /\ FirstIs(m, ")", a + b + c + 6 + 2, a + b + c + d + 8)
<1>1. /\ a + 2 + 1 \in Nat /\ a + b + 3 \in a + 2 + 1 .. a + b + c + d + 8
      /\ \A i \in a + 2 + 1 .. (a + b + 3) - 1 : m[i] # "tick"
  BY DEF FreeOf
<1>2. /\ a + b + 3 + 3 \in Nat /\ a + b + c + 6 \in a + b + 3 + 3 .. a + b + c + d + 8
      /\ \A i \in a + b + 3 + 3 .. (a + b + c + 6) - 1 : m[i] # "tick"
  BY DEF FreeOf
<1>3. /\ a + b + c + 6 + 2 \in Nat /\ a + b + c + d + 8 \in a + b + c + 6 + 2 .. a + b + c + d + 8
      /\ \A i \in a + b + c + 6 + 2 .. (a + b + c + d + 8) - 1 : m[i] # ")"
  BY DEF FreeOf
<1>4. Len(m) = a + b + c + d + 8 /\ a + b + c + d + 8 \in Nat
  BY Zenon DEF Text
<1>5. m[a + b + 3] = "tick" /\ m[a + b + c + 6] = "tick" /\ m[a + b + c + d + 8] = ")"
  BY DEF Laid
<1>6. FirstOf(m, "tick", a + 2 + 1) = a + b + 3
  BY <1>1, <1>4, <1>5, FirstAt
<1>7. FirstOf(m, "tick", a + b + 3 + 3) = a + b + c + 6
  BY <1>2, <1>4, <1>5, FirstAt
<1>8. FirstOf(m, ")", a + b + c + 6 + 2) = a + b + c + d + 8
  BY <1>3, <1>4, <1>5, FirstAt
<1> QED
  BY <1>6, <1>7, <1>8, Zenon DEF FirstIs

\* None of the texts can be mistaken for the punctuation after it.
Plainly(A, a, B, b, C, c, D, d) ==
  /\ FreeOf(A, 0, a, "tick") /\ FreeOf(B, 0, b, "tick")
  /\ FreeOf(C, 0, c, "tick") /\ FreeOf(D, 0, d, ")")

\* The positions of the punctuation.
LEMMA PunctuationPositions ==
  ASSUME NEW a \in Nat, a # 0, NEW b \in Nat, NEW c \in Nat, NEW d \in Nat
  PROVE  /\ a + 2 \in Nat /\ a + b + 5 \in Nat /\ a + b + c + 7 \in Nat /\ 1 \in Nat
         /\ a + b + 3 + 1 = a + b + 4 /\ a + b + 3 + 2 = a + b + 5
         /\ a + b + c + 6 + 1 = a + b + c + 7 /\ a + b + c + d + 8 <= a + b + c + d + 8
         /\ a + 2 \in 3 .. a + b + c + d + 8
         /\ a + 2 = 1 + a + 1 /\ a + 2 <= a + b + c + d + 8
         /\ a + b + 3 = a + 2 + b + 1 /\ a + b + 3 <= a + b + c + d + 8
         /\ a + b + 3 \in Nat /\ a + b + c + 6 = a + b + 5 + c + 1 /\ a + b + c + 6 <= a + b + c + d + 8
         /\ a + b + c + 6 \in Nat /\ a + b + c + d + 8 = a + b + c + 7 + d + 1
OBVIOUS

LEMMA LaidPlainly ==
  ASSUME NEW m, NEW A, NEW B, NEW C, NEW D,
         NEW a \in Nat, NEW b \in Nat, NEW c \in Nat, NEW d \in Nat,
         Laid(m, A, a, B, b, C, c, D, d), Plainly(A, a, B, b, C, c, D, d)
  PROVE  /\ FreeOf(m, 1, a, "tick") /\ FreeOf(m, a + 2, b, "tick")
         /\ FreeOf(m, a + b + 5, c, "tick") /\ FreeOf(m, a + b + c + 7, d, ")")
<1>1. a + 2 \in Nat /\ a + b + 5 \in Nat /\ a + b + c + 7 \in Nat /\ 1 \in Nat
  OBVIOUS
<1>2. /\ StandsAt(m, 1, A, a) /\ StandsAt(m, a + 2, B, b)
      /\ StandsAt(m, a + b + 5, C, c) /\ StandsAt(m, a + b + c + 7, D, d)
  BY Zenon DEF Laid
<1>3. /\ FreeOf(A, 0, a, "tick") /\ FreeOf(B, 0, b, "tick")
      /\ FreeOf(C, 0, c, "tick") /\ FreeOf(D, 0, d, ")")
  BY Zenon DEF Plainly
<1> QED
  BY <1>1, <1>2, <1>3, FreeWherePlaced, Zenon

\* parse_cause finds the four texts.
ReadsAs(m, A, B, C, D) ==
  parse_cause(m) = [category |-> A, construct |-> B, function |-> C, phase |-> D]

\* A diagnostic that is laid out as render_cause does it reads back as its texts.
LEMMA ReadBack ==
  ASSUME NEW S, NEW m, NEW a \in Nat, a # 0, NEW b \in Nat, NEW c \in Nat, NEW d \in Nat,
         Text(S, m, a + b + c + d + 8),
         NEW U, NEW A, NEW B, NEW C, NEW D, Text(U, A, a), Text(U, B, b), Text(U, C, c), Text(U, D, d),
         Laid(m, A, a, B, b, C, c, D, d), Plainly(A, a, B, b, C, c, D, d)
  PROVE  ReadsAs(m, A, B, C, D)
<1> DEFINE Construct(i) == FirstOf(m, "tick", i + 1)
           Function(i) == FirstOf(m, "tick", Construct(i) + 3)
           Phase(i) == FirstOf(m, ")", Function(i) + 2)
           Matches(i) ==
             /\ m[i] = "tick" /\ Phase(i) <= Len(m)
             /\ m[Construct(i) + 1] = "in" /\ m[Construct(i) + 2] = "tick"
             /\ m[Function(i) + 1] = "declined by"
           starts == {i \in 3 .. Len(m) : m[1] = STRUCTURED_REASON /\ Matches(i)}
           i0 == Min(starts)
           Part(from, to) == SubSeq(m, from + 1, to - 1)
<1>1. parse_cause(m) =
        IF starts = {} THEN NoCause
        ELSE [category |-> Part(1, i0), construct |-> Part(i0, Construct(i0)),
              function |-> Part(Construct(i0) + 2, Function(i0)),
              phase |-> Part(Function(i0) + 1, Phase(i0))]
  BY Zenon DEF parse_cause, FirstOf
<1>2. /\ a + 2 \in Nat /\ a + b + 5 \in Nat /\ a + b + c + 7 \in Nat /\ 1 \in Nat
      /\ a + b + 3 + 1 = a + b + 4 /\ a + b + 3 + 2 = a + b + 5
      /\ a + b + c + 6 + 1 = a + b + c + 7 /\ a + b + c + d + 8 <= a + b + c + d + 8
      /\ a + 2 \in 3 .. a + b + c + d + 8
      /\ a + 2 = 1 + a + 1 /\ a + 2 <= a + b + c + d + 8
      /\ a + b + 3 = a + 2 + b + 1 /\ a + b + 3 <= a + b + c + d + 8
      /\ a + b + 3 \in Nat /\ a + b + c + 6 = a + b + 5 + c + 1 /\ a + b + c + 6 <= a + b + c + d + 8
      /\ a + b + c + 6 \in Nat /\ a + b + c + d + 8 = a + b + c + 7 + d + 1
  BY PunctuationPositions
<1>3. /\ FreeOf(m, 1, a, "tick") /\ FreeOf(m, a + 2, b, "tick")
      /\ FreeOf(m, a + b + 5, c, "tick") /\ FreeOf(m, a + b + c + 7, d, ")")
  BY LaidPlainly, Zenon
<1>4. /\ m[1] = STRUCTURED_REASON /\ m[a + 2] = "tick"
      /\ m[a + b + 3] = "tick" /\ m[a + b + 4] = "in" /\ m[a + b + 5] = "tick"
      /\ m[a + b + c + 6] = "tick" /\ m[a + b + c + 7] = "declined by" /\ m[a + b + c + d + 8] = ")"
      /\ Len(m) = a + b + c + d + 8
  BY Zenon DEF Laid, Text
<1>5. /\ FirstOf(m, "tick", a + 2 + 1) = a + b + 3
      /\ FirstOf(m, "tick", a + b + 3 + 3) = a + b + c + 6
      /\ FirstOf(m, ")", a + b + c + 6 + 2) = a + b + c + d + 8
  <2>1. /\ FirstIs(m, "tick", a + 2 + 1, a + b + 3)
        /\ FirstIs(m, "tick", a + b + 3 + 3, a + b + c + 6)
        /\ FirstIs(m, ")", a + b + c + 6 + 2, a + b + c + d + 8)
    BY <1>3, TokensAt, Zenon
  <2> QED
    BY <2>1, Zenon DEF FirstIs
<1>6. Construct(a + 2) = a + b + 3 /\ Function(a + 2) = a + b + c + 6 /\ Phase(a + 2) = a + b + c + d + 8
  BY <1>5, Zenon
<1>7. Matches(a + 2)
  <2> HIDE DEF Construct, Function, Phase
  <2>1. m[Construct(a + 2) + 1] = "in" /\ m[Construct(a + 2) + 2] = "tick"
    BY <1>2, <1>4, <1>6, Zenon
  <2>2. m[Function(a + 2) + 1] = "declined by"
    BY <1>2, <1>4, <1>6, Zenon
  <2>3. Phase(a + 2) <= Len(m)
    BY <1>2, <1>4, <1>6, Zenon
  <2> QED
    BY <1>4, <2>1, <2>2, <2>3, Zenon
<1>8. a + 2 \in starts
  <2> HIDE DEF Matches
  <2>1. a + 2 \in 3 .. Len(m)
    BY <1>2, <1>4, Zenon
  <2> QED
    BY <1>4, <1>7, <2>1, Zenon
<1>9. ASSUME NEW i \in starts PROVE i \in Int /\ a + 2 <= i
  <2>1. i \in 3 .. Len(m) /\ m[i] = "tick"
    <3> HIDE DEF Phase, Construct, Function
    <3> QED
      BY <1>9, Zenon
  <2>2. i \in 3 .. a + b + c + d + 8
    BY <1>4, <2>1, Zenon
  <2>3. \A n \in 1 + 1 .. 1 + a : m[n] # "tick"
    BY <1>3, Zenon DEF FreeOf
  <2> HIDE DEF starts
  <2> QED
    BY <2>1, <2>2, <2>3
<1>10. i0 = a + 2
  <2> HIDE DEF starts
  <2>1. starts \in SUBSET Int
    BY <1>9, Zenon
  <2> QED
    BY <1>8, <1>9, <2>1, MinIs, Zenon
<1>11. /\ StandsAt(m, 1, A, a) /\ StandsAt(m, a + 2, B, b)
       /\ StandsAt(m, a + b + 5, C, c) /\ StandsAt(m, a + b + c + 7, D, d)
  BY Zenon DEF Laid
<1>12. /\ 1 + a + 1 <= a + b + c + d + 8 /\ a + 2 + b + 1 <= a + b + c + d + 8
       /\ a + b + 5 + c + 1 <= a + b + c + d + 8 /\ a + b + c + 7 + d + 1 <= a + b + c + d + 8
  BY <1>2, Zenon
<1>13. /\ Between(m, 1, 1 + a + 1, A) /\ Between(m, a + 2, a + 2 + b + 1, B)
       /\ Between(m, a + b + 5, a + b + 5 + c + 1, C)
       /\ Between(m, a + b + c + 7, a + b + c + 7 + d + 1, D)
  <2>1. a + 2 \in Nat /\ a + b + 5 \in Nat /\ a + b + c + 7 \in Nat /\ 1 \in Nat
    BY <1>2
  <2>2. Between(m, 1, 1 + a + 1, A)
    BY <1>11, <1>12, <2>1, PartIs, Zenon
  <2>3. Between(m, a + 2, a + 2 + b + 1, B)
    BY <1>11, <1>12, <2>1, PartIs, Zenon
  <2>4. Between(m, a + b + 5, a + b + 5 + c + 1, C)
    BY <1>11, <1>12, <2>1, PartIs, Zenon
  <2>5. Between(m, a + b + c + 7, a + b + c + 7 + d + 1, D)
    BY <1>11, <1>12, <2>1, PartIs, Zenon
  <2> QED
    BY <2>2, <2>3, <2>4, <2>5, Zenon
<1>14. /\ Part(1, a + 2) = A /\ Part(a + 2, a + b + 3) = B
       /\ Part(a + b + 5, a + b + c + 6) = C /\ Part(a + b + c + 7, a + b + c + d + 8) = D
  <2>1. /\ Between(m, 1, a + 2, A) /\ Between(m, a + 2, a + b + 3, B)
        /\ Between(m, a + b + 5, a + b + c + 6, C) /\ Between(m, a + b + c + 7, a + b + c + d + 8, D)
    BY <1>2, <1>13, Zenon
  <2> QED
    BY <2>1, Zenon DEF Between
<1>15. starts # {}
  <2> HIDE DEF starts
  <2> QED
    BY <1>8, Zenon
<1> HIDE DEF starts, i0, Part, Construct, Function, Phase
<1>16. /\ Part(1, i0) = A /\ Part(i0, Construct(i0)) = B
       /\ Part(Construct(i0) + 2, Function(i0)) = C
       /\ Part(Function(i0) + 1, Phase(i0)) = D
  <2>1. /\ Construct(a + 2) + 2 = a + b + 5 /\ Function(a + 2) + 1 = a + b + c + 7
    BY <1>2, <1>6, Zenon
  <2> QED
    BY <1>6, <1>10, <1>14, <2>1, Zenon
<1> QED
  BY <1>1, <1>15, <1>16, Zenon DEF ReadsAs

\* A text without t, among the tokens of a diagnostic.
LEMMA PlainText ==
  ASSUME NEW S, NEW A, A \in Seq(ToSet(A)), ToSet(A) \subseteq S, NEW a, a = Len(A), NEW t, t \notin ToSet(A)
  PROVE  Text(S, A, a) /\ FreeOf(A, 0, a, t)
<1>1. a \in Nat /\ A \in Seq(S)
  BY SeqMonotonic
<1>2. ToSet(A) = {A[i] : i \in 1 .. a}
  BY DEF ToSet
<1>3. \A i \in 0 + 1 .. 0 + a : A[i] # t
  BY <1>1, <1>2
<1> QED
  BY <1>1, <1>3, Zenon DEF Text, FreeOf

\* The same, from the texts.
LEMMA TextsReadBack ==
  ASSUME NEW A, A \in Seq(ToSet(A)), "tick" \notin ToSet(A), A # << >>,
         NEW B, B \in Seq(ToSet(B)), "tick" \notin ToSet(B),
         NEW C, C \in Seq(ToSet(C)), "tick" \notin ToSet(C),
         NEW D, D \in Seq(ToSet(D)), ")" \notin ToSet(D)
  PROVE  /\ parse_cause(<<STRUCTURED_REASON>> \o A \o <<"tick">> \o B \o <<"tick", "in", "tick">>
                          \o C \o <<"tick", "declined by">> \o D \o <<")">>)
              = [category |-> A, construct |-> B, function |-> C, phase |-> D]
         /\ (<<STRUCTURED_REASON>> \o A \o <<"tick">> \o B \o <<"tick", "in", "tick">>
               \o C \o <<"tick", "declined by">> \o D \o <<")">>)[1] = STRUCTURED_REASON
<1> DEFINE m == <<STRUCTURED_REASON>> \o A \o <<"tick">> \o B \o <<"tick", "in", "tick">>
                  \o C \o <<"tick", "declined by">> \o D \o <<")">>
           S == {STRUCTURED_REASON, "tick", "in", "declined by", ")"}
                  \cup ToSet(A) \cup ToSet(B) \cup ToSet(C) \cup ToSet(D)
<1>1. PICK a, b, c, d : a = Len(A) /\ b = Len(B) /\ c = Len(C) /\ d = Len(D)
  OBVIOUS
<1>2. a \in Nat /\ a # 0 /\ b \in Nat /\ c \in Nat /\ d \in Nat
  BY <1>1
<1>3. Text(S, A, a) /\ Text(S, B, b) /\ Text(S, C, c) /\ Text(S, D, d)
  <2>1. ToSet(A) \subseteq S /\ ToSet(B) \subseteq S /\ ToSet(C) \subseteq S /\ ToSet(D) \subseteq S
    BY Zenon
  <2> HIDE DEF S
  <2> QED
    BY <1>1, <2>1, PlainText, Zenon
<1>4. /\ Text(S, <<STRUCTURED_REASON>>, 1) /\ Text(S, <<"tick">>, 1) /\ Text(S, <<"tick", "in", "tick">>, 3)
      /\ Text(S, <<"tick", "declined by">>, 2) /\ Text(S, <<")">>, 1)
  BY DEF Text
<1>5. Plainly(A, a, B, b, C, c, D, d)
  <2>1. ToSet(A) \subseteq S /\ ToSet(B) \subseteq S /\ ToSet(C) \subseteq S /\ ToSet(D) \subseteq S
    BY Zenon
  <2> HIDE DEF S
  <2>2. /\ FreeOf(A, 0, a, "tick") /\ FreeOf(B, 0, b, "tick")
        /\ FreeOf(C, 0, c, "tick") /\ FreeOf(D, 0, d, ")")
    BY <1>1, <2>1, PlainText, Zenon
  <2> QED
    BY <2>2, Zenon DEF Plainly
<1>6. /\ Text(S, m, a + b + c + d + 8)
      /\ Placed(m, <<STRUCTURED_REASON>>, A, a, <<"tick">>, B, b, <<"tick", "in", "tick">>, C, c,
                <<"tick", "declined by">>, D, d, <<")">>)
  <2> HIDE DEF S
  <2> QED
    BY <1>2, <1>3, <1>4, NineJoined, Zenon
<1>7. Laid(m, A, a, B, b, C, c, D, d)
  <2> HIDE DEF m
  <2> QED
    BY <1>6 DEF Placed, Laid, StandsAt
<1> QED
  <2> HIDE DEF m, S
  <2>1. ReadsAs(m, A, B, C, D)
    BY <1>2, <1>3, <1>5, <1>6, <1>7, ReadBack, Zenon
  <2>2. m[1] = STRUCTURED_REASON
    BY <1>7, Zenon DEF Laid
  <2> QED
    BY <2>1, <2>2, Zenon DEF m, ReadsAs

\* What the C backend fills in is rendered behind the code of the refusal, and
\* reads back.
LEMMA RefusalRendered ==
  ASSUME NEW cause, Refusal(cause)
  PROVE  /\ parse_cause(render_cause(cause)) = cause
         /\ render_cause(cause)[1] = STRUCTURED_REASON
<1>1. PICK A, B, C, D : A = cause["category"] /\ B = cause["construct"] /\ C = cause["function"] /\ D = cause["phase"]
  OBVIOUS
<1>2. cause = [category |-> A, construct |-> B, function |-> C, phase |-> D]
  <2>1. cause = [field \in {"category", "construct", "function", "phase"} |-> cause[field]]
    BY Zenon DEF Refusal, CAUSE_FIELDS
  <2> QED
    BY <1>1, <2>1
<1>3. /\ A \in Seq(ToSet(A)) /\ "tick" \notin ToSet(A) /\ A # << >>
      /\ B \in Seq(ToSet(B)) /\ "tick" \notin ToSet(B)
      /\ C \in Seq(ToSet(C)) /\ "tick" \notin ToSet(C)
      /\ D \in Seq(ToSet(D)) /\ ")" \notin ToSet(D)
  <2>1. /\ "category" \in CAUSE_FIELDS /\ "construct" \in CAUSE_FIELDS
        /\ "function" \in CAUSE_FIELDS /\ "phase" \in CAUSE_FIELDS
    BY DEF CAUSE_FIELDS
  <2>2. \A field \in CAUSE_FIELDS :
          cause[field] \in Seq(ToSet(cause[field])) /\ "tick" \notin ToSet(cause[field])
    BY Zenon DEF Refusal
  <2>3. cause.category # << >> /\ ")" \notin ToSet(cause.phase)
    BY Zenon DEF Refusal
  <2>4. cause.category = A /\ cause.phase = D
    BY <1>2
  <2> QED
    BY <1>1, <2>1, <2>2, <2>3, <2>4, Zenon
<1>4. render_cause(cause) = <<STRUCTURED_REASON>> \o A \o <<"tick">> \o B \o <<"tick", "in", "tick">>
                              \o C \o <<"tick", "declined by">> \o D \o <<")">>
  <2>1. cause.category = A /\ cause.construct = B /\ cause.function = C /\ cause.phase = D
    BY <1>2
  <2> QED
    BY <2>1, Zenon DEF render_cause
<1>5. /\ parse_cause(<<STRUCTURED_REASON>> \o A \o <<"tick">> \o B \o <<"tick", "in", "tick">>
                      \o C \o <<"tick", "declined by">> \o D \o <<")">>)
          = [category |-> A, construct |-> B, function |-> C, phase |-> D]
      /\ (<<STRUCTURED_REASON>> \o A \o <<"tick">> \o B \o <<"tick", "in", "tick">>
            \o C \o <<"tick", "declined by">> \o D \o <<")">>)[1] = STRUCTURED_REASON
  BY <1>3, TextsReadBack, Zenon
<1>6. parse_cause(render_cause(cause)) = [category |-> A, construct |-> B, function |-> C, phase |-> D]
  BY <1>4, <1>5, Zenon
<1>7. render_cause(cause)[1] = STRUCTURED_REASON
  BY <1>4, <1>5, Zenon
<1> QED
  BY <1>2, <1>6, <1>7, Zenon

\* parse_cause undoes render_cause for every refusal of the C backend: however
\* long its texts are and whatever words they are made of, the diagnostic reads
\* back as exactly the cause it was rendered from.
THEOREM RefusalReadsBack ==
  ASSUME NEW cause, Refusal(cause)
  PROVE  parse_cause(render_cause(cause)) = cause
BY RefusalRendered, Zenon

\* A diagnostic of one token has no cause to read.
LEMMA CodeReadsNone == ASSUME NEW x PROVE parse_cause(<<x>>) = NoCause
BY DEF parse_cause

\* What parse_cause returns, when it finds a cause, is a record of the four fields.
LEMMA ReadIsRecord ==
  ASSUME NEW m, parse_cause(m) # NoCause
  PROVE  parse_cause(m) = [field \in CAUSE_FIELDS |-> parse_cause(m)[field]]
<1>1. PICK A, B, C, D : parse_cause(m) = [category |-> A, construct |-> B, function |-> C, phase |-> D]
  BY Zenon DEF parse_cause
<1>2. [category |-> A, construct |-> B, function |-> C, phase |-> D]
        = [field \in CAUSE_FIELDS |-> [category |-> A, construct |-> B, function |-> C, phase |-> D][field]]
  BY DEF CAUSE_FIELDS
<1> QED
  BY <1>1, <1>2, Zenon

----------------------------------------------------------------------------
(* The debt.                                                               *)

\* A result is what a stage recorded.
ResultInv ==
  \A f \in Fixture : result[f] \in {NoFailure} \cup Raised \/ \E stage \in StageNames : result[f] = Failure(f, stage)

LEMMA SameFailures == ASSUME world' = world PROVE \A f, stage : Failure(f, stage)' = Failure(f, stage)
BY DEF Failure, Diagnostic

LEMMA InitResultInv == Init => ResultInv
BY DEF Init, ResultInv

LEMMA NextResultInv ==
  ASSUME SweepInv, ResultInv, [Next]_vars
  PROVE  ResultInv'
<1>1. CASE UNCHANGED <<world, result>>
  BY <1>1, SameFailures DEF ResultInv
<1>2. ASSUME NEW f \in Fixture, RunStage(f) PROVE ResultInv'
  <2> DEFINE stage == Stages(f)[at[f]]
             raises == Tool(stage) = world.missing
             fails == ~raises /\ StageFails(f, stage)
  <2>1. /\ st[f] = "stage" /\ world' = world
        /\ result' = [result EXCEPT ![f] = CASE raises -> NoTool [] fails -> Failure(f, stage) [] OTHER -> @]
    BY <1>2 DEF RunStage
  <2>2. stage \in StageNames
    BY <2>1, StageIsNamed
  <2> HIDE DEF stage, raises, fails
  <2>3. /\ \A g \in Fixture \ {f} : result'[g] = result[g]
        /\ result'[f] = NoTool \/ result'[f] = Failure(f, stage) \/ result'[f] = result[f]
    BY <2>1 DEF SweepInv, SweepTypes
  <2> QED
    BY <2>1, <2>2, <2>3, SameFailures DEF ResultInv, Raised
<1>3. ASSUME NEW f \in Fixture, WriteFails(f) PROVE ResultInv'
  <2>1. /\ world' = world /\ result'[f] = NoWrite
        /\ \A g \in Fixture \ {f} : result'[g] = result[g]
    BY <1>3 DEF WriteFails, SweepInv, SweepTypes
  <2> QED
    BY <2>1, SameFailures DEF ResultInv, Raised
<1> QED
  BY <1>1, <1>2, <1>3 DEF Next, SkipSweep, SweepCrash, Report, StripRound, StripReturn, Start, StripBegin,
                    StripEnd, StripEndFails, StageWriteFails, vars, sweepVars

\* An empty text contains no reason.
LEMMA NothingWithin == \A reason : ~Within(reason, << >>)
BY DEF Within

\* What the manifest records, as far as the C sweep and its gate pin it.
Pinned(f) ==
  /\ result[f].kind = world.entry[f].stage
  /\ Within(world.entry[f].reason, Diagnostic(f))
  /\ world.entry[f].reason = STRUCTURED_REASON =>
       /\ world.back[f].reason = STRUCTURED_REASON
       /\ world.back[f].cause = world.entry[f].cause

\* An entry that the report does not complain about records what the compiler did.
LEMMA NotDrifted ==
  ASSUME SweepInv, ResultInv, ManifestValid, NEW f \in Fixture, HasEntry(f),
         ~failure_mismatch(world.entry[f], result[f].kind, result[f].message)
  PROVE  Pinned(f)
<1> DEFINE entry == world.entry[f]
           message == result[f].message
           cause == world.back[f].cause
<1>1. /\ entry.stage = result[f].kind /\ Within(entry.reason, message)
      /\ entry.cause # NoCause => /\ parse_cause(message) # NoCause
                                  /\ \A field \in DOMAIN entry.cause :
                                       parse_cause(message)[field] = entry.cause[field]
  BY Zenon DEF failure_mismatch
<1>2. message = Diagnostic(f)
  <2>1. NoFailure.message = << >> /\ NoTool.message = << >> /\ NoWrite.message = << >>
    BY DEF NoFailure, NoTool, NoWrite
  <2>2. result[f] \notin {NoFailure} \cup Raised
    BY <1>1, <2>1, NothingWithin DEF Raised
  <2>3. PICK stage \in StageNames : result[f] = Failure(f, stage)
    BY <2>2, Zenon DEF ResultInv
  <2>4. message = Diagnostic(f) \/ message = <<OtherReason>>
    BY <2>3 DEF Failure
  <2>5. ~Within(entry.reason, <<OtherReason>>)
    BY CorpusSweepAssumption, Zenon DEF SweepInv, SweepTypes
  <2> QED
    BY <1>1, <2>4, <2>5, Zenon
<1>3. require_cause(entry)
  BY Zenon DEF ManifestValid
<1>4. cause = NoCause \/ (world.back[f].reason = STRUCTURED_REASON /\ Refusal(cause))
  BY CorpusSweepAssumption, Zenon DEF SweepInv, SweepTypes
<1>5. ASSUME entry.reason = STRUCTURED_REASON
      PROVE  world.back[f].reason = STRUCTURED_REASON /\ cause = entry.cause
  <2>1. /\ entry.cause # NoCause /\ DOMAIN entry.cause = CAUSE_FIELDS
        /\ parse_cause(render_cause(entry.cause)) = entry.cause
    BY <1>3, <1>5, Zenon DEF require_cause, CauseWellFormed
  <2>2. cause # NoCause
    <3> SUFFICES ASSUME cause = NoCause PROVE FALSE
      OBVIOUS
    <3>1. message = <<world.back[f].reason>>
      BY <1>2, Zenon DEF Diagnostic
    <3>2. parse_cause(message) = NoCause
      BY <3>1, CodeReadsNone, Zenon
    <3> QED
      BY <1>1, <2>1, <3>2, Zenon
  <2>3. Refusal(cause) /\ world.back[f].reason = STRUCTURED_REASON
    BY <1>4, <2>2, Zenon
  <2>4. message = render_cause(cause)
    BY <1>2, <2>2, Zenon DEF Diagnostic
  <2>5. parse_cause(message) = cause
    BY <2>3, <2>4, RefusalRendered, Zenon
  <2>6. entry.cause = [field \in CAUSE_FIELDS |-> entry.cause[field]]
    BY <2>1, ReadIsRecord, Zenon
  <2>7. cause = [field \in CAUSE_FIELDS |-> cause[field]]
    BY <2>3, Zenon DEF Refusal
  <2>8. \A field \in CAUSE_FIELDS : cause[field] = entry.cause[field]
    BY <1>1, <2>1, <2>5, Zenon
  <2>9. cause = entry.cause
    BY <2>6, <2>7, <2>8, Zenon
  <2> QED
    BY <2>3, <2>9, Zenon
<1> QED
  BY <1>1, <1>2, <1>5, Zenon DEF Pinned

\* The debt is pinned: over any corpus, with any manifest that its cheap gate
\* accepts, a C sweep that passes has seen every fixture of the manifest refused
\* at the recorded stage with a diagnostic that contains the recorded code; where
\* that is the C backend's refusal, with that very code and for exactly the
\* recorded cause; and every allowlisted fixture fail.
THEOREM DebtPinned == Spec => []DebtIsPinned
<1>1. SweepInv /\ ResultInv => DebtIsPinned
  <2> SUFFICES ASSUME SweepInv, ResultInv, world.sweep = "emit", verdict = "PASS", ManifestValid,
                      NEW f \in Fixture
               PROVE  /\ (HasEntry(f) /\ f \notin world.allow) => Pinned(f)
                      /\ f \in world.allow => result[f] # NoFailure
    BY Zenon DEF DebtIsPinned, Pinned
  <2>1. EmitReport = {}
    BY DEF SweepInv, PassInv, Complaints
  <2>2. f \notin Failed => ~HasEntry(f) /\ f \notin OutOfScope
    BY <2>1 DEF EmitReport
  <2>3. f \in Failed \ OutOfScope /\ HasEntry(f) =>
          ~failure_mismatch(world.entry[f], result[f].kind, result[f].message)
    BY <2>1 DEF EmitReport
  <2>4. ASSUME HasEntry(f), f \notin world.allow PROVE Pinned(f)
    BY <2>2, <2>3, <2>4, NotDrifted, Zenon DEF OutOfScope
  <2> QED
    BY <2>2, <2>4, Zenon DEF OutOfScope, Failed
<1> QED
  BY <1>1, InitSweepInv, NextSweepInv, InitResultInv, NextResultInv, PTL DEF Spec

============================================================================
