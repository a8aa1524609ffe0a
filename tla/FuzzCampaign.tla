---------------------------- MODULE FuzzCampaign ----------------------------
(***************************************************************************)
(* One invocation of tools/fuzz/mcfuzz.py: `run`, `corpus` or `shrink`.    *)
(*                                                                         *)
(* `run` gives the seeds to a pool of Jobs worker threads; the main thread *)
(* takes their answers in seed order.  A finding that says HANGS may be    *)
(* the load of the pool, so it is put aside and the seed is run again when *)
(* the pool is empty.  Findings are then bucketed by signature and, on     *)
(* request, the first of each bucket is shrunk.                            *)
(*                                                                         *)
(* world[s] is what is wrong with the compiler on the programs of seed s   *)
(* (FuzzOracles).  An initial state picks the invocation, the installed    *)
(* tools and the worlds.  The machine is taken to be quiet when the pool   *)
(* is: other processes that load it would make a second run late too.      *)
(***************************************************************************)
EXTENDS FuzzOracles, ShrinkSource

CONSTANTS NSeeds, Jobs, Invocations, ToolSets(_), Worlds(_),
          TimedCalls(_)   \* the calls with a deadline that an oracle makes

ASSUME FuzzCampaignAssumption ==
  /\ NSeeds \in Nat \ {0} /\ Jobs \in Nat \ {0}
  /\ \A g \in Invocations : /\ g.cmd \in {"run", "corpus", "shrink"}
                            /\ g.oracle \in ORACLES /\ (g.cmd = "corpus" => g.oracle = "differential")
                            /\ g.shrink \in BOOLEAN /\ (g.shrink => g.cmd = "run")

VARIABLES
  args,      \* [cmd, oracle, trapping, shrink]
  tools,     \* the installed tools and sanitizer runtimes
  world,     \* seed -> set of defects
  quiet,     \* seed -> what run_one and the oracles answer on a quiet machine
  phase,     \* "start", "pool", "recheck", "triage", "shrink", "corpus",
             \* "minimize", "done"
  started,   \* seeds 1 .. started were taken by a worker
  answers,   \* seed -> its worker's answer, Go while there is none
  consumed,  \* answers of seeds 1 .. consumed were taken by the main thread
  suspects,  \* seeds to run again
  fails,     \* the findings reported so far: [seed, finding, confirmed]
  repro,     \* what auto-shrink did with the records fails[1 .. Len(repro)]
  verdict    \* "", "SKIP", "PASS", "FAIL"; "EXIT 0" for `shrink`

poolVars     == <<started, answers, consumed>>
invocation   == <<args, tools, world, quiet>>
campaignVars == <<invocation, phase, started, answers, consumed, suspects, fails,
                  repro, verdict>>
vars         == <<campaignVars, shrinkVars>>

Seeds == 1 .. NSeeds
AllTools == {"clang", "llc", "ubsan", "asan"}

Init ==
  /\ args \in Invocations
  /\ tools \in ToolSets(args)
  /\ world \in Worlds(args)
  /\ quiet = [s \in Seeds |->
                [run      |-> RunOne(args.oracle, world[s], NoneLate),
                 oracle   |-> OracleOnSource(args.oracle, world[s], NoneLate),
                 sanitize |-> OracleSanitize(world[s])]]
  /\ phase = "start"
  /\ started = 0 /\ answers = [s \in Seeds |-> Go] /\ consumed = 0
  /\ suspects = << >> /\ fails = << >> /\ repro = << >> /\ verdict = ""
  /\ ShrinkInit

Record(s, f, confirmed) == [seed |-> s, finding |-> f, confirmed |-> confirmed]

-----------------------------------------------------------------------------
\* A missing tool or sanitizer runtime: the run is skipped, with exit code 0.
Skips ==
  \/ NeedsClang(args.oracle, args.cmd) /\ "clang" \notin tools
  \/ NeedsLlc(args.oracle, args.cmd) /\ "llc" \notin tools
  \/ args.cmd = "run" /\ args.oracle = "sanitize" /\ "ubsan" \notin tools
  \/ args.cmd = "run" /\ args.oracle = "asan" /\ "asan" \notin tools

Start ==
  /\ phase = "start"
  /\ \/ /\ Skips
        /\ phase' = "done" /\ verdict' = "SKIP"
     \/ /\ ~Skips
        /\ phase' = CASE args.cmd = "corpus" -> "corpus"
                      [] args.cmd = "shrink" -> "minimize"
                      [] OTHER               -> "pool"
        /\ UNCHANGED verdict
  /\ UNCHANGED <<invocation, poolVars, suspects, fails, repro, shrinkVars>>

\* The pool: a worker takes the next seed ...
Running == {s \in 1 .. started : answers[s] = Go}

Take ==
  /\ phase = "pool" /\ started < NSeeds /\ Cardinality(Running) < Jobs
  /\ started' = started + 1
  /\ UNCHANGED <<invocation, phase, answers, consumed, suspects, fails, repro,
                 verdict, shrinkVars>>

\* ... and finishes it, unless a call without a timeout hangs.  A timed call
\* may miss its deadline because the pool loads the machine.
Finish(s) ==
  /\ phase = "pool" /\ s \in Running
  /\ \/ /\ quiet[s].run # Stuck
        /\ answers' = [answers EXCEPT ![s] = quiet[s].run]
     \/ \E late \in TimedCalls(args.oracle) :
           /\ RunOne(args.oracle, world[s], late).kind = "hang"
           /\ answers' = [answers EXCEPT ![s] = RunOne(args.oracle, world[s], late)]
  /\ UNCHANGED <<invocation, phase, started, consumed, suspects, fails, repro,
                 verdict, shrinkVars>>

\* Mutant of Consume: a timeout is reported at once.
ConsumeAtOnce ==
  /\ phase = "pool" /\ consumed < NSeeds /\ answers[consumed + 1] # Go
  /\ LET s == consumed + 1
     IN  fails' = IF answers[s] = None THEN fails ELSE Append(fails, Record(s, answers[s], FALSE))
  /\ consumed' = consumed + 1
  /\ UNCHANGED <<invocation, phase, started, answers, suspects, repro, verdict, shrinkVars>>

\* The main thread takes the answer of the next seed (ex.map keeps the order).
Consume ==
  /\ phase = "pool" /\ consumed < NSeeds /\ answers[consumed + 1] # Go
  /\ LET s == consumed + 1
         r == answers[s]
     IN  \/ /\ r = None
            /\ UNCHANGED <<suspects, fails>>
         \/ /\ r.kind = "hang"
            /\ suspects' = Append(suspects, s) /\ UNCHANGED fails
         \/ /\ r # None /\ r.kind # "hang"
            /\ fails' = Append(fails, Record(s, r, FALSE)) /\ UNCHANGED suspects
  /\ consumed' = consumed + 1
  /\ UNCHANGED <<invocation, phase, started, answers, repro, verdict, shrinkVars>>

PoolDrained ==
  /\ phase = "pool" /\ consumed = NSeeds
  /\ phase' = "recheck"
  /\ UNCHANGED <<invocation, poolVars, suspects, fails, repro, verdict, shrinkVars>>

\* Mutant of Recheck: only a timeout that repeats is kept.
RecheckHangsOnly ==
  /\ phase = "recheck" /\ suspects # << >>
  /\ LET s == Head(suspects)
         r == quiet[s].run
     IN  /\ r # Stuck
         /\ fails' = IF r.kind = "hang" THEN Append(fails, Record(s, r, TRUE)) ELSE fails
  /\ suspects' = Tail(suspects)
  /\ UNCHANGED <<invocation, phase, poolVars, repro, verdict, shrinkVars>>

\* Mutant of Recheck: the suspect is not removed.
RecheckForever ==
  /\ phase = "recheck" /\ suspects # << >>
  /\ quiet[Head(suspects)].run # Stuck
  /\ suspects' = Tail(suspects) \o <<Head(suspects)>>
  /\ UNCHANGED <<invocation, phase, poolVars, fails, repro, verdict, shrinkVars>>

\* A suspect is run again, alone: a timeout that repeats is confirmed, another
\* finding is reported as it is, and a clean answer drops the suspicion.
Recheck ==
  /\ phase = "recheck" /\ suspects # << >>
  /\ LET s == Head(suspects)
         r == quiet[s].run
     IN  /\ r # Stuck
         /\ fails' = IF r = None THEN fails
                     ELSE Append(fails, Record(s, r, r.kind = "hang"))
  /\ suspects' = Tail(suspects)
  /\ UNCHANGED <<invocation, phase, poolVars, repro, verdict, shrinkVars>>

Summarise ==
  /\ phase = "recheck" /\ suspects = << >>
  /\ \/ /\ fails = << >>
        /\ phase' = "done" /\ verdict' = "PASS"
     \/ /\ fails # << >> /\ args.shrink
        /\ phase' = "triage" /\ UNCHANGED verdict
     \/ /\ fails # << >> /\ ~args.shrink
        /\ phase' = "done" /\ verdict' = "FAIL"
  /\ UNCHANGED <<invocation, poolVars, suspects, fails, repro, shrinkVars>>

-----------------------------------------------------------------------------
(* Auto-shrink: the first record of every signature.                       *)

Signature(i) == FindingSignature(fails[i].finding)
k == Len(repro) + 1

\* Mutant of Seen: one record in all.
SeenAny(i) == i > 1

Seen(i) == \E j \in 1 .. i - 1 : Signature(j) = Signature(i)

\* _source_for_auto_shrink: these oracles do not judge the run's own source.
HasSource(o) == o \notin {"reference", "floatbits"}

\* The oracle alone on the whole source, without run_one's `mcc check`.
Original(i) == quiet[fails[i].seed].oracle
Reproduces(i) == IsFinding(Original(i)) /\ FindingSignature(Original(i)) = Signature(i)

SkipRecord ==
  /\ phase = "triage" /\ k <= Len(fails)
  /\ \/ /\ Seen(k)
        /\ repro' = Append(repro, "seen")
     \/ /\ ~Seen(k) /\ ~HasSource(args.oracle)
        /\ repro' = Append(repro, "skipped")
     \/ /\ ~Seen(k) /\ HasSource(args.oracle) /\ Original(k) # Stuck /\ ~Reproduces(k)
        /\ repro' = Append(repro, "skipped")
  /\ UNCHANGED <<invocation, phase, poolVars, suspects, fails, verdict, shrinkVars>>

\* A finding about a program that the oracle makes from the seed alone: it is
\* there whatever the source is, one that compiles or one that does not (no
\* lines are left), so every trial shows it.
OwnPrograms == {"hostile", "variant", "float", "ref"}
Blind(s) ==
  LET own == {d \in world[s] : d[2] \in OwnPrograms}
  IN  \A trial \in {{}, {<<"emit-c", "base", "reject">>}} :
        OracleOnSource(args.oracle, own \cup trial, NoneLate) = quiet[s].oracle

BeginShrink ==
  /\ phase = "triage" /\ k <= Len(fails)
  /\ ~Seen(k) /\ HasSource(args.oracle) /\ Reproduces(k)
  /\ phase' = "shrink"
  /\ ShrinkBegin /\ (Blind(fails[k].seed) => shows' = SUBSET Source)
  /\ UNCHANGED <<invocation, poolVars, suspects, fails, repro, verdict>>

ShrinkLoop == phase \in {"shrink", "minimize"} /\ ShrinkSteps /\ UNCHANGED campaignVars

WriteRepro ==
  /\ phase = "shrink" /\ shrinker = "done"
  /\ repro' = Append(repro, "minimized")
  /\ phase' = "triage"
  /\ UNCHANGED <<invocation, poolVars, suspects, fails, verdict, shrinkVars>>

WriteTriageFindings ==
  /\ phase = "triage" /\ k > Len(fails)
  /\ phase' = "done" /\ verdict' = "FAIL"
  /\ UNCHANGED <<invocation, poolVars, suspects, fails, repro, shrinkVars>>

-----------------------------------------------------------------------------
(* The command `shrink`: the program of one seed, if the oracle alone finds *)
(* something, is reduced with the signature of what was found.             *)

ShrinkSeed ==
  /\ phase = "minimize" /\ shrinker = "idle"
  /\ \/ /\ quiet[1].oracle = None
        /\ phase' = "done" /\ verdict' = "EXIT 0"
        /\ UNCHANGED shrinkVars
     \/ /\ IsFinding(quiet[1].oracle)
        /\ ShrinkBegin /\ (Blind(1) => shows' = SUBSET Source)
        /\ UNCHANGED <<phase, verdict>>
  /\ UNCHANGED <<invocation, poolVars, suspects, fails, repro>>

PrintMinimal ==
  /\ phase = "minimize" /\ shrinker = "done"
  /\ phase' = "done" /\ verdict' = "EXIT 0"
  /\ UNCHANGED <<invocation, poolVars, suspects, fails, repro, shrinkVars>>

-----------------------------------------------------------------------------
(* The regression corpus: every file through both oracles, one at a time.  *)

\* What the oracles in `checks` say of a file: differential, and sanitize if
\* its runtime is there.
CorpusAnswers(f) ==
  {quiet[f].oracle} \cup (IF "ubsan" \in tools THEN {quiet[f].sanitize} ELSE {})

\* The findings so far, and the answer r about file f if it is one.
Regression(found, f, r) == IF r = None THEN found ELSE Append(found, Record(f, r, FALSE))

ReplayFile ==
  /\ phase = "corpus" /\ consumed < NSeeds
  /\ LET f == consumed + 1
         differential == Regression(fails, f, quiet[f].oracle)
     IN  /\ Stuck \notin CorpusAnswers(f)
         /\ fails' = IF "ubsan" \in tools THEN Regression(differential, f, quiet[f].sanitize)
                     ELSE differential
  /\ consumed' = consumed + 1
  /\ UNCHANGED <<invocation, phase, started, answers, suspects, repro, verdict, shrinkVars>>

CorpusDone ==
  /\ phase = "corpus" /\ consumed = NSeeds
  /\ phase' = "done"
  /\ verdict' = IF fails = << >> THEN "PASS" ELSE "FAIL"
  /\ UNCHANGED <<invocation, poolVars, suspects, fails, repro, shrinkVars>>

-----------------------------------------------------------------------------
Main == \/ Start \/ Consume \/ PoolDrained \/ Recheck \/ Summarise
        \/ SkipRecord \/ BeginShrink \/ ShrinkLoop \/ WriteRepro \/ WriteTriageFindings
        \/ ReplayFile \/ CorpusDone \/ ShrinkSeed \/ PrintMinimal

Next == Main \/ Take \/ \E s \in Seeds : Finish(s)

\* The operating system runs every thread that can run, and a subprocess that
\* is not hung ends.
Fairness == WF_vars(Main) /\ WF_vars(Take) /\ \A s \in Seeds : WF_vars(Finish(s))

Spec == Init /\ [][Next]_vars /\ Fairness

-----------------------------------------------------------------------------
\* The answers a quiet machine would give about seed (or file) s.
QuietAnswers(s) ==
  CASE args.cmd = "run"    -> {quiet[s].run}
    [] args.cmd = "shrink" -> {quiet[s].oracle}
    [] args.cmd = "corpus" -> CorpusAnswers(s)

(***************************************************************************)
(* Nothing is reported that a quiet machine would not show: a deadline     *)
(* missed under the load of the pool never becomes a finding, neither as a *)
(* hang nor by hiding or changing the finding of its seed.                 *)
(***************************************************************************)
ReportedIsReal ==
  \A i \in DOMAIN fails : fails[i].finding \in QuietAnswers(fails[i].seed)

(***************************************************************************)
(* The exit code is right: 1 if and only if some seed has a finding.  No   *)
(* finding is lost to a missed deadline before it, to the order in which   *)
(* the workers end, or to the second run of a suspect; and a missing tool  *)
(* is a SKIP, never a PASS.                                                *)
(***************************************************************************)
VerdictExact ==
  verdict \in {"PASS", "FAIL"} =>
    (verdict = "FAIL") = (\E s \in Seeds : \E r \in QuietAnswers(s) : IsFinding(r))

(***************************************************************************)
(* Triage leaves no bucket without a minimized program: if the oracle      *)
(* alone, given the source, finds again what a record says, then a record  *)
(* of its signature was shrunk, however many records of that or another    *)
(* signature came before it.                                               *)
(***************************************************************************)
EveryBucketShrunk ==
  phase = "done" /\ verdict = "FAIL" /\ args.shrink /\ HasSource(args.oracle) =>
    \A i \in DOMAIN fails :
       Original(i) = fails[i].finding =>
         \E j \in DOMAIN repro : repro[j] = "minimized" /\ Signature(j) = Signature(i)

(***************************************************************************)
(* "Keep auto-shrink to source-preserving run_one oracles" (comment of     *)
(* _source_for_auto_shrink): a program is minimized only for a finding     *)
(* that is about the run's source, and not about a program that the oracle *)
(* makes from the seed.                                                    *)
(***************************************************************************)
ShrinksItsSource ==
  \A j \in DOMAIN repro : repro[j] = "minimized" => ~Blind(fails[j].seed)

\* The oracles that the gates of build/fuzz.zig run on programs of this mode.
FleetOracles(trapping) ==
  IF trapping THEN {"differential", "trapsite", "reference"} ELSE ORACLES \ {"trapsite"}

BothReject(w, p) == EmitCObj(w, p) = "fail" /\ Failed(w, "emit-llvm", p)

\* What no oracle of the fleet looks for.  On trapping programs it only builds
\* and runs; on the others the sanitizers and the determinism oracle judge the
\* base program alone, a panic on the ill-typed program counts as its
\* rejection, nothing asks for trap helpers or kinds, and the listings are not
\* compared with the program but with one another, and only in part.
Overlooked(d, trapping) ==
  \/ d[3] \in {"nondeterministic", "ub", "memory"} /\ (trapping \/ d[2] # "base")
  \/ trapping /\ ~(/\ d[1] \in {"check", "mir", "emit-c", "emit-llvm", "clang", "llc", "link-c",
                                "link-l", "exe-c", "exe-l", "front-end"}
                   /\ d[2] \in {"base", "ref", "all"})
  \/ ~trapping /\ \/ d \in {<<"check", "bad", "panic">>, <<"emit-c", "base", "no-helper">>,
                            <<"exe-l", "base", "kind">>}
                  \/ d \in {"lower-mir"} \X {"rows"} \X {"unrecorded", "moved"}
                  \/ d \in {"facts"} \X {"rows"} \X {"lost", "unrecorded", "repeated"}

\* What an oracle passes over because of w: a float_bits or reference program
\* that does not check or build (for the former: with either backend), a
\* trapping program that both backends reject, and two sides that are only
\* compared with each other when both are wrong.
PassedOver(d, w, trapping) ==
  \/ d[2] = "float" /\ \/ Failed(w, "check", "float") \/ BothReject(w, "float")
                       \/ \A exe \in {"exe-c", "exe-l"} : Execute(w, exe, "float", "-O0") # Meaning(w, "float")
  \/ d[2] \in {"ref", "all"} /\ (Failed(w, "check", "ref") \/ CompileRunC(w, "ref", "-O0") = NotBuilt)
  \/ trapping /\ d[1] # "check" /\ d[2] = "base" /\ BothReject(w, "base")
  \/ d[2] = "rows" /\ \A stage \in {"facts", "inspect-ir"} : Rows(w, stage) # Sites

Noticed(w, trapping) == \E o \in FleetOracles(trapping) : RunOne(o, w, NoneLate) # None

(***************************************************************************)
(* Every oracle returns silently on failures that are "another oracle's    *)
(* concern", and some oracle takes each of them up: a defect that the      *)
(* fleet looks for makes some gate report a finding (or hang), whatever    *)
(* else is wrong with the compiler on the programs of that seed.  What it  *)
(* gives up for another defect (PassedOver) and what it does not look for  *)
(* (Overlooked) is named above; the latter does go unnoticed, each alone.  *)
(* (Worlds never change: they are judged at the start.)                    *)
(***************************************************************************)
FleetCatches ==
  phase = "start" => \A s \in Seeds :
    LET trait    == world[s] \cap {<<"prog", "base", "traps">>}
        defects  == world[s] \ trait
        trapping == args.trapping
    IN  /\ (\E d \in defects : ~Overlooked(d, trapping) /\ ~PassedOver(d, world[s], trapping))
             => Noticed(world[s], trapping)
        /\ \A d \in defects : Overlooked(d, trapping) => ~Noticed(trait \cup {d}, trapping)

(***************************************************************************)
(* An invocation ends, unless a call that has no timeout hangs: the pool,  *)
(* the second runs and the shrinker's walks all come to an end.            *)
(***************************************************************************)
NoUntimedHang ==
  \A s \in Seeds : Stuck \notin QuietAnswers(s) \cup {quiet[s].oracle}
Ends == (phase = "start" /\ NoUntimedHang) ~> phase = "done"
=============================================================================
