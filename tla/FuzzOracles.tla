---------------------------- MODULE FuzzOracles ----------------------------
(***************************************************************************)
(* The oracles of the compiler fuzzer (tools/fuzz/mcfuzz.py): what each    *)
(* one reports about a generated program, given everything that is wrong   *)
(* with the compiler on it.                                                *)
(*                                                                         *)
(* What is wrong is a set of defects <<tool, program, how>>: the tool (an  *)
(* mcc stage, clang, llc, the linker, a produced binary, a row of an       *)
(* emitted artifact) misbehaves in that way on that program.  One seed has *)
(* several programs: the generated one ("base"), its byte mutation         *)
(* ("mutated"), a grammar-hostile input ("hostile"), the program with an   *)
(* ill-typed statement injected ("bad"), the formatted program ("fmt"),    *)
(* the helper-extracted variant ("variant"), the float_bits program        *)
(* ("float") and the reference interpreter's program ("ref").              *)
(*                                                                         *)
(* An oracle is a sequence of steps, and its answer is that of the first   *)
(* step that settles it: a finding, None (a silent return), or Stuck (a    *)
(* subprocess call without a timeout that never returns).                  *)
(***************************************************************************)
EXTENDS Integers, Sequences, FiniteSets

F(kind, at, code) == [kind |-> kind, at |-> at, code |-> code]
Go    == F("go", "", "")
None  == F("none", "", "")
Stuck == F("stuck", "", "")

\* The answer of a sequence of steps: the first that is not Go, else None.
FirstOf(steps) ==
  LET settled == {i \in DOMAIN steps : steps[i] # Go}
  IN  IF settled = {} THEN None
      ELSE steps[CHOOSE i \in settled : \A j \in settled : i <= j]

Has(w, tool, p, how) == <<tool, p, how>> \in w

(***************************************************************************)
(* How a tool exits.  The MIR verifier runs ahead of both emitters, so a   *)
(* program it rejects fails `verify`, `emit-c` and `emit-llvm` alike.      *)
(***************************************************************************)
ExitHows == {"reject", "crash", "hang", "noexec", "accept", "panic"}

Exit(w, tool, p) ==
  LET hows == {h \in ExitHows : Has(w, tool, p, h)}
  IN  IF hows # {} THEN CHOOSE h \in hows : TRUE
      ELSE IF tool \in {"verify", "emit-c", "emit-llvm"} /\ Has(w, "mir", p, "reject")
           THEN "reject" ELSE "ok"

Failed(w, tool, p) == Exit(w, tool, p) \in {"reject", "crash"}

\* _first_error: the diagnostic code of an mcc rejection is part of the finding.
FirstError(w, tool, p) == IF Exit(w, tool, p) = "reject" THEN "E_CODE" ELSE ""

\* A call with no timeout: a hang is never noticed; `f` answers a nonzero exit.
Untimed(w, tool, p, f) ==
  CASE Exit(w, tool, p) = "hang" -> Stuck
    [] Failed(w, tool, p)        -> f
    [] OTHER                     -> Go

(***************************************************************************)
(* A call under a deadline (_run_required_stage, _run_mcc and its users):  *)
(* `late` is the call that crosses its deadline only because the machine   *)
(* is busy, which the oracle cannot tell from a hang.                      *)
(***************************************************************************)
RunRequiredStage(w, late, tool, p) ==
  CASE late = <<tool, p>> \/ Exit(w, tool, p) = "hang" -> F("hang", tool, "")
    [] Exit(w, tool, p) = "crash"  -> F("crash", tool, "")
    [] Exit(w, tool, p) = "reject" -> F("rejected", tool, "E_CODE")
    [] OTHER -> Go

\* Mutant of CheckNoCrash: stderr is not searched for a panic.
CheckPanicIsClean(w, late, p) ==
  CASE late = <<"check", p>> \/ Exit(w, "check", p) = "hang" -> F("hang", "check", "")
    [] Exit(w, "check", p) = "crash" -> F("crash", "check", "")
    [] OTHER -> Go

\* The same, for `mcc check` on an input it may reject (oracle_robust).
CheckNoCrash(w, late, p) ==
  CASE late = <<"check", p>> \/ Exit(w, "check", p) = "hang" -> F("hang", "check", "")
    [] Exit(w, "check", p) = "crash" -> F("crash", "check", "")
    [] Exit(w, "check", p) = "panic" -> F("panic", "check", "")
    [] OTHER -> Go

(***************************************************************************)
(* Building and running.  A binary prints a value or traps with a kind.    *)
(***************************************************************************)
EmitCObj(w, p) ==                        \* _emit_c_text, _compile_c_text_obj
  IF Exit(w, "emit-c", p) = "hang" THEN "hang"
  ELSE IF Failed(w, "emit-c", p) \/ Failed(w, "clang", p) THEN "fail" ELSE "ok"

EmitError(w, p) == FirstError(w, "emit-c", p)

\* What the program means, and what the binary of a backend makes of it.  A
\* front-end defect is shared by both backends and by every program.
Meaning(w, p) == IF Has(w, "prog", p, "traps") THEN <<"trap", "Overflow">> ELSE <<"ok", "value">>

Execute(w, exe, p, opt) ==
  CASE Has(w, exe, p, "hang")  -> <<"hang", exe>>
    [] Has(w, exe, p, "trap")  -> <<"trap", exe>>
    [] Has(w, exe, p, "wrong") -> <<"ok", exe>>
    [] Has(w, "front-end", "all", "wrong")      -> <<"ok", "folded">>
    [] opt = "-O2" /\ Has(w, "emit-c", p, "ub") -> <<"ok", "optimized">>
    [] OTHER                   -> Meaning(w, p)

\* _compile_run_c: the run, NotBuilt when a build step failed.
NotBuilt == <<"none", "">>
CompileRunC(w, p, opt) ==
  CASE EmitCObj(w, p) = "hang" -> <<"hang", p>>
    [] EmitCObj(w, p) = "fail" \/ Failed(w, "link-c", p) -> NotBuilt
    [] OTHER -> Execute(w, "exe-c", p, opt)

\* Two runs compared: by exit status, and by output when both exited with 0.
CompareRuns(family, a, b) ==
  CASE "hang" \in {a[1], b[1]} -> Stuck
    [] a[1] # b[1]             -> F(family, "status", "")
    [] a[1] = "ok" /\ a # b    -> F(family, "output", "")
    [] OTHER                   -> None

\* When the C side failed, LLVM is asked whether it rejects the program too.
CSideFailed(w, p, f) ==
  CASE Exit(w, "emit-llvm", p) = "hang" -> Stuck
    [] Failed(w, "emit-llvm", p)        -> None
    [] OTHER                            -> f

LlvmSide(w, p) == <<Untimed(w, "emit-llvm", p, F("compile", "emit-compile", "")),
                    Untimed(w, "llc", p, F("compile", "emit-compile", ""))>>
Links(w, p)    == <<Untimed(w, "link-c", p, F("compile", "link", "")),
                    Untimed(w, "link-l", p, F("compile", "link", ""))>>

DifferentialCompare(w, p) ==
  FirstOf(<<CASE EmitCObj(w, p) = "hang" -> Stuck
              [] EmitCObj(w, p) = "fail" ->
                   CSideFailed(w, p, F("compile", "emit-compile", EmitError(w, p)))
              [] OTHER -> Go>>
          \o LlvmSide(w, p) \o Links(w, p)
          \o <<CompareRuns("backend", Execute(w, "exe-c", p, "-O0"),
                                      Execute(w, "exe-l", p, "-O0"))>>)

OracleDifferential(w) == DifferentialCompare(w, "base")

(***************************************************************************)
(* oracle_trapsite: the trap helpers of the emitted C are rewritten to     *)
(* exit with a code per kind, so that the kind of a trap is compared too.  *)
(***************************************************************************)
InstrumentCTrapHelpers(w) ==
  IF Has(w, "emit-c", "base", "no-helper") THEN F("trapsite", "instrumentation", "") ELSE Go

\* A normal output or a trap kind, whole.
TrapsiteOutcome(w, exe) ==
  IF exe = "exe-l" /\ Has(w, "exe-l", "base", "kind") /\ Meaning(w, "base")[1] = "trap"
  THEN <<"trap", "Shift">> ELSE Execute(w, exe, "base", "-O0")

OracleTrapsite(w) ==
  LET c == TrapsiteOutcome(w, "exe-c")
      l == TrapsiteOutcome(w, "exe-l")
  IN  FirstOf(<<CASE Exit(w, "emit-c", "base") = "hang" -> Stuck
                  [] Failed(w, "emit-c", "base") ->
                       CSideFailed(w, "base", F("trapsite", "emit", EmitError(w, "base")))
                  [] OTHER -> Go,
                InstrumentCTrapHelpers(w),
                IF Failed(w, "clang", "base")
                THEN CSideFailed(w, "base", F("trapsite", "compile", "")) ELSE Go>>
              \o LlvmSide(w, "base") \o Links(w, "base")
              \o <<CASE "hang" \in {c[1], l[1]} -> Stuck
                     [] c # l -> F("divergence", "trapsite", "")
                     [] OTHER -> None>>)

(***************************************************************************)
(* oracle_sanitize and oracle_asan: the emitted C built with a sanitizer;  *)
(* a report and any nonzero exit are findings.                             *)
(***************************************************************************)
Sanitized(w, report) ==
  LET r == Execute(w, "exe-c", "base", "-O0")
  IN  FirstOf(<<CASE EmitCObj(w, "base") = "hang" -> Stuck
                  [] EmitCObj(w, "base") = "fail" -> F("compile", "emit-compile", "")
                  [] OTHER -> Go,
                Untimed(w, "link-c", "base", F("compile", "link", "")),
                CASE r[1] = "hang" -> Stuck
                  [] Has(w, "emit-c", "base", report) -> F("sanitizer", report, "")
                  [] r[1] = "trap" -> F("sanitizer", "abort", "")
                  [] OTHER -> None>>)

OracleSanitize(w) == Sanitized(w, "ub")
OracleAsan(w)     == Sanitized(w, "memory")

(***************************************************************************)
(* oracle_robust: a corrupted program and a grammar-hostile input must be  *)
(* accepted or cleanly rejected.                                           *)
(***************************************************************************)
OracleRobust(w, late) ==
  FirstOf(<<CheckNoCrash(w, late, "mutated"), CheckNoCrash(w, late, "hostile")>>)

\* oracle_failclosed: the ill-typed program must be rejected.
OracleFailclosed(w, late) ==
  CASE Has(w, "prog", "base", "no-marker") -> None
    [] late = <<"check", "bad">> \/ Exit(w, "check", "bad") = "hang" -> F("hang", "check", "")
    [] Exit(w, "check", "bad") = "crash"   -> F("crash", "check", "")
    [] Exit(w, "check", "bad") = "accept"  -> F("soundness", "check", "")
    [] OTHER -> None

\* oracle_determinism: three emissions of each backend, byte-compared.
OracleDeterminism(w) ==
  LET Emits(tool) ==
        CASE Exit(w, tool, "base") = "hang"    -> Stuck
          [] Failed(w, tool, "base")           -> Go
          [] Has(w, tool, "base", "nondeterministic") -> F("non-deterministic", tool, "")
          [] OTHER -> Go
  IN  FirstOf(<<Emits("emit-c"), Emits("emit-llvm")>>)

PipelineStages == <<"inspect-hir", "verify-inspect-hir", "lower-mir", "verify", "inspect-ir",
                    "facts", "emit-c", "emit-map", "emit-llvm">>

OraclePipeline(w, late) ==
  FirstOf([i \in DOMAIN PipelineStages |->
             RunRequiredStage(w, late, PipelineStages[i], "base")])

(***************************************************************************)
(* oracle_artifacts: the line-oriented artifacts are parsed and compared.  *)
(* A trap-edge listing declares a number of trap edges per function and    *)
(* has a row per edge; facts list the checked operations; the map relates  *)
(* symbols, sources and MIR functions.  A row that does not parse has the  *)
(* function name "".                                                       *)
(***************************************************************************)
Site(fn, kind, pos) == [fn |-> fn, kind |-> kind, pos |-> pos]
Sites == <<Site("harness", "Overflow", 3), Site("harness", "Shift", 5),
           Site("helper", "Overflow", 1)>>

\* The rows a stage prints: those of the program's trap sites, or with a defect.
Rows(w, stage) ==
  CASE Has(w, stage, "rows", "lost")       -> Tail(Sites)
    [] Has(w, stage, "rows", "unrecorded") -> Tail(Sites)
    [] Has(w, stage, "rows", "moved")      -> [Sites EXCEPT ![1].pos = 9]
    [] Has(w, stage, "rows", "repeated")   -> Append(Sites, Sites[1])
    [] Has(w, stage, "rows", "stray")      -> Append(Sites, Site("ghost", "Shift", 7))
    [] Has(w, stage, "rows", "malformed")  -> [Sites EXCEPT ![2].fn = ""]
    [] OTHER -> Sites

Declared(w, stage) ==
  CASE Has(w, stage, "rows", "unrecorded")    -> [harness |-> 1, helper |-> 1]
    [] Has(w, stage, "rows", "lost function") -> [harness |-> 2]
    [] OTHER -> [harness |-> 2, helper |-> 1]

RowsOf(rows, fn) == {i \in DOMAIN rows : rows[i].fn = fn}

\* _parse_trap_edges and _check_trap_edge_counts.
ParseError(w, stage) == \E i \in DOMAIN Rows(w, stage) : Rows(w, stage)[i].fn = ""

CheckTrapEdgeCounts(w, stage) ==
  LET rows == Rows(w, stage)
      functions == Declared(w, stage)
  IN  IF \/ ParseError(w, stage)
         \/ \E i \in DOMAIN rows : rows[i].fn \notin DOMAIN functions
         \/ \E fn \in DOMAIN functions : Cardinality(RowsOf(rows, fn)) # functions[fn]
      THEN F("artifacts", stage, "") ELSE Go

\* _checked_fact_traps and _check_checked_facts_reach_ir: facts \subseteq IR edges.
CheckCheckedFactsReachIr(w) ==
  LET facts == Rows(w, "facts")
      ir    == Rows(w, "inspect-ir")
  IN  IF \/ ParseError(w, "facts") \/ ParseError(w, "inspect-ir")
         \/ \E i \in DOMAIN facts : \A j \in DOMAIN ir : ir[j] # facts[i]
      THEN F("artifacts", "facts", "") ELSE Go

Entry(symbol, mir) == [symbol |-> symbol, mir |-> mir, exported |-> symbol = "harness",
                       keys |-> TRUE, line |-> 1, path |-> "src", origin |-> "source"]

MapEntries(w) ==
  LET entries == <<Entry("counter", "global"), Entry("harness", "harness"), Entry("helper", "helper")>>
  IN  CASE Has(w, "emit-map", "rows", "empty")     -> <<>>
        [] Has(w, "emit-map", "rows", "no key")    -> [entries EXCEPT ![1].keys = FALSE]
        [] Has(w, "emit-map", "rows", "line zero") -> [entries EXCEPT ![3].line = 0]
        [] Has(w, "emit-map", "rows", "path")      -> [entries EXCEPT ![2].path = "other"]
        [] Has(w, "emit-map", "rows", "stale mir") -> [entries EXCEPT ![3].mir = "ghost"]
        [] Has(w, "emit-map", "rows", "local")     -> [entries EXCEPT ![2].exported = FALSE]
        [] OTHER -> entries

SyntheticMirNames == {"function", "global", "switch"}

CheckEmitMap(w) ==
  LET entries == MapEntries(w)
      known   == SyntheticMirNames \cup DOMAIN Declared(w, "lower-mir")
      Bad(e)  == \/ ~e.keys \/ e.line <= 0
                 \/ e.origin = "source" /\ e.path # "src"
                 \/ e.mir \notin known
  IN  IF \/ Has(w, "emit-map", "rows", "no header")
         \/ entries = <<>>
         \/ \E i \in DOMAIN entries : Bad(entries[i])
         \/ \A i \in DOMAIN entries : ~(entries[i].symbol = "harness" /\ entries[i].exported)
      THEN F("artifacts", "emit-map", "") ELSE None

OracleArtifacts(w, late) ==
  FirstOf([i \in 1..4 |->
             RunRequiredStage(w, late, <<"facts", "lower-mir", "inspect-ir", "emit-map">>[i], "base")]
          \o <<CheckTrapEdgeCounts(w, "lower-mir"), CheckTrapEdgeCounts(w, "inspect-ir"),
               CheckCheckedFactsReachIr(w), CheckEmitMap(w)>>)

(***************************************************************************)
(* oracle_roundtrip: the formatter's output checks, is a fixpoint of the   *)
(* formatter, has the same tokens and emits the same C.                    *)
(***************************************************************************)
StrippedLexStream(w, p) == IF Has(w, "fmt", "base", "tokens") /\ p = "fmt" THEN "other" ELSE "tokens"

\* The emitted C without its #line directives.
RoundtripCBody(w, p) == IF Has(w, "emit-c", "fmt", "differs") /\ p = "fmt" THEN "other" ELSE "body"

OracleRoundtrip(w, late) ==
  LET Stage(tool, p) == RunRequiredStage(w, late, tool, p)
      Same(a, b, f)  == IF a = b THEN Go ELSE f
  IN  FirstOf(<<Stage("check", "base"), Stage("fmt", "base"), Stage("check", "fmt"), Stage("fmt", "fmt"),
                IF Has(w, "fmt", "fmt", "changes") THEN F("roundtrip", "idempotence", "") ELSE Go,
                Stage("lex", "base"), Stage("lex", "fmt"),
                Same(StrippedLexStream(w, "base"), StrippedLexStream(w, "fmt"),
                     F("roundtrip", "tokens", "")),
                Stage("emit-c", "base"), Stage("emit-c", "fmt"),
                Same(RoundtripCBody(w, "base"), RoundtripCBody(w, "fmt"),
                     F("roundtrip", "lowering", ""))>>)

(***************************************************************************)
(* oracle_metamorphic: the helper-extracted variant must compile and give  *)
(* the result of the base.                                                 *)
(***************************************************************************)
Compiles(w, p) ==
  <<Untimed(w, "check", p, F("metamorphic", "compile", "E_CODE")),
    Untimed(w, "emit-c", p, F("metamorphic", "compile", FirstError(w, "emit-c", p)))>>

OracleMetamorphic(w) ==
  LET base == CompileRunC(w, "base", "-O0")
      var  == CompileRunC(w, "variant", "-O0")
  IN  FirstOf(Compiles(w, "variant")
              \o <<CASE "hang" \in {base[1], var[1]} -> Stuck
                     [] base = NotBuilt -> None
                     [] var = NotBuilt  -> F("metamorphic", "compile", "")
                     [] OTHER           -> CompareRuns("metamorphic", base, var)>>)

OracleOptlevel(w) ==
  LET o0 == CompileRunC(w, "base", "-O0")
      o2 == CompileRunC(w, "base", "-O2")
  IN  IF NotBuilt \in {o0, o2} THEN None ELSE CompareRuns("opt-level", o0, o2)

\* The float_bits program of the seed, through both backends.
OracleFloatbits(w) ==
  FirstOf(<<Untimed(w, "check", "float", None), DifferentialCompare(w, "float")>>)

\* The reference interpreter's program: trap-free, with a known value.
OracleReference(w) ==
  LET r == CompileRunC(w, "ref", "-O0")
  IN  FirstOf(<<Untimed(w, "check", "ref", None),
                CASE r[1] = "hang" -> Stuck
                  [] r = NotBuilt  -> None
                  [] r[1] = "trap" -> F("reference", "trap", "")
                  [] r # Meaning(w, "ref") -> F("reference", "value", "")
                  [] OTHER -> None>>)

ORACLES == {"differential", "sanitize", "asan", "robust", "failclosed", "determinism", "pipeline",
            "artifacts", "roundtrip", "metamorphic", "optlevel", "floatbits", "reference", "trapsite"}

NoneLate == <<"", "">>

OracleOnSource(o, w, late) ==
  CASE o = "differential" -> OracleDifferential(w)
    [] o = "sanitize"     -> OracleSanitize(w)
    [] o = "asan"         -> OracleAsan(w)
    [] o = "robust"       -> OracleRobust(w, late)
    [] o = "failclosed"   -> OracleFailclosed(w, late)
    [] o = "determinism"  -> OracleDeterminism(w)
    [] o = "pipeline"     -> OraclePipeline(w, late)
    [] o = "artifacts"    -> OracleArtifacts(w, late)
    [] o = "roundtrip"    -> OracleRoundtrip(w, late)
    [] o = "metamorphic"  -> OracleMetamorphic(w)
    [] o = "optlevel"     -> OracleOptlevel(w)
    [] o = "floatbits"    -> OracleFloatbits(w)
    [] o = "reference"    -> OracleReference(w)
    [] o = "trapsite"     -> OracleTrapsite(w)

(***************************************************************************)
(* run_one: the generated program must check, then the oracle decides.     *)
(***************************************************************************)
RunOne(o, w, late) ==
  CASE Exit(w, "check", "base") = "noexec" -> F("tool-exec", "check", "")
    [] Exit(w, "check", "base") = "hang"   -> Stuck
    [] Failed(w, "check", "base")          -> F("generator", "rejected", "")
    [] OTHER                               -> OracleOnSource(o, w, late)

IsFinding(r) == r \notin {None, Stuck}

\* finding_signature: a diagnostic code decides the bucket, else kind and place.
FindingSignature(f) == IF f.code # "" THEN <<"compiler-error", f.code>> ELSE <<f.kind, f.at>>

NeedsClang(o, cmd) ==
  cmd = "corpus" \/ o \in {"differential", "sanitize", "asan", "metamorphic", "optlevel",
                           "floatbits", "reference", "trapsite"}
NeedsLlc(o, cmd) == cmd = "corpus" \/ o \in {"differential", "floatbits", "trapsite"}
=============================================================================
