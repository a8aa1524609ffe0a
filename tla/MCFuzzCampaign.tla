--------------------------- MODULE MCFuzzCampaign ---------------------------
(***************************************************************************)
(* Instances of FuzzCampaign for TLC: the defects, and for an invocation   *)
(* the worlds it is run in.                                                *)
(***************************************************************************)
EXTENDS FuzzCampaign

Exits(calls, programs, hows) == calls \X programs \X hows
Failures == {"reject", "crash", "hang"}

\* The ways in which a call of an oracle, or what it produced, can be wrong.
Defects ==
  UNION {
    Exits({"check", "fmt", "lex"} \cup {PipelineStages[i] : i \in DOMAIN PipelineStages}, {"base"}, Failures),
    Exits({"check", "fmt", "lex", "emit-c"}, {"fmt"}, Failures),
    Exits({"check", "emit-c"}, {"variant", "float", "ref"}, Failures),
    Exits({"emit-llvm"}, {"float"}, Failures), Exits({"check"}, {"base"}, {"noexec"}),
    Exits({"check"}, {"mutated", "hostile", "bad"}, {"crash", "hang", "panic"}),
    Exits({"check"}, {"bad"}, {"accept"}),
    Exits({"mir"}, {"base", "fmt", "variant", "float", "ref"}, {"reject"}),
    Exits({"emit-c"}, {"base", "variant", "float", "ref"}, {"nondeterministic", "ub", "memory"}),
    Exits({"emit-llvm"}, {"base", "float"}, {"nondeterministic"}),
    Exits({"emit-c"}, {"base"}, {"no-helper"}), Exits({"emit-c"}, {"fmt"}, {"differs"}),
    Exits({"clang", "link-c"}, {"base", "variant", "float", "ref"}, {"reject"}),
    Exits({"llc", "link-l"}, {"base", "float"}, {"reject"}),
    Exits({"exe-c"}, {"base", "variant", "float", "ref"}, {"wrong", "trap", "hang"}),
    Exits({"exe-l"}, {"base", "float"}, {"wrong", "trap", "hang"}), Exits({"exe-l"}, {"base"}, {"kind"}),
    Exits({"front-end"}, {"all"}, {"wrong"}),
    Exits({"fmt"}, {"base"}, {"tokens"}), Exits({"fmt"}, {"fmt"}, {"changes"}),
    Exits({"lower-mir", "inspect-ir", "facts"}, {"rows"},
          {"lost", "unrecorded", "moved", "repeated", "stray", "malformed"}),
    Exits({"lower-mir", "inspect-ir"}, {"rows"}, {"lost function"}),
    Exits({"emit-map"}, {"rows"}, {"no header", "empty", "no key", "line zero", "path", "stale mir", "local"})
  }

\* A call goes wrong in one way only.
Consistent(w) == \A d, e \in w : d[1] = e[1] /\ d[2] = e[2] => d = e

\* One or two defects, whether an oracle reacts to them or not; on trapping
\* programs one of them is in what the gates for those look at.
AllWorlds(trapping) ==
  LET looked == {d \in Defects : trapping => ~Overlooked(d, TRUE)}
  IN  {w \in {{d, e} : d \in looked, e \in Defects} : Consistent(w)}

Answers(o, w) == <<RunOne(o, w, NoneLate), OracleOnSource(o, w, NoneLate)>>
Trait(trapping) == IF trapping THEN {<<"prog", "base", "traps">>} ELSE {}

\* The defects that change what one oracle answers, for the runs of its gate
\* (a crash is to most calls what a rejection is, in other words).
Matters(o, t) ==
  {d \in Defects : /\ d[3] = "crash" => d[1] = "check"
                   /\ Answers(o, Trait(t) \cup {d}) # Answers(o, Trait(t))}

\* The gates of build/fuzz.zig, three of them also with --shrink-failures (an
\* oracle with deadlines, one with one deadline and one that regenerates), and
\* the command `shrink` for two oracles.
Gates == [cmd : {"run"}, oracle : ORACLES \ {"trapsite"}, trapping : {FALSE}, shrink : {FALSE}]
         \cup [cmd : {"run"}, oracle : {"robust", "failclosed", "reference"}, trapping : {FALSE},
               shrink : {TRUE}]
         \cup [cmd : {"run"}, oracle : {"differential", "trapsite"}, trapping : {TRUE}, shrink : {FALSE}]
         \cup [cmd : {"shrink"}, oracle : {"robust", "roundtrip"}, trapping : {FALSE}, shrink : {FALSE}]
         \cup [cmd : {"corpus"}, oracle : {"differential"}, trapping : BOOLEAN, shrink : {FALSE}]

MattersTo == [g \in {<<h.oracle, h.trapping>> : h \in Gates} |-> Matters(g[1], g[2])]

\* The tools whose absence the gate notices.
GateTools(g) ==
  {AllTools} \cup
  {AllTools \ {t} : t \in (IF NeedsClang(g.oracle, g.cmd) THEN {"clang"} ELSE {})
                      \cup (IF NeedsLlc(g.oracle, g.cmd) THEN {"llc"} ELSE {})
                      \cup (IF g.oracle = "sanitize" \/ g.cmd = "corpus" THEN {"ubsan"} ELSE {})
                      \cup (IF g.oracle = "asan" THEN {"asan"} ELSE {})}

\* Some calls of each oracle that has deadlines: the first, a middle one, the last.
Deadlines ==
  [robust     |-> {<<"check", "mutated">>, <<"check", "hostile">>},
   failclosed |-> {<<"check", "bad">>},
   pipeline   |-> {<<"inspect-hir", "base">>, <<"emit-c", "base">>},
   artifacts  |-> {<<"lower-mir", "base">>, <<"emit-map", "base">>},
   roundtrip  |-> {<<"check", "base">>, <<"fmt", "fmt">>}]

GateDeadlines(o) == IF o \in DOMAIN Deadlines THEN Deadlines[o] ELSE {}

\* The command `shrink` has one seed, with one defect; with --shrink-failures
\* two seeds have a defect each; a replayed corpus has all of them, one or two
\* in its second file; otherwise the second seed has up to two defects, or the
\* first and the third share one.
GateWorlds(g) ==
  LET ds   == MattersTo[<<g.oracle, g.trapping>>]
      one  == {{}} \cup {{d} : d \in ds}
      two  == {w \in {{d, e} : d, e \in ds} : Consistent(w)}
      World(x, y, z) == <<Trait(g.trapping) \cup x, Trait(g.trapping) \cup y, Trait(g.trapping) \cup z>>
  IN  IF g.cmd = "shrink" THEN {World(x, {}, {}) : x \in one}
      ELSE IF g.shrink THEN {World(x, {}, y) : x, y \in one}
      ELSE IF g.cmd = "corpus" THEN {World({}, w, {}) : w \in {{}} \cup AllWorlds(g.trapping)}
      ELSE {World({}, w, {}) : w \in two} \cup {World(x, {}, x) : x \in one}
=============================================================================
