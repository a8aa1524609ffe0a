--------------------------- MODULE MCCorpusSweep ---------------------------
(***************************************************************************)
(* Two fixtures and two workers.  Either the first fixture is any of three *)
(* declarations and the tools accept every whole program, or the fixtures  *)
(* are plain and the tools, the lists and the old objects are anything.    *)
(***************************************************************************)
EXTENDS CorpusSweep

Names == {"A", "B", "C"}
Texts == {d \in DeclsOf("A", {"B", "C"}) \X DeclsOf("B", {"A", "C"})
                \X (DeclsOf("C", {"A", "B"}) \cup {Plain("A"), Use("A", "B"), Marked("A")}) : Written(d)}
PlainText == <<Plain("A"), Use("B", "A")>>

Behaves(fails, reason, cause, sum_fast) ==
  [fails |-> fails, reason |-> reason, cause |-> cause, sum_fast |-> sum_fast]
Fine == Behaves("ok", "", NoCause, FALSE)

\* Refusals of the C backend, and what entries record: the same, one field
\* more, less or other, and texts that do not read back as they were written.
Cause(construct, fn) == [category |-> <<"expression">>, construct |-> <<construct, ")">>,
                         function |-> <<fn>>, phase |-> <<"capability">>]
Cast == Cause("cast", "f")
Refusals == {Cast, Cause("cast", "g")}
Causes == Refusals \cup
  {NoCause, [phase |-> <<"capability">>], [Cast EXCEPT !.phase = <<"capability", ")", "by">>],
   [Cast EXCEPT !.category = << >>], [Cast EXCEPT !.function = <<"f", "tick", "in", "tick", "g">>],
   [n \in CAUSE_FIELDS \cup {"note"} |-> IF n = "note" THEN <<"w">> ELSE Cast[n]]}

\* Codes that are part of longer ones.
CodeParts == {<<"E_PARSE", "E_PARSE_EXPECTED_EXPRESSION">>, <<"E_BACKEND", STRUCTURED_REASON>>}

Rejections == {Behaves("EMIT", "E_DYN", NoCause, FALSE), Behaves("EMIT", "E_PARSE_EXPECTED_EXPRESSION", NoCause, FALSE),
               Behaves("EMIT", STRUCTURED_REASON, NoCause, FALSE),
               Behaves("CLANG", "clang", NoCause, FALSE), Behaves("UNSUPPORTED", "placeholder", NoCause, FALSE)}
              \cup {Behaves("EMIT", STRUCTURED_REASON, c, FALSE) : c \in Refusals}
Entries == {NoEntry} \cup [stage : {"EMIT", "CLANG", "UNSUPPORTED"}, reason : {"E_DYN", STRUCTURED_REASON},
                           cause : Causes]
           \cup [stage : {"EMIT"}, reason : {"E_PARSE", "E_BACKEND"}, cause : {NoCause, Cast}]

World(sweep, missing, text, b1, b2, allow, entry, old) ==
  [sweep |-> sweep, missing |-> missing, text |-> <<text, PlainText>>, back |-> <<b1, b2>>,
   allow |-> allow, entry |-> <<entry, NoEntry>>, objects |-> <<old, "old">>]

TextScenarios == {World("emit", "none", t, Fine, Fine, {}, NoEntry, "none") : t \in Texts}

EmitScenarios ==
  {World("emit", m, PlainText, b, Fine, a, e, "none") :
     m \in {"none"}, b \in Rejections \cup {Fine}, a \in {{}, {1}, {2}}, e \in Entries}
  \cup {World("emit", m, PlainText, b, b, {}, NoEntry, "none") : m \in {"mcc", "clang"}, b \in {Fine}}

LlvmScenarios ==
  UNION {LET behaviours == {Fine, Behaves("ok", "", NoCause, TRUE)}
               \cup {Behaves(x, "E_DYN", NoCause, FALSE) : x \in RejectsAt(s, TRUE) \ {"token", "reassoc"}}
               \cup (IF s = "c_obj" THEN {} ELSE {Behaves("token", "", NoCause, TRUE), Behaves("reassoc", "", NoCause, TRUE),
                                                  Behaves("reassoc", "", NoCause, FALSE)})
         IN  {World(s, m, PlainText, b, Fine, a, NoEntry, old) :
                m \in {"none", "mcc", "llc", "opt", "llvm-as"}, b \in behaviours,
                a \in IF s \in {"c_emit", "c_obj"} THEN {{}} ELSE {{}, {1}, {2}}, old \in {"none", "old"}} :
         s \in Sweeps \ {"emit"}}

AllScenarios == TextScenarios \cup EmitScenarios \cup LlvmScenarios

=============================================================================
