----------------------------- MODULE BackendGap -----------------------------
(***************************************************************************)
(* The structured cause of an E_BACKEND_UNSUPPORTED refusal (tools/        *)
(* toolchain/backend_gap_lib.py) and the validator of the manifest of      *)
(* expected failures (backend-expected-failures-test.py).                  *)
(*                                                                         *)
(* A diagnostic is a sequence of tokens, the reason code first; the text   *)
(* of a field is words, backticks ("tick") and closing parentheses.  A     *)
(* cause is a function from field names to such texts; an entry of the     *)
(* manifest may have none, or one that lacks or misspells a field.         *)
(***************************************************************************)
EXTENDS Integers, Sequences, SequencesExt

CONSTANT Parts      \* pairs of tokens of which the first is a part of the second

STRUCTURED_REASON == "E_BACKEND_UNSUPPORTED"
CAUSE_FIELDS == {"category", "construct", "function", "phase"}

NoCause == << >>      \* also what parse_cause returns for another diagnostic

\* <category> `<construct>` in `<function>` (declined by <phase>)
render_cause(cause) ==
  <<STRUCTURED_REASON>> \o cause.category \o <<"tick">> \o cause.construct \o <<"tick", "in", "tick">>
    \o cause.function \o <<"tick", "declined by">> \o cause.phase \o <<")">>

\* What the C backend fills in when it declines a function (external): a
\* category in words, a construct and a function name without a backtick, and
\* one of its phases, none of which is spelled with a parenthesis.
Refusal(cause) ==
  /\ cause = [field \in CAUSE_FIELDS |-> cause[field]]
  /\ \A field \in CAUSE_FIELDS :
       cause[field] \in Seq(ToSet(cause[field])) /\ "tick" \notin ToSet(cause[field])
  /\ cause.category # << >>
  /\ ")" \notin ToSet(cause.phase)

\* The regular expression: a category that is as short as can be, construct and
\* function up to the next backtick, the phase up to the next parenthesis.
parse_cause(message) ==
  LET Next(t, from) ==                        \* the first t at or after `from`
        LET found == {n \in from .. Len(message) : message[n] = t}
        IN  IF found = {} THEN Len(message) + 1 ELSE Min(found)
      Construct(i) == Next("tick", i + 1)
      Function(i)  == Next("tick", Construct(i) + 3)
      Phase(i)     == Next(")", Function(i) + 2)
      Matches(i) ==
        /\ message[i] = "tick" /\ Phase(i) <= Len(message)
        /\ message[Construct(i) + 1] = "in" /\ message[Construct(i) + 2] = "tick"
        /\ message[Function(i) + 1] = "declined by"
      starts == {i \in 3 .. Len(message) : message[1] = STRUCTURED_REASON /\ Matches(i)}
      i0 == Min(starts)
      Text(from, to) == SubSeq(message, from + 1, to - 1)
  IN  IF starts = {} THEN NoCause
      ELSE [category  |-> Text(1, i0),
            construct |-> Text(i0, Construct(i0)),
            function  |-> Text(Construct(i0) + 2, Function(i0)),
            phase     |-> Text(Function(i0) + 1, Phase(i0))]

\* cause_problem: four fields, none empty or with a backtick, and what they
\* render parses back to them.
CauseWellFormed(cause) ==
  /\ DOMAIN cause = CAUSE_FIELDS
  /\ \A field \in CAUSE_FIELDS : cause[field] # << >> /\ "tick" \notin ToSet(cause[field])
  /\ parse_cause(render_cause(cause)) = cause

\* Mutant of require_cause: an entry may leave the cause open.
CauseOptional(e) == e.cause # NoCause => e.reason = STRUCTURED_REASON /\ CauseWellFormed(e.cause)

require_cause(e) ==
  IF e.reason = STRUCTURED_REASON THEN e.cause # NoCause /\ CauseWellFormed(e.cause)
  ELSE e.cause = NoCause

\* `reason in message`, on the text: the reason is a token, or part of one.
Within(reason, message) ==
  \E i \in DOMAIN message : message[i] = reason \/ <<reason, message[i]>> \in Parts

\* failure_mismatch: stage, reason and, where the entry records one, the cause:
\* each field that the entry has.
failure_mismatch(entry, kind, message) ==
  \/ entry.stage # kind
  \/ ~Within(entry.reason, message)
  \/ /\ entry.cause # NoCause
     /\ LET measured == parse_cause(message)
        IN  \/ measured = NoCause
            \/ \E field \in DOMAIN entry.cause :
                 field \notin DOMAIN measured \/ measured[field] # entry.cause[field]
=============================================================================
