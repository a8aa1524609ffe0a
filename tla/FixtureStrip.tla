---------------------------- MODULE FixtureStrip ----------------------------
(***************************************************************************)
(* The text side of the spec-corpus sweeps (tools/toolchain/               *)
(* spec_sweep_lib.py): split_top_level, _without_comments and the names a  *)
(* chunk declares and mentions, over sequences of tokens.                  *)
(*                                                                         *)
(* A token is a pair <<kind, name>>: punctuation, the comment and string   *)
(* delimiters, "esc" for a backslash, "nl", "decl" for a declaration's     *)
(* keyword and name at the start of a line, "proto" for `fn name(...)`     *)
(* without a body, "ref" for any other identifier, and "mark" for the      *)
(* words EXPECT_ERROR and SWEEP_SKIP_DEPENDS_ON_REJECTED_DECL.             *)
(***************************************************************************)
EXTENDS Integers, Sequences, SequencesExt

T(kind) == <<kind, "">>
Kinds(toks) == {toks[i][1] : i \in DOMAIN toks}
Named(toks, kinds) == {toks[i][2] : i \in {j \in DOMAIN toks : toks[j][1] \in kinds}}

-----------------------------------------------------------------------------
(* split_top_level: one pass, with the place the scanner is in.            *)

Scan(place, depth, buf, chunks) == [place |-> place, depth |-> depth, buf |-> buf, chunks |-> chunks]
Cut(s) == [s EXCEPT !.buf = << >>, !.chunks = Append(@, s.buf)]

\* Outside comments and literals: punctuation counts.
CodeChar(s, kind) ==
  CASE kind = "//"    -> [s EXCEPT !.place = "line"]
    [] kind = "/*"    -> [s EXCEPT !.place = "block"]
    [] kind = "quote" -> [s EXCEPT !.place = "string"]
    [] kind = "{"     -> [s EXCEPT !.depth = @ + 1]
    [] kind = "}"     -> LET t == [s EXCEPT !.depth = @ - 1] IN IF t.depth = 0 THEN Cut(t) ELSE t
    [] kind = ";"     -> IF s.depth = 0 THEN Cut(s) ELSE s
    [] OTHER          -> s

ScanToken(before, tok) ==
  LET s == [before EXCEPT !.buf = Append(@, tok)]
      kind == tok[1]
  IN  CASE s.place = "code"    -> CodeChar(s, kind)
        [] s.place = "line"    -> IF kind = "nl" THEN [s EXCEPT !.place = "code"] ELSE s
        [] s.place = "block"   -> IF kind = "*/" THEN [s EXCEPT !.place = "code"] ELSE s
        [] s.place = "string"  -> CASE kind = "esc"   -> [s EXCEPT !.place = "escaped"]
                                    [] kind = "quote" -> [s EXCEPT !.place = "code"]
                                    [] OTHER          -> s
        [] s.place = "escaped" -> [s EXCEPT !.place = "string"]

split_top_level(src) ==
  LET scan[i \in 0 .. Len(src)] ==
        IF i = 0 THEN Scan("code", 0, << >>, << >>) ELSE ScanToken(scan[i - 1], src[i])
      end == scan[Len(src)]
  IN  IF Kinds(end.buf) \subseteq {"nl"} THEN end.chunks ELSE Append(end.chunks, end.buf)

-----------------------------------------------------------------------------

is_rejected_chunk(toks) == "mark" \in Kinds(toks)

\* _without_comments: not aware of strings, unlike split_top_level.
WithoutComments(toks) ==
  LET Step(s, tok) ==
        CASE s.place = "line"  -> IF tok[1] = "nl" THEN [s EXCEPT !.place = "code", !.buf = Append(@, tok)] ELSE s
          [] s.place = "block" -> IF tok[1] = "*/" THEN [s EXCEPT !.place = "code"] ELSE s
          [] tok[1] = "//"     -> [s EXCEPT !.place = "line"]
          [] tok[1] = "/*"     -> [s EXCEPT !.place = "block"]
          [] OTHER             -> [s EXCEPT !.buf = Append(@, tok)]
      scan[i \in 0 .. Len(toks)] ==
        IF i = 0 THEN Scan("code", 0, << >>, << >>) ELSE Step(scan[i - 1], toks[i])
  IN  scan[Len(toks)].buf

\* Mutant of referenced_names: the names in comments count.
ReferencedInComments(toks) == Named(toks, {"decl", "proto", "ref"})
                              \ Named(WithoutComments(toks), {"decl", "proto"})

declared_names(toks)   == Named(WithoutComments(toks), {"decl", "proto"})
referenced_names(toks) == Named(WithoutComments(toks), {"decl", "proto", "ref"}) \ declared_names(toks)

\* The table _keep_flags works on.
ChunkTable(chunks) ==
  [i \in DOMAIN chunks |-> [declares   |-> declared_names(chunks[i]),
                            references |-> referenced_names(chunks[i]),
                            rejected   |-> is_rejected_chunk(chunks[i])]]

\* A prototype becomes an `extern fn`.
normalize_valid_chunk(toks) ==
  CASE is_rejected_chunk(toks) -> << >>
    [] toks # << >> /\ Last(toks) = T(";") ->
         [i \in DOMAIN toks |-> IF toks[i][1] = "proto" THEN <<"decl", toks[i][2]>> ELSE toks[i]]
    [] OTHER -> toks

\* valid_program, given the flags _keep_flags returned: the chunks it joins.
valid_program(chunks, kept) == [i \in kept |-> normalize_valid_chunk(chunks[i])]

-----------------------------------------------------------------------------
(***************************************************************************)
(* Fixtures: declarations of known meaning, written in the ways that are   *)
(* hard to chunk.  `uses` are the names the code really uses, `errs` says  *)
(* that the compiler rejects it, as its EXPECT_ERROR comment says.         *)
(***************************************************************************)
Decl(toks, name, uses, errs) == [toks |-> toks, name |-> name, uses |-> uses, errs |-> errs]

Plain(n)      == Decl(<<<<"decl", n>>, T("{"), T("}")>>, n, {}, FALSE)
Use(n, m)     == Decl(<<<<"decl", n>>, T("{"), <<"ref", m>>, T("}")>>, n, {m}, FALSE)
Marked(n)     == Decl(<<T("//"), T("mark"), T("nl"), <<"decl", n>>, T("{"), T("}")>>, n, {}, TRUE)
MarkedIn(n, m) == Decl(<<<<"decl", n>>, T("{"), <<"ref", m>>, T("//"), T("mark"), T("nl"), T("}")>>, n, {m}, TRUE)
BraceInComment(n) == Decl(<<T("//"), T("{"), T("nl"), <<"decl", n>>, T("{"), T("}")>>, n, {}, FALSE)
ProseInComment(n, m) == Decl(<<T("/*"), <<"ref", m>>, T(";"), T("}"), T("*/"), <<"decl", n>>, T(";")>>, n, {}, FALSE)
BraceInString(n, m) == Decl(<<<<"decl", n>>, T("{"), T("quote"), T("}"), T("esc"), T("quote"), T("quote"),
                              <<"ref", m>>, T("}")>>, n, {m}, FALSE)
Prototype(n)  == Decl(<<<<"proto", n>>, T(";")>>, n, {}, FALSE)

\* `import "x"; // EXPECT_ERROR: the marker comes after the semicolon.
MarkedAfter(n) == Decl(<<<<"decl", n>>, T(";"), T("//"), T("mark"), T("nl")>>, n, {}, TRUE)

\* A literal that holds the characters of a comment, as a URL does.
OpenerInString(n, m) == Decl(<<<<"decl", n>>, T("{"), T("quote"), T("//"), T("quote"), <<"ref", m>>, T("nl"), T("}")>>,
                             n, {m}, FALSE)

DeclsOf(n, others) ==
  {Plain(n), Marked(n), BraceInComment(n), Prototype(n), MarkedAfter(n)}
  \cup UNION {{Use(n, m), MarkedIn(n, m), ProseInComment(n, m), BraceInString(n, m), OpenerInString(n, m)} : m \in others}

Source(decls) == FlattenSeq([i \in DOMAIN decls |-> decls[i].toks])

\* The fixture can be written: whatever is used is declared somewhere in it.
Written(decls) ==
  LET names == {decls[i].name : i \in DOMAIN decls} IN \A i \in DOMAIN decls : decls[i].uses \subseteq names

\* The two shapes the sweep does not handle: OUT_OF_SCOPE lists the first.
Isolable(decls) ==
  \A i \in DOMAIN decls : /\ decls[i] # MarkedAfter(decls[i].name)
                          /\ \A m \in decls[i].uses : decls[i] # OpenerInString(decls[i].name, m)

=============================================================================
