----------------------------- MODULE RefInterp -----------------------------
(***************************************************************************)
(* The reference interpreter of the fuzzer (tools/fuzz/mcref.py).  RefGen  *)
(* generates a typed syntax tree; `render` turns it into MC source and     *)
(* `eval` computes in Python integers the value the program must have.     *)
(*                                                                         *)
(* The generator never looks at values, and a program is a sequence of top *)
(* level statements, so generation and both executions are modelled in     *)
(* step: an action generates one statement (every choice of the random     *)
(* numbers), evaluates it in `env` as .eval() does and runs its rendered   *)
(* form in `mc`, the typed variables of the compiled program.              *)
(*                                                                         *)
(* Widths are scaled down: W8 bits for the narrow types, W64 for u64, and  *)
(* one bit for the bytes of overlay unions.                                *)
(***************************************************************************)
EXTENDS Integers, Sequences, FiniteSets, SequencesExt, Bitwise, TLC

CONSTANTS W8, W64,
          MaxDecls,   \* initial declarations (the code: 6)
          MaxStmts,   \* top-level statements after them (the code: 5 to 10)
          Bounds      \* loop bounds (the code: 1 to 4)

ASSUME RefInterpAssumption == W8 \in Nat \ {0} /\ W64 > W8 /\ MaxDecls >= 1 /\ Bounds \subseteq Nat

REF_TYPES == [u8     |-> [w |-> W8,  kind |-> "plain"], u64   |-> [w |-> W64, kind |-> "plain"],
              wrapu8 |-> [w |-> W8,  kind |-> "wrap"],  satu8 |-> [w |-> W8,  kind |-> "sat"]]
Width(rt) == REF_TYPES[rt].w
Kind(rt)  == REF_TYPES[rt].kind
Mask(w)   == 2^w - 1
Masked(x, w) == x % 2^w                \* x & _mask(w), for a negative x too

VARIABLES
  phase,    \* "decl", "body", "offset" ... "union", "done"
  scope,    \* name -> type, of the generator
  order,    \* the names in the order in which they are folded
  stmts,    \* number of top-level statements generated
  env,      \* the interpreter's variables
  mc,       \* the compiled program's variables: name -> [rt, val]
  ret,      \* <<interpreter's early return, compiled program's>>
  core,     \* <<value of ref_core by evaluate, by the compiled program>>
  extra,    \* <<_extra_value, value of ref_extra>>, modulo 2^W64
  agree,    \* every term of ref_extra has its expected value
  sound     \* every rendered statement is well typed and trap-free

vars == <<phase, scope, order, stmts, env, mc, ret, core, extra, agree, sound>>

NoRet    == -1
KeyError == -2
Endless  == -3

-----------------------------------------------------------------------------
(* Expressions: an operator over two leaves, a literal or a variable each. *)

Lit(v, rt) == [tag |-> "lit", val |-> v, name |-> "", rt |-> rt]
Var(n, rt) == [tag |-> "var", val |-> 0, name |-> n, rt |-> rt]
Expr(op, a, b, c, rt) == [op |-> op, a |-> a, b |-> b, c |-> c, rt |-> rt]
Zero(rt) == Lit(0, rt)

VarsOf(sc, rt) == {n \in DOMAIN sc : sc[n] = rt}

\* _lit_val: the corners of the type (the code also draws other values).
LitVals(w) == {0, Mask(w), Mask(w) \div 2}
Leaves(sc, rt) == {Var(n, rt) : n \in VarsOf(sc, rt)} \cup {Lit(v, rt) : v \in LitVals(Width(rt))}

\* _u64_source: any variable, folded to u64, or a literal.
U64Sources(sc) == {Var(n, sc[n]) : n \in DOMAIN sc} \cup {Lit(Mask(W64) - 1, "u64")}

LeafExprs(sc, rt) == {Expr("leaf", a, Zero(rt), 0, rt) : a \in Leaves(sc, rt)}

PlainExprs(sc, rt) ==
  {Expr("wadd", Var(n, rt), b, 0, rt) : n \in VarsOf(sc, rt), b \in Leaves(sc, rt)}
  \cup {Expr(op, a, b, 0, rt) : op \in {"&", "|", "^"}, a, b \in Leaves(sc, rt)}
  \cup {Expr(">>", a, Zero(rt), c, rt) : a \in Leaves(sc, rt), c \in 0 .. Width(rt) - 1}
  \cup {Expr("wrap_from", s, Zero(rt), 0, rt) : s \in U64Sources(sc)}

DomainExprs(sc, rt) ==
  LET live == {Var(n, rt) : n \in VarsOf(sc, rt)}
      ops  == IF Kind(rt) = "wrap" THEN {"+", "-", "*", "&", "|", "^"} ELSE {"+", "-", "*"}
  IN  {Expr(op, a, b, 0, rt) : op \in ops, a, b \in live}
      \cup (IF Kind(rt) = "wrap"
            THEN {Expr(">>", a, Zero(rt), c, rt) : a \in live, c \in 0 .. Width(rt) - 1} ELSE {})

GenExpr(sc, rt) ==
  LeafExprs(sc, rt) \cup (IF Kind(rt) = "plain" THEN PlainExprs(sc, rt) ELSE DomainExprs(sc, rt))

EvalLeaf(l, e) == IF l.tag = "lit" THEN l.val
                  ELSE IF l.name \in DOMAIN e THEN e[l.name] ELSE KeyError

\* The .eval() of Lit, Var, WAdd, Bitwise, Shr, Conv, DomBin and DomShr.
SatOp(op, x, y, m) ==
  CASE op = "+" -> IF x + y < m THEN x + y ELSE m
    [] op = "-" -> IF x - y > 0 THEN x - y ELSE 0
    [] OTHER    -> IF x * y < m THEN x * y ELSE m

\* Mutant of ArithOp: WAdd and DomBin without the mask.
ArithUnmasked(op, x, y, w, kind) ==
  CASE kind = "sat"  -> SatOp(op, x, y, Mask(w))
    [] op \in {"wadd", "+"} -> x + y
    [] op = "-"      -> x - y
    [] OTHER         -> x * y

ArithOp(op, x, y, w, kind) ==
  CASE kind = "sat"  -> SatOp(op, x, y, Mask(w))
    [] op \in {"wadd", "+"} -> Masked(x + y, w)
    [] op = "-"      -> Masked(x - y, w)
    [] OTHER         -> Masked(x * y, w)

EvalExpr(x, e) ==
  LET a == EvalLeaf(x.a, e)
      b == EvalLeaf(x.b, e)
  IN  CASE KeyError \in {a, b}  -> KeyError
        [] x.op = "leaf"        -> a
        [] x.op = "&"           -> a & b
        [] x.op = "|"           -> a | b
        [] x.op = "^"           -> a ^^ b
        [] x.op = ">>"          -> a \div 2^x.c
        [] x.op = "wrap_from"   -> Masked(a, Width(x.rt))
        [] OTHER                -> ArithOp(x.op, a, b, Width(x.rt), Kind(x.rt))

-----------------------------------------------------------------------------
(* What MC makes of the rendered text: typing, and values of a width.      *)

LeafTyped(l, m) ==
  IF l.tag = "lit" THEN l.val \in 0 .. Mask(Width(l.rt))
  ELSE l.name \in DOMAIN m /\ m[l.name].rt = l.rt

\* Operand types agree, the operator exists for them, and it cannot trap.
ExprTyped(x, m) ==
  /\ LeafTyped(x.a, m) /\ LeafTyped(x.b, m)
  /\ x.op # "wrap_from" => x.a.rt = x.rt
  /\ x.b.rt = x.rt
  /\ x.op \in {"wadd", "wrap_from"} => Kind(x.rt) = "plain"
  /\ x.op \in {"+", "-", "*"} => Kind(x.rt) # "plain" /\ "var" \in {x.a.tag, x.b.tag}
  /\ x.op \in {"&", "|", "^", ">>"} => Kind(x.rt) # "sat"
  /\ x.op = ">>" => x.c < Width(x.rt)

MachineLeaf(l, m) == IF l.tag = "lit" THEN l.val ELSE m[l.name].val

\* uN.wrap_from and `as u64` of a stored value.
FoldU64(l, m) == MachineLeaf(l, m) % 2^Width(l.rt)

MachineExpr(x, m) ==
  LET a == MachineLeaf(x.a, m)
      b == MachineLeaf(x.b, m)
      n == 2^Width(x.rt)
      Clamp(v) == IF v < 0 THEN 0 ELSE IF v >= n THEN n - 1 ELSE v
      Fit(v) == IF Kind(x.rt) = "sat" THEN Clamp(v) ELSE v % n
  IN  CASE x.op = "leaf"        -> a
        [] x.op = "&"           -> a & b
        [] x.op = "|"           -> a | b
        [] x.op = "^"           -> a ^^ b
        [] x.op = ">>"          -> a \div 2^x.c
        [] x.op = "wrap_from"   -> FoldU64(x.a, m) % n
        [] x.op \in {"wadd", "+"} -> Fit(a + b)
        [] x.op = "-"           -> Fit(a - b)
        [] x.op = "*"           -> Fit(a * b)

-----------------------------------------------------------------------------
(* Conditions: a comparison, or two under && or ||.                        *)

Cmp(op, a, b) == [op |-> op, a |-> a, b |-> b]
Cond(conn, l, r) == [conn |-> conn, l |-> l, r |-> r]

\* The comparisons gen_cond makes of a type (of the six operators, three).
Comparisons(sc, rt) ==
  LET live == {Var(n, rt) : n \in VarsOf(sc, rt)}
  IN  CASE Kind(rt) = "plain" ->
             {Cmp(op, a, b) : op \in {"<", ">=", "=="}, a \in live,
                              b \in IF Cardinality(live) > 1 THEN Leaves(sc, rt)
                                    ELSE {l \in Leaves(sc, rt) : l.tag = "lit"}}
        [] Kind(rt) # "plain" /\ Cardinality(live) >= 2 ->
             {Cmp(op, a, b) : op \in IF Kind(rt) = "wrap" THEN {"=="} ELSE {"<", ">=", "=="},
                              a, b \in live}
        [] OTHER -> {}

AllComparisons(sc) ==
  LET found == UNION {Comparisons(sc, rt) : rt \in DOMAIN REF_TYPES}
  IN  IF found = {} THEN {Cmp("==", Lit(1, "u8"), Lit(1, "u8"))} ELSE found

\* One representative operand pair stands for the second comparison.
GenCond(sc) ==
  LET all == AllComparisons(sc)
      other == CHOOSE x \in all : TRUE
  IN  {Cond("", x, x) : x \in all} \cup {Cond(conn, x, other) : conn \in {"&&", "||"}, x \in all}

Compare(op, x, y) == CASE op = "<" -> x < y [] op = ">=" -> x >= y [] op = "==" -> x = y

EvalCond(c, e) ==
  LET Holds(x) == Compare(x.op, EvalLeaf(x.a, e), EvalLeaf(x.b, e))
  IN  CASE c.conn = ""   -> Holds(c.l)
        [] c.conn = "&&" -> IF Holds(c.l) THEN Holds(c.r) ELSE FALSE
        [] c.conn = "||" -> IF Holds(c.l) THEN TRUE ELSE Holds(c.r)

CmpTyped(x, m) ==
  /\ LeafTyped(x.a, m) /\ LeafTyped(x.b, m) /\ x.a.rt = x.b.rt
  /\ Kind(x.a.rt) # "plain" => x.a.tag = "var" /\ x.b.tag = "var"
  /\ Kind(x.a.rt) = "wrap" => x.op = "=="

CondTyped(c, m) == CmpTyped(c.l, m) /\ CmpTyped(c.r, m)

MachineCond(c, m) ==
  LET Holds(x) == Compare(x.op, MachineLeaf(x.a, m), MachineLeaf(x.b, m))
  IN  CASE c.conn = ""   -> Holds(c.l)
        [] c.conn = "&&" -> Holds(c.l) /\ Holds(c.r)
        [] c.conn = "||" -> Holds(c.l) \/ Holds(c.r)

-----------------------------------------------------------------------------
(* Statements.  `src` is the value of an early return, a u64 source.       *)

Stmt(tag, name, x, c, src, then, els, bound) ==
  [tag |-> tag, name |-> name, x |-> x, c |-> c, src |-> src, then |-> then, els |-> els,
   bound |-> bound]
NoX == Expr("leaf", Zero("u8"), Zero("u8"), 0, "u8")
NoC == Cond("", Cmp("==", Zero("u8"), Zero("u8")), Cmp("==", Zero("u8"), Zero("u8")))

Assign(n, x)       == Stmt("assign", n, x, NoC, Zero("u8"), << >>, << >>, 0)
If(c, then, els)   == Stmt("if", "", NoX, c, Zero("u8"), then, els, 0)
While(n, b, body)  == Stmt("while", n, NoX, NoC, Zero("u8"), body, << >>, b)
EarlyRet(c, src)   == Stmt("ret", "", NoX, c, src, << >>, << >>, 0)

Assigns(sc, Exprs(_)) == UNION {{Assign(n, x) : x \in Exprs(sc[n])} : n \in DOMAIN sc}

\* Conditions that split the values of a variable in the middle, or always hold.
SplitConds(sc) ==
  {c \in GenCond(sc) : /\ c.conn = ""
                       /\ \/ c.l.op = "<" /\ c.l.b = Lit(Mask(Width(c.l.b.rt)) \div 2, c.l.b.rt)
                          \/ c.l.a.tag = "lit"}

\* gen_block: assignments, early returns and a nested if; never a declaration.
Flat(sc) ==
  LET Few(rt) == {x \in GenExpr(sc, rt) : x.op \in {"wadd", "-", "*", "wrap_from"}
                                          /\ (x.op = "wadd" => x.b.tag = "var")}
  IN  Assigns(sc, Few) \cup {EarlyRet(c, s) : c \in SplitConds(sc), s \in U64Sources(sc)}

GenBlock(sc) ==
  LET flat == Flat(sc)
      some == CHOOSE s \in flat : TRUE
  IN  {<<s>> : s \in flat} \cup {<<some, s>> : s \in flat}
      \cup {<<If(c, <<some>>, <<some, some>>)>> : c \in SplitConds(sc)}

Default(sc) == <<CHOOSE s \in Flat(sc) : TRUE>>

\* Every block under a few conditions, and every condition before one block.
GenBranches(sc) ==
  LET blocks == GenBlock(sc)
      one == CHOOSE b \in blocks : Len(b) = 2
  IN  {<<c, b>> : c \in SplitConds(sc), b \in blocks} \cup {<<c, one>> : c \in GenCond(sc)}

Returned(e, v) == [env |-> e, ret |-> v]
Ended(r, Goes(_)) == IF r.ret = NoRet /\ Goes(r) THEN Returned(r.env, Endless) ELSE r

\* .eval() of the statements; a RetSignal leaves every enclosing block.  A loop
\* is given one turn more than its bound: it must have ended by then.
RECURSIVE EvalBlock(_, _)
EvalStmt(s, e) ==
  CASE s.tag = "assign" -> Returned([e EXCEPT ![s.name] = EvalExpr(s.x, e)], NoRet)
    [] s.tag = "if"     -> EvalBlock(IF EvalCond(s.c, e) THEN s.then ELSE s.els, e)
    [] s.tag = "ret"    -> Returned(e, IF EvalCond(s.c, e) THEN Masked(EvalLeaf(s.src, e), W64)
                                       ELSE NoRet)
    [] s.tag = "while"  ->
         LET Turn(r, i) ==
               IF r.ret # NoRet \/ ~(r.env[s.name] < s.bound) THEN r
               ELSE EvalBlock(s.then, [r.env EXCEPT ![s.name] = @ + 1])
         IN  Ended(FoldLeft(Turn, Returned((s.name :> 0) @@ e, NoRet), [i \in 1 .. s.bound + 1 |-> i]),
                   LAMBDA r : r.env[s.name] < s.bound)
EvalBlock(block, e) ==
  FoldLeft(LAMBDA r, s : IF r.ret # NoRet THEN r ELSE EvalStmt(s, r.env),
           Returned(e, NoRet), block)

(***************************************************************************)
(* The rendered statements.  While becomes a declaration of the counter    *)
(* and a loop whose body starts with the checked `counter = counter + 1`;  *)
(* EarlyRet becomes an `if` around a return.                               *)
(***************************************************************************)
RECURSIVE RunBlock(_, _)
RunStmt(s, m) ==
  CASE s.tag = "assign" -> Returned([m EXCEPT ![s.name].val = MachineExpr(s.x, m)], NoRet)
    [] s.tag = "if"     -> RunBlock(IF MachineCond(s.c, m) THEN s.then ELSE s.els, m)
    [] s.tag = "ret"    -> Returned(m, IF MachineCond(s.c, m) THEN FoldU64(s.src, m) ELSE NoRet)
    [] s.tag = "while"  ->
         LET Turn(r, i) ==
               IF r.ret # NoRet \/ r.env[s.name].val >= s.bound THEN r
               ELSE RunBlock(s.then, [r.env EXCEPT ![s.name].val = (@ + 1) % 2^W64])
         IN  Ended(FoldLeft(Turn, Returned((s.name :> [rt |-> "u64", val |-> 0]) @@ m, NoRet),
                            [i \in 1 .. s.bound + 1 |-> i]),
                   LAMBDA r : r.env[s.name].val < s.bound)
RunBlock(block, m) ==
  FoldLeft(LAMBDA r, s : IF r.ret # NoRet THEN r ELSE RunStmt(s, r.env), Returned(m, NoRet), block)

RECURSIVE BlockTyped(_, _)
StmtTyped(s, m) ==
  CASE s.tag = "assign" -> /\ s.name \in DOMAIN m /\ s.x.rt = m[s.name].rt
                           /\ ExprTyped(s.x, m)
    [] s.tag = "if"     -> CondTyped(s.c, m) /\ BlockTyped(s.then, m) /\ BlockTyped(s.els, m)
    [] s.tag = "ret"    -> CondTyped(s.c, m) /\ LeafTyped(s.src, m)
    [] s.tag = "while"  -> /\ s.name \notin DOMAIN m /\ s.bound <= Mask(W64)
                           /\ BlockTyped(s.then, (s.name :> [rt |-> "u64", val |-> 0]) @@ m)
BlockTyped(block, m) == \A i \in DOMAIN block : StmtTyped(block[i], m)

-----------------------------------------------------------------------------
(* Generation, with both executions in step.                               *)

Names    == <<"v0", "v1", "v2", "v3", "v4", "v5">>
Counters == <<"j0", "j1", "j2", "j3", "j4", "j5">>
NoVars   == [n \in {} |-> 0]

Init ==
  /\ phase = "decl" /\ scope = NoVars /\ order = << >> /\ stmts = 0
  /\ env = NoVars /\ mc = NoVars /\ ret = <<NoRet, NoRet>>
  /\ core = <<0, 0>> /\ extra = <<0, 0>> /\ agree = TRUE /\ sound = TRUE

\* build: `sample` draws different types.
Unused(rt) == VarsOf(scope, rt) = {}

GenDecl(rt) ==
  /\ phase = "decl" /\ Len(order) < MaxDecls /\ Unused(rt)
  /\ LET n == Names[Len(order) + 1]
     IN  \E x \in GenExpr(scope, rt) :
           /\ scope' = (n :> rt) @@ scope
           /\ order' = Append(order, n)
           /\ env' = (n :> EvalExpr(x, env)) @@ env
           /\ mc' = (n :> [rt |-> rt, val |-> MachineExpr(x, mc)]) @@ mc
           /\ sound' = (sound /\ ExprTyped(x, mc))
  /\ UNCHANGED <<phase, stmts, ret, core, extra, agree>>

DeclsDone ==
  /\ phase = "decl" /\ Len(order) = MaxDecls
  /\ phase' = "body"
  /\ UNCHANGED <<scope, order, stmts, env, mc, ret, core, extra, agree, sound>>

MoreStmts == phase = "body" /\ stmts < MaxStmts

\* A top-level statement: evaluated, and run, unless a return came before it.
Emit(s) ==
  /\ stmts' = stmts + 1
  /\ LET e == IF ret[1] = NoRet THEN EvalStmt(s, env) ELSE Returned(env, ret[1])
         m == IF ret[2] = NoRet THEN RunStmt(s, mc) ELSE Returned(mc, ret[2])
     IN  env' = e.env /\ mc' = m.env /\ ret' = <<e.ret, m.ret>>
  /\ sound' = (sound /\ (ret[2] = NoRet => StmtTyped(s, mc)))
  /\ UNCHANGED <<phase, core, extra, agree>>

GenAssign == /\ MoreStmts
             /\ \E s \in Assigns(scope, LAMBDA rt : GenExpr(scope, rt)) : Emit(s)
             /\ UNCHANGED <<scope, order>>

GenIf == /\ MoreStmts
         /\ LET other == Default(scope)
            IN  \E br \in GenBranches(scope) :
                  Emit(If(br[1], br[2], other)) \/ Emit(If(br[1], other, br[2]))
         /\ UNCHANGED <<scope, order>>

Counter == Counters[Len(order) + 1]

\* The counter is live after the loop, not in it.
GenWhile ==
  /\ MoreStmts
  /\ \E bound \in Bounds, b \in GenBlock(scope) : Emit(While(Counter, bound, b))
  /\ scope' = (Counter :> "u64") @@ scope
  /\ order' = Append(order, Counter)

GenEarlyRet == /\ MoreStmts
               /\ \E c \in GenCond(scope), s \in U64Sources(scope) : Emit(EarlyRet(c, s))
               /\ UNCHANGED <<scope, order>>

\* evaluate, and the return of ref_core: the early return, or the XOR of the
\* folds of all variables.  The variables are not read again.
CoreDone ==
  /\ phase = "body" /\ stmts = MaxStmts
  /\ core' = <<IF ret[1] # NoRet THEN ret[1]
               ELSE FoldLeft(LAMBDA acc, n : acc ^^ Masked(env[n], W64), 0, order),
               IF ret[2] # NoRet THEN ret[2]
               ELSE FoldLeft(LAMBDA acc, n : acc ^^ FoldU64(Var(n, scope[n]), mc), 0, order)>>
  /\ phase' = "offset"
  /\ scope' = NoVars /\ order' = << >> /\ env' = NoVars /\ mc' = NoVars
  /\ UNCHANGED <<stmts, ret, extra, agree, sound>>

-----------------------------------------------------------------------------
(* gen_constructs: the observations of ref_extra.  A term is the pair of   *)
(* the expected value and the value the compiled program finds; ref_extra  *)
(* returns the XOR of the terms.                                           *)

WX == 20       \* the u64 of a single term; no term of the model is wider
Term(p, m) == <<p, m % 2^WX>>

Observe(terms, from, to) ==
  /\ phase = from /\ phase' = to
  /\ agree' = (agree /\ \A i \in DOMAIN terms : terms[i][1] = terms[i][2])
  /\ extra' = FoldLeft(LAMBDA acc, t : <<acc[1] ^^ (t[1] % 2^W64), acc[2] ^^ (t[2] % 2^W64)>>,
                       extra, terms)
  /\ UNCHANGED <<scope, order, stmts, env, mc, ret, core>>

XorAll(s) == FoldLeft(LAMBDA acc, v : acc ^^ v, 0, s)

\* _align_up and OffsetStruct.sizeof; fields are <<size, offset>> in bytes.
AlignUp(n, a) == ((n + a - 1) \div a) * a
MaxOf(S) == CHOOSE n \in S : \A k \in S : k <= n
Alignment(fields) == MaxOf({fields[i][1] : i \in DOMAIN fields})

SizeOf(fields) == AlignUp(Last(fields)[2] + Last(fields)[1], Alignment(fields))

\* Mutant of PlaceField: an odd gap is not rounded up to the field's alignment.
PlaceUnaligned(fields, sz, gap) ==
  Append(fields, <<sz, Last(fields)[2] + Last(fields)[1] + gap>>)

PlaceField(fields, sz, gap) ==
  Append(fields, <<sz, AlignUp(Last(fields)[2] + Last(fields)[1] + gap, sz)>>)

RegSizes == {1, 2, 4}
Layouts == {FoldLeft(LAMBDA acc, f : PlaceField(acc, f[1], f[2]), <<<<first, 0>>>>, rest) :
              first \in RegSizes, rest \in UNION {[1 .. k -> RegSizes \X {0, 1, 8}] : k \in 1 .. 2}}

\* The compiler's layout: the least multiple of the alignment that covers
\* every field, at offsets that are aligned and do not overlap.
LayoutSize(fields) ==
  LET end == MaxOf({f[1] + f[2] : f \in ToSet(fields)})
      al == Alignment(fields)
  IN  CHOOSE n \in end .. end + al : n % al = 0 /\ \A k \in end .. n - 1 : k % al # 0
LayoutLegal(fields) ==
  /\ \A i \in DOMAIN fields : fields[i][2] % fields[i][1] = 0
  /\ \A i, j \in DOMAIN fields : i < j => fields[i][2] + fields[i][1] <= fields[j][2]

OffsetFold(size, fields) == XorAll(<<size>> \o [k \in DOMAIN fields |-> fields[k][2] * 2^(4 * k)])

GenOffsetStruct(fields) ==
  LET end == Last(fields)[2] + Last(fields)[1]
  IN  /\ Observe(<<Term(OffsetFold(SizeOf(fields), fields), OffsetFold(LayoutSize(fields), fields)),
                   Term(1, IF end <= LayoutSize(fields) THEN 1 ELSE 0)>>, "offset", "overlay")
      /\ sound' = (sound /\ LayoutLegal(fields) /\ end <= SizeOf(fields))

\* OverlayUnion with bytes of one bit: `nb` of them in u, a half is two.
Lane(u, k, bits) == (u \div 2^(k * bits)) % 2^bits

OverlayExpected(nb, u, hidx, hval) ==
  XorAll(<<u>> \o [k \in 1 .. nb |-> Lane(u, k - 1, 1) * 2^(k - 1)]
         \o [k \in 1 .. nb \div 2 |-> Lane(u, k - 1, 2) * 2^(2 * (k - 1))]
         \o <<hval * 8, nb * 16>>)

\* The program's storage is a row of bytes, the least significant first.
Stored(mem, at, n, v) == [i \in DOMAIN mem |-> IF i \in at .. at + n - 1 THEN Lane(v, i - at, 1) ELSE mem[i]]
Loaded(mem, at, n) == FoldLeft(LAMBDA acc, i : 2 * acc + mem[at + n - i], 0, [i \in 1 .. n |-> i])

OverlayRun(nb, junk, u, hidx, hval) ==
  LET mem == Stored([i \in 0 .. nb - 1 |-> junk], 0, nb, u)
  IN  XorAll(<<Loaded(mem, 0, nb)>> \o [k \in 1 .. nb |-> Loaded(mem, k - 1, 1) * 2^(k - 1)]
             \o [k \in 1 .. nb \div 2 |-> Loaded(mem, 2 * (k - 1), 2) * 2^(2 * (k - 1))]
             \o <<Loaded(Stored(mem, 2 * hidx, 2, hval), 2 * hidx, 2) * 8, nb * 16>>)

GenOverlay(nb, junk, u, hidx, hval) ==
  /\ Observe(<<Term(OverlayExpected(nb, u, hidx, hval), OverlayRun(nb, junk, u, hidx, hval))>>,
             "overlay", "scalar")
  /\ UNCHANGED sound

\* A switch takes the arm of its subject; the last arm may be the wildcard `_`.
Arm(patterns, subj, values) ==
  LET hit == {k \in DOMAIN patterns : patterns[k] \in {subj, "_"}}
  IN  values[CHOOSE k \in hit : \A j \in hit : k <= j]

Wildcard == 7
ScalarExpected(cases, subj) ==
  IF subj \in cases THEN 11 * Cardinality({c \in cases : c <= subj}) ELSE Wildcard

GenScalarSwitch(cases, subj) ==
  LET sorted == SetToSortSeq(cases, LAMBDA a, b : a < b)
      n == Cardinality(cases)
      Reached == [k \in 1 .. n + 1 |-> k > n \/ sorted[k] = subj]
      first == CHOOSE k \in 1 .. n + 1 : Reached[k] /\ \A j \in 1 .. k - 1 : ~Reached[j]
  IN  /\ Observe(<<Term(ScalarExpected(cases, subj), IF first > n THEN Wildcard ELSE 11 * first)>>,
                 "scalar", "enum")
      /\ UNCHANGED sound

GenEnumSwitch(n, pick) ==
  LET variants == [k \in 1 .. n |-> "V" \o ToString(k - 1)]
  IN  /\ Observe(<<Term((pick + 1) * 13, Arm(variants, variants[pick + 1], [k \in 1 .. n |-> 13 * k])),
                   Term((pick + 1) * 17, Arm(variants, variants[pick + 1], [k \in 1 .. n |-> 17 * k]))>>,
                 "enum", "result")
      /\ UNCHANGED sound

GenResultSwitch(is_ok, v) ==
  /\ Observe(<<Term(IF is_ok THEN v ELSE v ^^ 1000,
                    Arm(<<"ok", "err">>, IF is_ok THEN "ok" ELSE "err", <<v, v ^^ 1000>>))>>,
             "result", "union")
  /\ UNCHANGED sound

PayloadCap == 4      \* payloads are drawn below 2^min(w, 32); 32 is scaled to 4

Payloads(w) == {0, 2^(IF w < PayloadCap THEN w ELSE PayloadCap) - 1}

\* The payloads of width w, or the empty case.
GenUnionSwitch(w, pv, empty) ==
  /\ Observe(<<IF empty THEN Term(Wildcard, Arm(<<"case", "empty">>, "empty", <<pv, Wildcard>>))
               ELSE Term(pv, Arm(<<"case", "empty">>, "case", <<pv % 2^w, Wildcard>>))>>,
             "union", "done")
  /\ sound' = (sound /\ (empty \/ pv <= Mask(w)))

Next ==
  \/ \E rt \in DOMAIN REF_TYPES : GenDecl(rt)
  \/ DeclsDone
  \/ GenAssign \/ GenIf \/ GenWhile \/ GenEarlyRet
  \/ CoreDone
  \/ phase = "offset" /\ \E fields \in Layouts : GenOffsetStruct(fields)
  \/ \E nb \in {4, 8}, junk \in {0, 1}, u \in {1, 6, 15}, hval \in 1 .. 3 :
       \E hidx \in 0 .. (nb \div 2) - 1 : GenOverlay(nb, junk, u, hidx, hval)
  \/ \E cases \in {c \in SUBSET (0 .. 3) : Cardinality(c) = 3} :
       \E subj \in cases \cup {99} : GenScalarSwitch(cases, subj)
  \/ \E n \in 2 .. 4 : \E pick \in 0 .. n - 1 : GenEnumSwitch(n, pick)
  \/ \E is_ok \in BOOLEAN, v \in {0, 1000, 1048575} : GenResultSwitch(is_ok, v)
  \/ \E w \in {1, 2, 4, 8}, empty \in BOOLEAN : \E pv \in Payloads(w) : GenUnionSwitch(w, pv, empty)

Spec == Init /\ [][Next]_vars

-----------------------------------------------------------------------------

\* The two readings of the tree agree at every statement: the interpreter has
\* exactly the variables the compiled program has, and each fits its type and
\* has the same value, although Python masks only where .eval() says so; both
\* leave by the same early return.
EnvMatches ==
  /\ DOMAIN env = DOMAIN mc
  /\ \A n \in DOMAIN env : env[n] = mc[n].val /\ env[n] \in 0 .. Mask(Width(mc[n].rt))
  /\ ret[1] = ret[2]

\* "Soundness over coverage" (the module's doc string): whatever is generated
\* is accepted by the compiler and cannot trap, so a rejection or a trap is a
\* fault of the compiler.  Literals fit, operands share a type, every name read
\* is declared, shifts are below the width, offsets are aligned and disjoint.
RenderSound == sound

\* A variable declared after a conditional return is read by the folds only
\* on the paths that declared it, and no loop outlives its bound: neither
\* execution looks up a missing name or hangs.
EvaluatorTotal ==
  /\ \A i \in 1 .. 2 : ret[i] \in {NoRet} \cup 0 .. Mask(W64)
  /\ (phase = "body" /\ ret[1] = NoRet) => DOMAIN env = ToSet(order)

\* The oracle's verdict is sound: harness() and evaluate() give one digest, and
\* no difference between two terms hides behind another in the XOR.
DigestAgrees == phase = "done" => core[1] = core[2] /\ extra[1] = extra[2] /\ agree

\* A mismatch that oracle_reference reports is a fault of the compiler: the
\* interpreter is right about every variable at every statement, about every
\* construct and about the digest, and always has an answer.
InterpreterIsExact == EnvMatches /\ EvaluatorTotal /\ DigestAgrees

=============================================================================
