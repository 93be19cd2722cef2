----------------------------- MODULE Optimizer -----------------------------
(***************************************************************************)
(* compiler_type::trim_expr(), which checks and rewrites an expression     *)
(* tree, and opt_expr(), which folds what is known at compile time, with   *)
(* the evaluation of runtime_type::parse_expr() they must agree with.      *)
(*                                                                         *)
(* A node is an operator with its operands; a missing one is Nil.  The     *)
(* order in which the operands of a binary operator are evaluated is the   *)
(* C++ compiler's.                                                         *)
(***************************************************************************)
EXTENDS SequencesExt, Integers

CONSTANTS MaxWraps,         \* bound: operators around the innermost operand
          SelfInLists       \* TRUE: self may be in an argument or a parallel list

ASSUME OptimizerAssumption == MaxWraps \in Nat /\ SelfInLists \in BOOLEAN

VARIABLES expr, wraps
optimizerVars == <<expr, wraps>>

Num(n) == [t |-> "num", n |-> n]
Bool(b) == [t |-> "bool", n |-> IF b THEN 1 ELSE 0]
NullVal == [t |-> "null", n |-> 0]
True(v) == v = Bool(TRUE)

Expr(op, v, args) == [op |-> op, v |-> v, args |-> args]
Nil == Expr("nil", NullVal, <<>>)
Val(v) == Expr("val", v, <<>>)
Id(x) == Expr("id", [t |-> x, n |-> 0], <<>>)
Op(op, l, r) == Expr(op, NullVal, <<l, r>>)
Left(e) == e.args[1]
Right(e) == e.args[2]
KnownAtCompileTime == [c |-> Num(2)]
-----------------------------------------------------------------------------
(* compiler_type::find_id_ref(): it does not look into the arguments of a  *)
(* call nor into a parallel expression.                                    *)
RECURSIVE FindIdRef(_, _)
FindIdRef(e, x) ==
    \/ e = Id(x)
    \/ e.op = "call" /\ FindIdRef(Left(e), x)
    \/ e.op \notin {"call", "parallel"} /\ \E i \in DOMAIN e.args : FindIdRef(e.args[i], x)

(* The operands trim_expr() asks for before it trims them.                 *)
Complete(e) ==
    CASE e.op \in {"add", "and", "or", "asi", "addasi", "pair"} -> Left(e) # Nil /\ Right(e) # Nil
      [] e.op \in {"sub", "call"} -> Right(e) # Nil
      [] e.op \in {"inc", "dec"} -> (Left(e) = Nil) # (Right(e) = Nil)
      [] e.op = "choice" -> Left(e) # Nil /\ Right(e).op = "pair"
      [] OTHER -> TRUE

(* trim_expr(): a `-` without a left operand is a minus, a comma collects  *)
(* a parallel expression, an assignment to one binds.  A missing operand   *)
(* makes the whole expression "refused".                                   *)
RefusedExpr == Expr("refused", NullVal, <<>>)
Items(e) == IF e = Nil THEN <<>> ELSE IF e.op = "parallel" THEN e.args ELSE <<e>>
RECURSIVE Trim(_)
Trim(e) ==
    LET args == [i \in DOMAIN e.args |-> Trim(e.args[i])]
    IN CASE ~Complete(e) \/ (\E i \in DOMAIN args : args[i] = RefusedExpr) -> RefusedExpr
         [] e.op = "sub" /\ Left(e) = Nil -> Op("minus", Nil, args[2])
         [] e.op = "com" -> IF args = <<Nil, Nil>> THEN Nil
                            ELSE Expr("parallel", NullVal, Items(args[1]) \o Items(args[2]))
         [] OTHER -> [e EXCEPT !.args = args]
-----------------------------------------------------------------------------
(* parse_expr(): s has the value of the last operand, the variables, the   *)
(* calls made so far and whether something was thrown.                     *)
Start(env) == [v |-> NullVal, env |-> env, calls |-> <<>>, thrown |-> FALSE]
Thrown(s) == [s EXCEPT !.thrown = TRUE, !.v = NullVal]
Yields(s, v) == [s EXCEPT !.v = v]
Added(a, b) == Num((a.n + b.n) % 4)

RECURSIVE Eval(_, _, _)
(* Both operands, in the order the build has.                              *)
EvalOperands(e, s, leftFirst) ==
    LET one == Eval(IF leftFirst THEN Left(e) ELSE Right(e), s, leftFirst)
        two == Eval(IF leftFirst THEN Right(e) ELSE Left(e), one, leftFirst)
    IN [s |-> two, l |-> IF leftFirst THEN one.v ELSE two.v, r |-> IF leftFirst THEN two.v ELSE one.v]

Write(s, to, v, result) ==   \* a constant is not changed
    IF to.op # "id" \/ to.v.t \in DOMAIN KnownAtCompileTime THEN Thrown(s)
    ELSE [s EXCEPT !.env[to.v.t] = v, !.v = result]

EvalBinary(e, s, leftFirst) ==
    LET o == EvalOperands(e, s, leftFirst)
    IN IF o.s.thrown THEN o.s
       ELSE IF e.op = "asi" THEN Write(o.s, Left(e), o.r, o.r)
       ELSE IF o.l.t # "num" \/ o.r.t # "num" THEN Thrown(o.s)
       ELSE CASE e.op = "add" -> Yields(o.s, Added(o.l, o.r))
              [] e.op = "addasi" -> Write(o.s, Left(e), Added(o.l, o.r), Added(o.l, o.r))
              [] e.op \in {"sub", "pair"} -> Yields(o.s, Num((o.l.n - o.r.n) % 4))

(* parse_and(), parse_or() and parse_choice() evaluate what they need.     *)
EvalLazy(e, s, leftFirst) ==
    LET l == Eval(Left(e), s, leftFirst)
        done == l.v = Bool(e.op = "or")
        r == Eval(Right(e), l, leftFirst)
    IN IF l.thrown \/ l.v.t # "bool" THEN Thrown(l)
       ELSE IF e.op = "choice" THEN Eval(Right(e).args[IF True(l.v) THEN 1 ELSE 2], l, leftFirst)
       ELSE IF done THEN l
       ELSE IF r.v.t # "bool" THEN Thrown(r) ELSE r

EvalUnary(e, s, leftFirst) ==
    LET a == Eval(Right(e), s, leftFirst)
    IN IF a.thrown THEN a
       ELSE IF a.v.t # "num" THEN Thrown(a)
       ELSE CASE e.op = "minus" -> Yields(a, Num((-a.v.n) % 4))
              [] e.op = "inc" -> Write(a, Right(e), Added(a.v, Num(1)), Added(a.v, Num(1)))

(* parse_fcall() of a function of the runtime that may be folded, abs, and *)
(* of one that has effects, print.                                         *)
EvalCall(e, s, leftFirst) ==
    LET a == Eval(Right(e), s, leftFirst)
    IN IF a.thrown THEN a
       ELSE IF Left(e) = Id("print") THEN [a EXCEPT !.calls = Append(@, a.v)]
       ELSE IF a.v.t # "num" THEN Thrown(a) ELSE a

Eval(e, s, leftFirst) ==
    IF s.thrown THEN s
    ELSE CASE e.op = "nil" -> Yields(s, NullVal)
           [] e.op = "val" -> Yields(s, e.v)
           [] e.op = "id" -> IF e.v.t \in DOMAIN s.env THEN Yields(s, s.env[e.v.t]) ELSE Thrown(s)
           [] e.op \in {"and", "or", "choice"} -> EvalLazy(e, s, leftFirst)
           [] e.op \in {"minus", "inc"} -> EvalUnary(e, s, leftFirst)
           [] e.op = "call" -> EvalCall(e, s, leftFirst)
           [] e.op = "parallel" -> FoldSeq(LAMBDA a, t : Eval(a, t, leftFirst), s, e.args)
           [] OTHER -> EvalBinary(e, s, leftFirst)
-----------------------------------------------------------------------------
(* opt_expr() evaluates an operator whose operands are all known, and      *)
(* leaves it when that throws.                                             *)
Optimizable(e) == e.op \in {"val", "nil"}
Folded(e) == LET s == Eval(e, Start(KnownAtCompileTime), TRUE)
             IN IF s.thrown THEN e ELSE Val(s.v)

(* get_var_optimizable(): a constant is replaced by its value.             *)
OptId(e) == IF e.v.t \in DOMAIN KnownAtCompileTime THEN Val(KnownAtCompileTime[e.v.t]) ELSE e

(* A call is folded when its function asks for it.                         *)
FoldsAnyCall(e, a) == \* MUTANT: is_request_fold() is not asked
    IF Optimizable(a) THEN Folded(Op("call", Left(e), a)) ELSE Op("call", Left(e), a)
OptCall(e, a) ==
    LET call == Op("call", Left(e), a)
    IN IF Left(e) = Id("abs") /\ Optimizable(a) THEN Folded(call) ELSE call

(* A constant condition keeps one branch; one that is not boolean refuses  *)
(* the expression.                                                         *)
OptChoice(c, l, r) ==
    IF c.op # "val" THEN Op("choice", c, Op("pair", l, r))
    ELSE IF c.v.t # "bool" THEN RefusedExpr ELSE IF True(c.v) THEN l ELSE r

RECURSIVE Opt(_)
Opt(e) ==
    LET args == [i \in DOMAIN e.args |-> Opt(e.args[i])]
        new == [e EXCEPT !.args = args]
        choice == OptChoice(args[1], Opt(Left(Right(e))), Opt(Right(Right(e))))
    IN CASE e.op \in {"val", "nil"} -> e
         [] e.op = "id" -> OptId(e)
         [] e.op \in {"inc", "addasi"} -> e       \* write semantics
         [] e.op = "choice" ->
                IF \E a \in {args[1], Opt(Left(Right(e))), Opt(Right(Right(e)))} : a = RefusedExpr
                THEN RefusedExpr ELSE choice
         [] \E i \in DOMAIN args : args[i] = RefusedExpr -> RefusedExpr
         [] e.op \in {"asi", "parallel"} -> new
         [] e.op = "call" -> OptCall(e, args[2])
         [] OTHER -> IF \A i \in DOMAIN args : Optimizable(args[i]) THEN Folded(new) ELSE new
-----------------------------------------------------------------------------
Leaves == {Val(Num(1)), Val(Bool(TRUE)), Val(Bool(FALSE)), Id("c"), Id("x"), Id("self")}
FreeIds == {Id("c"), Id("x")}
OptimizerInit == expr \in Leaves /\ wraps = 0

Grow(e) == wraps < MaxWraps /\ expr' = e /\ wraps' = wraps + 1
WrapBinary == \E op \in {"add", "sub", "and", "or"}, a \in Leaves \cup {Nil} :
                  \/ Grow(Op(op, expr, a))
                  \/ Grow(Op(op, a, expr))
ListsFit(e) == SelfInLists \/ ~FindIdRef(e, "self")
WrapParallel == \E a \in Leaves \cup {Nil} :
                    /\ ListsFit(expr) /\ ListsFit(a)
                    /\ Grow(Op("com", expr, a)) \/ Grow(Op("com", a, expr))
WrapChoice == \E a \in Leaves, b \in {Val(Num(1)), Id("x")} :
                  \/ Grow(Op("choice", expr, Op("pair", a, b)))
                  \/ Grow(Op("choice", a, Op("pair", expr, b)))
                  \/ Grow(Op("choice", a, Op("pair", b, expr)))
WrapWrite == \E n \in FreeIds : \/ Grow(Op("asi", n, expr))
                              \/ Grow(Op("addasi", n, expr))
WrapCall == \E f \in {Id("abs"), Id("print")} :
                /\ ListsFit(expr)
                /\ Grow(Op("call", f, expr))
Step == \E n \in FreeIds : expr = n /\ Grow(Op("inc", Nil, n))

OptimizerNext == WrapBinary \/ WrapParallel \/ WrapChoice \/ WrapWrite \/ WrapCall \/ Step
OptimizerSpec == OptimizerInit /\ [][OptimizerNext]_optimizerVars
-----------------------------------------------------------------------------
Meaning(e, env, leftFirst) == Eval(e, Start(env), leftFirst)
Environments == {[c |-> Num(2), x |-> v, self |-> Num(3)] : v \in {Num(0), Bool(TRUE), Bool(FALSE)}}

(* An optimized expression has the value, the writes, the calls and the    *)
(* failure of the one that was written, in every order of evaluation.      *)
OptimizedMeansTheSame ==
    LET trimmed == Trim(expr)
        opt == IF trimmed = RefusedExpr THEN RefusedExpr ELSE Opt(trimmed)
    IN opt # RefusedExpr =>
           \A env \in Environments, leftFirst \in BOOLEAN :
               Meaning(opt, env, leftFirst) = Meaning(trimmed, env, leftFirst)

(* Trimming refuses an expression exactly when an operand is missing       *)
(* somewhere, and no operator it lets through is short of one.             *)
RECURSIVE WholeExpr(_)
WholeExpr(e) ==
    /\ e.op \in {"add", "and", "or", "asi", "addasi"} => Left(e) # Nil
    /\ e.op \notin {"com", "val", "id", "nil"} => Right(e) # Nil
    /\ \A i \in DOMAIN e.args : WholeExpr(e.args[i])
TrimRefusesHoles == Trim(expr) # RefusedExpr <=> WholeExpr(expr)

(* A lambda that mentions self gets it as its hidden argument.             *)
RECURSIVE Mentions(_, _)
Mentions(e, x) == e = Id(x) \/ \E i \in DOMAIN e.args : Mentions(e.args[i], x)
LambdasBindSelf ==
    Trim(expr) # RefusedExpr => (FindIdRef(Trim(expr), "self") <=> Mentions(expr, "self"))

(* Optimizing changes the form of an expression only: it means the same,   *)
(* it is refused only for a missing operand, and a lambda that mentions    *)
(* itself is bound (trim_expr and opt_expr).                               *)
OptimizerInv ==
    /\ OptimizedMeansTheSame
    /\ TrimRefusesHoles
    /\ LambdasBindSelf
=============================================================================
