----------------------------- MODULE MCCompiler -----------------------------
(* Instances of the modules about the compiler, and of the numbers that it *)
(* folds as the runtime computes them, for TLC: the steps are those of one *)
(* of them, which the first state chooses, and the others do not move.     *)
EXTENDS Lexer, Brackets, Grammar, ExprTree, Optimizer, Codegen, Compile, Numeric

CONSTANTS asi, add, mul, aFiber

VARIABLE part

MCAlphabet == {"a", "1", ".", "+", "\"", "'", "\\", "#", " ", "$",
               "@begin", "@end", "@charset", "@?"}
MCLaterLines == {<<"a">>, <<"a", ";", "+">>, <<"1">>, <<"#">>, <<"@begin">>, <<"@end">>,
                 <<" ">>, <<"'">>}
MCBracketTokens == {"var", "(", ")", "[", "]", "{", "}", ",", "x", "1", "->", "[]"}
MCOperands == {<<w>> : w \in {"x", "in", "do", "as", "end", "override", "return", "loop",
                              "foreach", "function"}}
              \cup {<<"x", "=", "x">>, <<"x", "+", "do">>, <<"for", "+", "x">>}
MCLevel == [s \in Signals |-> CASE s = asi -> 1 [] s = add -> 10 [] s = mul -> 11]
MCLines == {Line(k) : k \in {"loop", "end", "function", "try", "catch", "switch", "else",
                             "jump", "plain"}}
           \cup {Cond(k, c) : k \in {"if", "while"}, c \in {"true", "false", "run"}}
           \cup {Cond(k, c) : k \in {"until", "case"}, c \in {"true", "run"}}
MCHalves == {-18, -17, -16, -15, -3, -1, 0, 1, 3, 13, 14, 15, 16, 17}
MCEndPoints == {IntNum(n) : n \in Ints} \cup {FloatNum(n) : n \in {-15, -1, 1, 13}}

MCParts == {"lexer", "brackets", "grammar", "exprTree", "optimizer", "codegen", "compile",
            "numeric"}

MCInit ==
    /\ part \in MCParts
    /\ LexerInit
    /\ BracketsInit
    /\ GrammarInit
    /\ IF part = "exprTree" THEN ExprTreeInit
       ELSE signals = <<asi>> /\ next = 0 /\ tree = EmptyTree /\ rightmost = NoNode
    /\ IF part = "optimizer" THEN OptimizerInit
       ELSE expr = Val(Num(1)) /\ wraps = 0
    /\ CodegenInit
    /\ CompileInit
    /\ IF part = "numeric" THEN NumericInit
       ELSE lhs = NaN /\ rhs = NaN /\ range = Idle

MCVars == <<part, lexerVars, bracketsVars, grammarVars, exprTreeVars, optimizerVars, codegenVars,
            compileVars, numericVars>>

(* Everything but the part that moves stays.                               *)
Only(p) ==
    /\ part = p /\ UNCHANGED part
    /\ p # "lexer" => UNCHANGED lexerVars
    /\ p # "brackets" => UNCHANGED bracketsVars
    /\ p # "grammar" => UNCHANGED grammarVars
    /\ p # "exprTree" => UNCHANGED exprTreeVars
    /\ p # "optimizer" => UNCHANGED optimizerVars
    /\ p # "codegen" => UNCHANGED codegenVars
    /\ p # "compile" => UNCHANGED compileVars
    /\ p # "numeric" => UNCHANGED numericVars

MCNext ==
    \/ Only("lexer") /\ LexerNext
    \/ Only("brackets") /\ BracketsNext
    \/ Only("grammar") /\ GrammarNext
    \/ Only("exprTree") /\ ExprTreeNext
    \/ Only("optimizer") /\ OptimizerNext
    \/ Only("codegen") /\ CodegenNext
    \/ Only("compile") /\ CompileNext
    \/ Only("numeric") /\ NumericNext

MCSpec == MCInit /\ [][MCNext]_MCVars
          /\ WF_MCVars(Only("numeric") /\ (RangeNext \/ RangeDone))
=============================================================================
