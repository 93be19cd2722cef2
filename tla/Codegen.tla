------------------------------ MODULE Codegen ------------------------------
(***************************************************************************)
(* From lines to statements: translator_type::translate() matches blocks   *)
(* with their ends and has each method (compiler/codegen.cpp) generate the *)
(* statement, folding away what a constant condition decides.  A body is   *)
(* translated again, from its own lines, when its block is closed.         *)
(*                                                                         *)
(* A line is the kind of its method and, where it has a condition, what    *)
(* the compiler knows of it.                                               *)
(***************************************************************************)
EXTENDS SequencesExt, FiniteSetsExt, Integers

CONSTANTS Lines,          \* the lines a source may have
          MaxLines,       \* bound: lines of a source
          JumpsInUntil    \* TRUE: a loop with `until true` may have jumps

ASSUME CodegenAssumption ==
    /\ MaxLines \in Nat
    /\ JumpsInUntil \in BOOLEAN

VARIABLE source   \* the lines so far
codegenVars == <<source>>

Line(k) == [k |-> k, cond |-> "run"]
Cond(k, c) == [k |-> k, cond |-> c]
IsBlock(l) == l.k \in {"if", "while", "loop", "function", "try", "switch", "case"}
IsLoop(l) == l.k \in {"while", "loop"}
IsEnd(l) == l.k \in {"end", "until"}
IsMarker(l) == l.k \in {"else", "catch"}

(* The line that closes the block opened by line i of a source, or 0.      *)
Count(s, i, j, Test(_)) == Cardinality({n \in i .. j : Test(s[n])})
Closing(s, i) ==
    LET closed == {j \in (i + 1) .. Len(s) : Count(s, i, j, IsBlock) = Count(s, i, j, IsEnd)}
    IN IF closed = {} THEN 0 ELSE Min(closed)

(* The blocks around line n, and the innermost.                            *)
Around(s, n) ==
    {i \in 1 .. (n - 1) : IsBlock(s[i]) /\ (Closing(s, i) = 0 \/ Closing(s, i) > n)}
Innermost(s, n) == Max({0} \cup Around(s, n))
LoopsAround(s, n) ==
    LET function == Max({0} \cup {i \in Around(s, n) : s[i].k = "function"})
    IN {i \in Around(s, n) : IsLoop(s[i]) /\ i > function}
-----------------------------------------------------------------------------
Stmt(k, at, body, alt) == <<[k |-> k, at |-> at, body |-> body, alt |-> alt]>>
Refused == [ok |-> FALSE, code |-> <<>>]
Code(c) == [ok |-> TRUE, code |-> c]
Markers(code, k) == {n \in DOMAIN code : code[n].k = k}
Before(code, k) == SubSeq(code, 1, Min(Markers(code, k)) - 1)
After(code, k) ==
    SelectSeq(SubSeq(code, Min(Markers(code, k)), Len(code)), LAMBDA s : s.k # k)

(* method_if::translate(): a constant condition leaves a bare block or     *)
(* nothing.                                                                *)
GenerateIfSwapped(l, at, code) == \* MUTANT: the branches of a constant `if` are swapped
    LET main == IF Markers(code, "else") = {} THEN code ELSE Before(code, "else")
        alt == IF Markers(code, "else") = {} THEN <<>> ELSE After(code, "else")
    IN IF Cardinality(Markers(code, "else")) > 1 THEN Refused
       ELSE CASE l.cond = "run" -> Code(Stmt("if", at, main, alt))
              [] l.cond = "false" -> Code(Stmt("block", at, main, <<>>))
              [] l.cond = "true" -> Code(IF Markers(code, "else") = {} THEN <<>>
                                          ELSE Stmt("block", at, alt, <<>>))

GenerateIf(l, at, code) ==
    LET main == IF Markers(code, "else") = {} THEN code ELSE Before(code, "else")
        alt == IF Markers(code, "else") = {} THEN <<>> ELSE After(code, "else")
    IN IF Cardinality(Markers(code, "else")) > 1 THEN Refused
       ELSE CASE l.cond = "run" -> Code(Stmt("if", at, main, alt))
              [] l.cond = "true" -> Code(Stmt("block", at, main, <<>>))
              [] l.cond = "false" -> Code(IF Markers(code, "else") = {} THEN <<>>
                                          ELSE Stmt("block", at, alt, <<>>))

(* method_while, method_loop and method_until::translate_end().            *)
GenerateLoop(l, close, at, code) ==
    LET cond == IF l.k = "while" THEN l.cond
                ELSE IF close.k = "end" THEN "true"
                ELSE IF close.cond = "run" THEN "run"
                ELSE IF close.cond = "true" THEN "once" ELSE "true"
    IN IF close.k = "until" /\ l.k # "loop" THEN Refused
       ELSE CASE cond = "run" -> Code(Stmt(l.k, at, code, <<>>))
              [] cond = "true" -> Code(Stmt("loop", at, code, <<>>))
              [] cond = "once" -> Code(Stmt("block", at, code, <<>>))
              [] cond = "false" -> Code(<<>>)

(* method_try: every `catch` ends the guarded part.  method_switch and     *)
(* method_case: only cases, with constant labels.                          *)
GenerateOther(l, at, code) ==
    CASE l.k = "function" -> Code(Stmt("function", at, code, <<>>))
      [] l.k = "try" -> IF Markers(code, "catch") = {} THEN Refused
                        ELSE Code(Stmt("try", at, Before(code, "catch"), After(code, "catch")))
      [] l.k = "switch" -> IF Markers(code, "case") # DOMAIN code THEN Refused
                           ELSE Code(Stmt("switch", at, code, <<>>))
      [] l.k = "case" -> IF l.cond = "run" THEN Refused ELSE Code(Stmt("case", at, code, <<>>))

Generate(l, close, at, code) ==
    IF IsLoop(l) THEN GenerateLoop(l, close, at, code)
    ELSE IF close.k = "until" THEN Refused
    ELSE IF l.k = "if" THEN GenerateIf(l, at, code)
    ELSE GenerateOther(l, at, code)

(* loop_depth in the body of a block: method_function has a guard that     *)
(* starts a function at 0.                                                 *)
FunctionKeepsDepth(l, depth) == \* MUTANT: no fn_guard
    IF IsLoop(l) THEN depth + 1 ELSE depth
BodyDepth(l, depth) ==
    IF IsLoop(l) THEN depth + 1 ELSE IF l.k = "function" THEN 0 ELSE depth

(* translate() of lines from .. to: a block up to its end, or one line;    *)
(* method_break and method_continue ask loop_depth.                        *)
RECURSIVE Translate(_, _, _, _)
Translate(s, from, to, depth) ==
    IF from > to THEN Code(<<>>)
    ELSE LET l == s[from]
             close == Closing(s, from)
             body == Translate(s, from + 1, close - 1, BodyDepth(l, depth))
             first == IF IsEnd(l) \/ (l.k = "jump" /\ depth = 0) THEN Refused
                      ELSE IF ~IsBlock(l) THEN Code(Stmt(l.k, from, <<>>, <<>>))
                      ELSE IF close = 0 \/ ~body.ok THEN Refused
                      ELSE Generate(l, s[close], from, body.code)
             rest == Translate(s, IF IsBlock(l) THEN close + 1 ELSE from + 1, to, depth)
         IN IF first.ok /\ rest.ok THEN Code(first.code \o rest.code) ELSE Refused

Compiled == Translate(source, 1, Len(source), 0)
-----------------------------------------------------------------------------
CodegenInit == source = <<>>

Open == Around(source, Len(source) + 1)
(* Sources that the compiler turns away at once are left out, and those    *)
(* with an `else` outside of an `if` or a `catch` outside of a `try`, that *)
(* it does not turn away.                                                  *)
Fits(l) ==
    LET inner == Innermost(source, Len(source) + 1)
        k == IF inner = 0 THEN "top" ELSE source[inner].k
    IN /\ IsEnd(l) => inner # 0
       /\ Len(source) + 1 + Cardinality(Open) + (IF IsBlock(l) THEN 1 ELSE IF IsEnd(l) THEN -1 ELSE 0)
              <= MaxLines
       /\ IsMarker(l) => (l.k = "else" /\ k = "if") \/ (l.k = "catch" /\ k = "try")
       /\ l.k = "case" <=> (k = "switch" /\ ~IsEnd(l))
       /\ (l.k = "until" /\ l.cond = "true") =>
              \/ JumpsInUntil
              \/ \A n \in DOMAIN source :
                     source[n].k = "jump" => Max({0} \cup LoopsAround(source, n)) # inner

WriteLine(l) ==
    /\ Fits(l)
    /\ source' = Append(source, l)

CodegenNext == \E l \in Lines : WriteLine(l)
CodegenSpec == CodegenInit /\ [][CodegenNext]_codegenVars
-----------------------------------------------------------------------------
(* What is left of the lines of kind k, in order: each with the loop that  *)
(* takes its jumps.                                                        *)
RECURSIVE FoundLine(_, _, _)
FoundLine(code, k, loop) ==
    IF code = <<>> THEN <<>>
    ELSE LET s == Head(code)
             inner == IF s.k \in {"while", "loop"} THEN s.at
                      ELSE IF s.k = "function" THEN 0 ELSE loop
         IN (IF s.k = k THEN <<[at |-> s.at, loop |-> loop]>> ELSE <<>>)
            \o FoundLine(s.body, k, inner) \o FoundLine(s.alt, k, inner) \o FoundLine(Tail(code), k, loop)

(* The source is one the language has: blocks are closed, jumps have a     *)
(* loop in their function, `until` closes a `loop`, an `if` has at most    *)
(* one `else`, a `try` has a `catch`, labels are constant.                 *)
In(n, k) == Innermost(source, n) # 0 /\ source[Innermost(source, n)].k = k
MarkersOf(i, k) == {n \in DOMAIN source : source[n].k = k /\ Innermost(source, n) = i}
WellFormed ==
    \A n \in DOMAIN source :
        LET l == source[n]
        IN /\ IsBlock(l) => Closing(source, n) # 0
           /\ l.k = "jump" => LoopsAround(source, n) # {}
           /\ l.k = "until" => \E i \in DOMAIN source : source[i].k = "loop" /\ Closing(source, i) = n
           /\ l.k = "if" => Cardinality(MarkersOf(n, "else")) <= 1
           /\ l.k = "try" => MarkersOf(n, "catch") # {}
           /\ l.k = "case" => l.cond # "run"
AcceptsTheLanguage == Compiled.ok <=> WellFormed

(* Folding drops only statements that a constant condition makes           *)
(* unreachable, and keeps the others in their order.                       *)
DeadIn(i, n) ==
    LET past == \E m \in MarkersOf(i, "else") : m < n
    IN \/ source[i].k = "while" /\ source[i].cond = "false"
       \/ source[i].k = "if" /\ source[i].cond = (IF past THEN "true" ELSE "false")
Alive == SelectSeq([n \in DOMAIN source |-> n],
                   LAMBDA n : source[n].k = "plain" /\ \A i \in Around(source, n) : ~DeadIn(i, n))
FoldingKeepsReachable ==
    Compiled.ok => LET f == FoundLine(Compiled.code, "plain", 0)
                   IN [n \in DOMAIN f |-> f[n].at] = Alive

(* A break or continue leaves the loop it is written in: a function for    *)
(* which a loop was folded would let it leave another one ("Invalid 'break'*)
(* statement: not inside any loop" is what the compiler says of a jump     *)
(* that has none).                                                         *)
JumpsKeepTheirLoop ==
    Compiled.ok => LET f == FoundLine(Compiled.code, "jump", 0)
                   IN \A n \in DOMAIN f :
                          f[n].loop = Max({0} \cup LoopsAround(source, f[n].at))

(* Translating blocks folds away only what cannot be reached, and every    *)
(* jump still leaves the loop it is written in (the methods of             *)
(* codegen.cpp).                                                           *)
CodegenInv ==
    /\ FoldingKeepsReachable
    /\ JumpsKeepTheirLoop
=============================================================================
