------------------------------ MODULE Brackets ------------------------------
(***************************************************************************)
(* Brackets and calls: process_empty_brackets() and process_brackets()     *)
(* (lexer.cpp) turn the tokens of a line into nested lists, kill_brackets()*)
(* (parser.cpp) turns the lists into calls, indices, arrays and lambdas,   *)
(* and split_token() takes signals and objects apart for the tree.         *)
(*                                                                         *)
(* A line may begin with "var", for any keyword whose declarations         *)
(* kill_brackets() marks one by one: var, link, constant and import.       *)
(***************************************************************************)
EXTENDS SequencesExt, FiniteSets, Integers

CONSTANTS BracketTokens,   \* the tokens of a line
          MaxRow           \* bound: tokens of a line

ASSUME BracketsAssumption == MaxRow \in Nat /\ "" \notin BracketTokens

VARIABLE row   \* the tokens of the line so far
bracketsVars == <<row>>

Opening == {"(", "[", "{"}
Closing3 == {")", "]", "}"}
Closes == [o \in Opening |-> CASE o = "(" -> ")" [] o = "[" -> "]" [] o = "{" -> "}"]
EmptyPair == [o \in Opening |-> CASE o = "(" -> "()" [] o = "[" -> "[]" [] o = "{" -> "{}"]
Plain(t) == [t |-> t, items |-> <<>>]
List(open, items) == [t |-> open, items |-> items]
-----------------------------------------------------------------------------
(* process_empty_brackets(): an opening bracket is held back until the     *)
(* next token is seen.                                                     *)
Held(s) == IF s.empty THEN Append(s.out, Last(s.stack)) ELSE s.out
HoldsOne(s, t) == \* MUTANT: a second opening bracket replaces the one held back
    [s EXCEPT !.stack = Append(@, t), !.empty = TRUE]

HoldBack(s, t) == [s EXCEPT !.out = Held(s), !.stack = Append(@, t), !.empty = TRUE]
CloseEmpty(s, t) ==
    IF s.stack = <<>> \/ Closes[Last(s.stack)] # t THEN [s EXCEPT !.ok = FALSE]
    ELSE [s EXCEPT !.stack = Front(@), !.empty = FALSE,
                   !.out = Append(@, IF s.empty THEN EmptyPair[Last(s.stack)] ELSE t)]

EmptyBrackets(ts) ==
    LET s == FoldLeft(LAMBDA s, t : IF ~s.ok THEN s
                                    ELSE IF t \in Opening THEN HoldBack(s, t)
                                    ELSE IF t \in Closing3 THEN CloseEmpty(s, t)
                                    ELSE [s EXCEPT !.out = Append(Held(s), t), !.empty = FALSE],
                      [out |-> <<>>, stack |-> <<>>, empty |-> FALSE, ok |-> TRUE], ts)
    IN [ok |-> s.ok /\ s.stack = <<>> /\ ts # <<>>, out |-> s.out]

(* process_brackets(): the outermost brackets and the commas right inside  *)
(* of them make a list, each item is processed again.                      *)
RECURSIVE Grouped(_)
TakeItem(s) ==
    LET item == Grouped(s.item)
    IN [s EXCEPT !.items = Append(@, item.out), !.item = <<>>, !.ok = item.ok]
CommaSplits(s) == Len(s.stack) = 1
GroupStep(s, t) ==
    CASE ~s.ok -> s
      [] s.ok /\ s.stack = <<>> /\ t \in Opening -> [s EXCEPT !.stack = <<t>>]
      [] s.ok /\ s.stack # <<>> /\ t \in Closing3 /\ Len(s.stack) = 1 ->
             LET last == TakeItem(s)
             IN [last EXCEPT !.out = Append(@, List(s.stack[1], last.items)), !.items = <<>>,
                             !.stack = <<>>]
      [] s.ok /\ s.stack # <<>> /\ t = "," /\ CommaSplits(s) -> TakeItem(s)
      [] OTHER -> IF s.stack = <<>> THEN [s EXCEPT !.out = Append(@, Plain(t))]
                  ELSE [s EXCEPT !.item = Append(@, t),
                                 !.stack = IF t \in Opening THEN Append(@, t)
                                           ELSE IF t \in Closing3 THEN Front(@) ELSE @]
Grouped(ts) ==
    LET e == EmptyBrackets(ts)
        s == FoldLeft(GroupStep, [out |-> <<>>, items |-> <<>>, item |-> <<>>, stack |-> <<>>,
                                  ok |-> e.ok], e.out)
    IN [ok |-> s.ok, out |-> s.out]
-----------------------------------------------------------------------------
(* split_token() and build_tree(): signals and objects take turns, only an *)
(* object may be missing.  A keyword is no part of an expression.          *)
Signals3 == {"+", ",", "->", "[]", "fcall", "access", "lambda", "varchk"}
IsTree(ts) ==
    \/ Len(ts) = 1
    \/ /\ \E i \in DOMAIN ts : ts[i].t \in Signals3
       /\ \A i \in 1 .. (Len(ts) - 1) : ts[i].t \in Signals3 \/ ts[i + 1].t \in Signals3

(* kill_brackets().  `call` is expected_fcall, `lambda` expected_lambda,   *)
(* `decl` insert_varchk or insert_vardef.                                  *)
RECURSIVE Killed(_)
KillItems(l) == [i \in DOMAIN l.items |-> Killed(l.items[i])]
ItemsOk(items) == \A i \in DOMAIN items : items[i].ok
AreTrees(items) == \A i \in DOMAIN items : items[i].ok /\ IsTree(items[i].out)
Outs(items) == [i \in DOMAIN items |-> items[i].out]

CallWithoutSignal(s, items) == \* MUTANT: the fcall signal is forgotten
    [s EXCEPT !.out = Append(@, List("arglist", items))]
Called(s, items) ==
    [s EXCEPT !.out = (IF s.lambda THEN @ ELSE Append(@, Plain("fcall")))
                      \o <<List("arglist", items)>>]

KillParentheses(s, l) ==
    LET items == KillItems(l)
    IN IF s.call THEN [Called(s, Outs(items)) EXCEPT !.ok = AreTrees(items)]
       ELSE [s EXCEPT !.out = Append(@, List("(", Outs(items))), !.call = TRUE, !.ok = ItemsOk(items)]
KillIndex(s, l) ==
    LET items == KillItems(l)
    IN [s EXCEPT !.out = @ \o <<Plain("access"), List("expr", Outs(items))>>, !.call = TRUE,
                 !.ok = Len(items) = 1 /\ AreTrees(items)]
KillArray(s, l) ==
    LET items == KillItems(l)
    IN [s EXCEPT !.out = Append(@, List("array", Outs(items))), !.call = FALSE, !.ok = AreTrees(items)]

KillStep(s, l) ==
    LET pushed == [s EXCEPT !.out = Append(@, l)]
    IN CASE ~s.ok -> s
         [] s.ok /\ l.t = "var" -> [s EXCEPT !.out = <<Plain("varchk")>>, !.call = FALSE, !.decl = TRUE]
         [] s.ok /\ l.t = "," /\ s.decl -> [pushed EXCEPT !.out = Append(@, Plain("varchk"))]
         [] s.ok /\ l.t = "x" -> [pushed EXCEPT !.call = TRUE]
         [] s.ok /\ l.t = "1" -> [pushed EXCEPT !.call = FALSE]
         [] s.ok /\ l.t = "(" -> KillParentheses(s, l)
         [] s.ok /\ l.t = "[" -> KillIndex(s, l)
         [] s.ok /\ l.t = "{" -> KillArray(s, l)
         [] s.ok /\ l.t = "->" -> IF s.lambda
                THEN [s EXCEPT !.out = Append(@, Plain("lambda")), !.lambda = FALSE, !.call = FALSE]
                ELSE [pushed EXCEPT !.lambda = FALSE, !.call = FALSE]
         [] s.ok /\ l.t = "()" -> [Called(s, <<>>) EXCEPT !.ok = s.call, !.call = FALSE]
         [] s.ok /\ l.t = "[]" -> [pushed EXCEPT !.call = TRUE, !.lambda = TRUE]
         [] s.ok /\ l.t = "{}" -> [s EXCEPT !.out = Append(@, List("array", <<>>)), !.call = FALSE]
         [] OTHER -> [pushed EXCEPT !.lambda = FALSE, !.call = FALSE]

Killed(ts) ==
    LET s == FoldLeft(KillStep, [out |-> <<>>, call |-> FALSE, lambda |-> FALSE, decl |-> FALSE,
                                ok |-> TRUE], ts)
    IN [ok |-> s.ok, out |-> s.out]

(* gen_tree(): the items of parentheses that are no call become one        *)
(* expression, joined by commas.                                           *)
RECURSIVE HasTree(_)
Joined(items) ==
    FoldLeftDomain(LAMBDA ts, i : ts \o (IF i > 1 THEN <<Plain(",")>> ELSE <<>>) \o items[i], <<>>, items)
HasTree(ts) ==
    /\ IsTree(ts)
    /\ \A i \in DOMAIN ts : IF ts[i].t = "(" THEN HasTree(Joined(ts[i].items))
                            ELSE \A j \in DOMAIN ts[i].items : HasTree(ts[i].items[j])

Parsed(ts) ==
    LET g == Grouped(ts)
        k == Killed(g.out)
    IN [ok |-> g.ok /\ k.ok /\ HasTree(k.out), out |-> k.out]
-----------------------------------------------------------------------------
(* The brackets that are open at the end; a wrong one stays.               *)
Depths(ts) ==
    FoldLeft(LAMBDA st, t : IF t \in Opening THEN Append(st, t)
                            ELSE IF t \notin Closing3 THEN st
                            ELSE IF st # <<>> /\ Last(st) \in Opening /\ Closes[Last(st)] = t THEN Front(st)
                            ELSE Append(st, ")"),
             <<>>, ts)
BracketsInit == row = <<>>
AppendToken(t) ==
    /\ Len(row) + Len(Depths(Append(row, t))) < MaxRow
    /\ ToSet(Depths(row)) \subseteq Opening
    /\ t = "var" => row = <<>>
    /\ row' = Append(row, t)
BracketsNext == \E t \in BracketTokens : AppendToken(t)
BracketsSpec == BracketsInit /\ [][BracketsNext]_bracketsVars
-----------------------------------------------------------------------------
Balanced(ts) == Depths(ts) = <<>>
Inside3(ts, i) == Len(Depths(SubSeq(ts, 1, i))) > 0

(* The brackets of a line make lists exactly when they are closed in order *)
(* and no item between them is missing, however deep and empty they are.   *)
HasItems(ts) ==
    \A i \in DOMAIN ts :
        ts[i] = "," /\ Inside3(ts, i) => /\ ts[i - 1] \notin Opening \cup {","}
                                         /\ ts[i + 1] \notin Closing3 \cup {","}
GroupsWhatIsBalanced ==
    row # <<>> => (Grouped(row).ok <=> Balanced(row) /\ HasItems(row))

(* The lists written out again are the tokens of the line: nothing is lost *)
(* or moved between items.                                                 *)
Spelled(t) == IF \E o \in Opening : t = EmptyPair[o]
              THEN LET o == CHOOSE o \in Opening : t = EmptyPair[o] IN <<o, Closes[o]>> ELSE <<t>>
RECURSIVE Ungrouped(_)
WrittenList(l) ==
    IF l.t \in Opening
    THEN <<l.t>> \o FlattenSeq([i \in DOMAIN l.items |->
                                   (IF i > 1 THEN <<",">> ELSE <<>>) \o Ungrouped(l.items[i])])
         \o <<Closes[l.t]>>
    ELSE Spelled(l.t)
Ungrouped(ls) == FlattenSeq([i \in DOMAIN ls |-> WrittenList(ls[i])])
ListsAreTheTokens ==
    row # <<>> /\ Grouped(row).ok =>
        Ungrouped(Grouped(row).out) = FlattenSeq([i \in DOMAIN row |-> Spelled(row[i])])

IsSignal(l) == l.t \in {"+", ",", "->", "[]"}
MayFollow(l, before) ==
    CASE l.t \in {"x", "1", "{", "{}"} -> IsSignal(before)
      [] l.t = "(" -> IsSignal(before) \/ before.t \in {"x", "(", "["}
      [] l.t = "()" -> before.t \in {"x", "(", "[", "[]"}
      [] OTHER -> TRUE
RECURSIVE IsExpression(_)
IsExpression(ls) ==
    /\ ls[1].t # "()"
    /\ \A i \in 2 .. Len(ls) : MayFollow(ls[i], ls[i - 1])
    /\ \A i \in DOMAIN ls : /\ ls[i].t = "[" => Len(ls[i].items) = 1
                            /\ \A j \in DOMAIN ls[i].items : IsExpression(ls[i].items[j])
RECURSIVE LambdasAreWhole(_)
LambdasAreWhole(ls) ==
    /\ \A i \in DOMAIN ls : ls[i].t = "[]" =>
           Len(ls) >= i + 2 /\ ls[i + 1].t \in {"(", "()"} /\ ls[i + 2].t = "->"
    /\ \A i \in DOMAIN ls : \A j \in DOMAIN ls[i].items : LambdasAreWhole(ls[i].items[j])

(* What the parentheses of a line are, in their order: the arguments of    *)
(* the operand right before them, or a part of an expression.              *)
Applies(ls, i) == ls[i].t = "()" \/ (i > 1 /\ ls[i - 1].t \in {"x", "(", "[", "[]"})
RECURSIVE Roles(_)
Roles(ls) ==
    FlattenSeq([i \in DOMAIN ls |->
        (IF ls[i].t \notin {"(", "()"} THEN <<>>
         ELSE IF Applies(ls, i) THEN <<"arglist">> ELSE <<"(">>)
        \o FlattenSeq([j \in DOMAIN ls[i].items |-> Roles(ls[i].items[j])])])
RECURSIVE RolesIn(_)
RolesIn(out) ==
    FlattenSeq([i \in DOMAIN out |->
        (IF out[i].t \in {"arglist", "("} THEN <<out[i].t>> ELSE <<>>)
        \o FlattenSeq([j \in DOMAIN out[i].items |-> RolesIn(out[i].items[j])])])

(* The lines that kill_brackets() reads as they are written.               *)
ReadInPlace ==
    LET line == Grouped(row).out
        ls == IF line[1].t = "var" THEN Tail(line) ELSE line
        parsed == Parsed(row)
    IN  /\ parsed.ok <=> IsExpression(ls)
        /\ parsed.ok => RolesIn(parsed.out) = Roles(ls)
Readable == row \notin {<<>>, <<"var">>} /\ Grouped(row).ok /\ LambdasAreWhole(Grouped(row).out)

(* In a declaration a comma leaves the flags of the operand before it, so  *)
(* that the parentheses of the next declaration are taken for a call.      *)
CommaKeepsCall ==
    LET ls == Grouped(row).out
    IN  /\ ls[1].t = "var"
        /\ \E i, j \in DOMAIN ls :
              /\ i + 1 < j /\ ls[i].t \in {"x", "(", "["} /\ ls[j].t \in {"(", "()"}
              /\ \A k \in (i + 1) .. (j - 1) : ls[k].t = ","

(* Whether parentheses are the arguments of a call depends on nothing but  *)
(* what is right before them: an operand is called if it is a name, in     *)
(* parentheses, indexed or called with arguments, and what was called      *)
(* without any is not called again.  The one exception are declarations    *)
(* that begin with parentheses behind a comma (kill_brackets).             *)
CallsFollowOperands == Readable /\ ~CommaKeepsCall => ReadInPlace

(* Lists in brackets are made of exactly what is balanced, and of all of   *)
(* it (process_brackets and split_list).                                   *)
BracketsInv ==
    /\ GroupsWhatIsBalanced
    /\ ListsAreTheTokens
=============================================================================
