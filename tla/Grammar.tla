------------------------------ MODULE Grammar ------------------------------
(***************************************************************************)
(* The words of a line: keywords are words like any other until            *)
(* translator_type::match_grammar() (compiler.cpp) compares the line with  *)
(* the grammar of each statement and turns the words that fit into         *)
(* actions; match() (impl/compiler.hpp) then picks the statement's method. *)
(*                                                                         *)
(* A grammar is the kinds of its parts, "expr" or a keyword; the end of    *)
(* the line that closes each of them is left out.                          *)
(***************************************************************************)
EXTENDS SequencesExt, FiniteSetsExt, Naturals

CONSTANTS Operands   \* the words that a line may have where an expression is

ASSUME GrammarAssumption == \A o \in Operands : o # <<>>

VARIABLES words,     \* the line: words, then actions
          form,      \* the grammar it was written for, or Unwritten
          compared   \* whether match_grammar() has been called on it

grammarVars == <<words, form, compared>>

(* The grammars that create_context() adds, in their order: statements     *)
(* with one expression are alike, so are those without any.                *)
Grammars ==
    << <<"expr">>, <<"import", "expr">>, <<"import", "expr", "as", "expr">>,
       <<"end">>, <<"loop">>,
       <<"for", "expr">>, <<"for", "expr", "do", "expr">>,
       <<"foreach", "expr", "in", "expr">>, <<"foreach", "expr", "in", "expr", "do", "expr">>,
       <<"function", "expr">>, <<"function", "expr", "override">>,
       <<"return", "expr">>, <<"return">>,
       <<"struct", "expr">>, <<"struct", "expr", "extends", "expr">> >>
Keywords == (UNION {ToSet(g) : g \in ToSet(Grammars)}) \ {"expr"}

Word(w) == [action |-> FALSE, w |-> w]
Action(w) == [action |-> TRUE, w |-> w]
Unwritten == <<>>
-----------------------------------------------------------------------------
(* One pass over a grammar, with i words of the line used up.  After an    *)
(* expression the next keyword is searched; any action ends the search.    *)
Search(line, i, w, skips) ==
    IF ~skips THEN i + 1
    ELSE Min({k \in (i + 1) .. Len(line) : line[k].action \/ line[k].w = w} \cup {Len(line) + 1})

PassStart == [i |-> 0, skips |-> FALSE, failed |-> FALSE, matched |-> FALSE, taken |-> {}]
PassStepSkipsOn(line, p, g) == \* MUTANT: skip_useless stays up after a keyword
    IF p.failed THEN p
    ELSE IF g = "expr" THEN [p EXCEPT !.skips = TRUE]
    ELSE LET k == Search(line, p.i, g, p.skips)
         IN IF k > Len(line) THEN [p EXCEPT !.failed = TRUE, !.i = Len(line)]
            ELSE IF line[k].w # g
            THEN [p EXCEPT !.failed = TRUE, !.i = k, !.skips = FALSE, !.matched = @ /\ line[k].action]
            ELSE [p EXCEPT !.i = k, !.matched = @ \/ ~line[k].action,
                           !.taken = @ \cup {k}]

PassStep(line, p, g) ==
    IF p.failed THEN p
    ELSE IF g = "expr" THEN [p EXCEPT !.skips = TRUE]
    ELSE LET k == Search(line, p.i, g, p.skips)
         IN IF k > Len(line) THEN [p EXCEPT !.failed = TRUE, !.i = Len(line)]
            ELSE IF line[k].w # g
            THEN [p EXCEPT !.failed = TRUE, !.i = k, !.skips = FALSE, !.matched = @ /\ line[k].action]
            ELSE [p EXCEPT !.i = k, !.skips = FALSE, !.matched = @ \/ ~line[k].action,
                           !.taken = @ \cup {k}]
Pass(line, grammar) == FoldLeft(LAMBDA p, g : PassStep(line, p, g), PassStart, grammar)

(* The line fits when the grammar leaves no words over; the words of the   *)
(* keywords become actions.  (A keyword that was not found leaves the line *)
(* as it is: the search has used up all its words.)                        *)
FitsLine(line, p) ==
    p.matched /\ ~(p.skips /\ p.i = Len(line)) /\ ~(~p.skips /\ p.i < Len(line))

Converted(line, grammar) ==
    LET p == Pass(line, grammar)
    IN IF ~FitsLine(line, p) THEN line
       ELSE [k \in DOMAIN line |-> IF k \in p.taken THEN Action(line[k].w) ELSE line[k]]

(* kill_expr(): the words between actions become one expression.           *)
KillExpr(line) ==
    FoldLeft(LAMBDA s, l : IF l.action THEN Append(s, l.w)
                           ELSE IF s # <<>> /\ Last(s) = "expr" THEN s ELSE Append(s, "expr"),
             <<>>, line)

(* match(): the grammars of that length with those kinds.                  *)
Matching(line) == {i \in DOMAIN Grammars : Grammars[i] = KillExpr(line)}
-----------------------------------------------------------------------------
Filled(g, ops) ==
    FlattenSeq([i \in DOMAIN g |-> IF g[i] = "expr" THEN ops[i] ELSE <<g[i]>>])

GrammarInit == words = <<>> /\ form = Unwritten /\ compared = FALSE

(* A line for a grammar, with any operands.                                *)
WriteForm(g) ==
    /\ form = Unwritten
    /\ \E ops \in [{i \in DOMAIN g : g[i] = "expr"} -> Operands] :
           words' = [i \in DOMAIN Filled(g, ops) |-> Word(Filled(g, ops)[i])]
    /\ form' = g
    /\ UNCHANGED compared

(* match_grammar(): the grammars one after the other, each on what the     *)
(* ones before have left.                                                  *)
MatchGrammar ==
    /\ form # Unwritten /\ ~compared
    /\ words' = FoldLeft(Converted, words, Grammars)
    /\ compared' = TRUE
    /\ UNCHANGED form

GrammarNext == (\E g \in ToSet(Grammars) : WriteForm(g)) \/ MatchGrammar
GrammarSpec == GrammarInit /\ [][GrammarNext]_grammarVars
-----------------------------------------------------------------------------
(* Keywords that the statements with the first word of a line have: only   *)
(* these are special in it.                                                *)
SpecialIn(line) == UNION {ToSet(Grammars[i]) : i \in {j \in DOMAIN Grammars : Grammars[j][1] = line[1].w}}
WordsOf(line) == {k \in DOMAIN line : line[k].w \in SpecialIn(line)}
KeywordsOf(g) == {i \in DOMAIN g : g[i] # "expr"}

(* A line is read as the statement it was written as, and its operands may *)
(* be named like any keyword that this statement does not have: the passes *)
(* over the other grammars change nothing, and match() finds one method.   *)
ReadAsWritten ==
    compared /\ Cardinality(WordsOf(words)) = Cardinality(KeywordsOf(form)) =>
        /\ Cardinality(Matching(words)) = 1
        /\ \A i \in Matching(words) : Grammars[i] = form
=============================================================================
