------------------------------- MODULE Lexer -------------------------------
(***************************************************************************)
(* From the text of a source to tokens (compiler/lexer.cpp): the           *)
(* preprocessor goes through the lines, process_char_buff() through the    *)
(* characters of one, process_token_buff() splits the tokens into          *)
(* statements.                                                             *)
(*                                                                         *)
(* A character stands for its class: "a" is any letter, "1" a digit, "+"   *)
(* an operator, "bel" what the escape sequence \a is.  A command of the    *)
(* preprocessor is one character.  Encodings are left out.                 *)
(***************************************************************************)
EXTENDS SequencesExt, FiniteSetsExt, Naturals

CONSTANTS Alphabet,         \* the characters of the first line
          LaterLines,       \* the lines after it
          MaxChars,         \* bound: characters of the first line
          MaxSourceLines    \* bound: lines of a source

ASSUME LexerAssumption ==
    /\ MaxChars \in Nat /\ MaxSourceLines \in Nat
    /\ Alphabet \cap {"", "bel"} = {}

VARIABLES
    line,       \* the characters of the line that is read
    lineNum,    \* line_num
    lastLine,   \* last_line_num
    multiLine,  \* between @begin and @end
    fileBuff,   \* context->file_buff: the text of each line
    tokens,     \* the tokens so far, each with its line
    readTo      \* "text", "end", or "error"

lexerVars == <<line, lineNum, lastLine, multiLine, fileBuff, tokens, readTo>>

Quotes == {"\"", "'"}
SignalChars == {"+", ".", ";"}
SignalMap == {<<"+">>, <<"+", "+">>, <<".">>, <<".", ".">>, <<".", ".", ".">>, <<";">>}
IsIdentifier(c) == c \in {"a", "1"}
Commands == {"@begin", "@end", "@charset", "@?"}
EscapeMap == [c \in Quotes \cup {"\\", "a"} |-> IF c = "a" THEN "bel" ELSE c]

Token(t, text) == [t |-> t, text |-> text, suffix |-> <<>>, line |-> 1]
EndlineToken(n) == [Token("endline", <<>>) EXCEPT !.line = n]
-----------------------------------------------------------------------------
(* process_char_buff().  `inside` is the quote that is open, `type` and    *)
(* `tmp` the token that is being read.                                     *)
LexStart == [inside |-> "", escape |-> FALSE, type |-> "null", tmp |-> <<>>, out |-> <<>>,
             state |-> "reading"]
LexFailed(s) == [s EXCEPT !.state = "failed"]
Emit(s, t) == [s EXCEPT !.out = Append(@, t), !.type = "null", !.tmp = <<>>]

(* A run of signals is split into the longest ones that signal_map has.    *)
Splits(run) ==
    FoldLeft(LAMBDA sigs, ch :
                 IF sigs # <<>> /\ Append(Last(sigs), ch) \in SignalMap
                 THEN Append(Front(sigs), Append(Last(sigs), ch)) ELSE Append(sigs, <<ch>>),
             <<>>, run)

(* parse_number() refuses a second dot.                                    *)
IsNumber(text) == Cardinality({i \in DOMAIN text : text[i] = "."}) <= 1

(* The token that ends here.                                               *)
Flush(s) ==
    CASE s.type = "id" -> Emit(s, Token("id", s.tmp))
      [] s.type = "literal" -> [s EXCEPT !.out[Len(s.out)].suffix = s.tmp,
                                         !.type = "null", !.tmp = <<>>]
      [] s.type = "signal" -> [s EXCEPT !.out = @ \o [i \in DOMAIN Splits(s.tmp) |->
                                                         Token("signal", Splits(s.tmp)[i])],
                                        !.type = "null", !.tmp = <<>>]
      [] s.type = "value" -> IF IsNumber(s.tmp) THEN Emit(s, Token("value", s.tmp)) ELSE LexFailed(s)
      [] s.type = "null" -> s

LexQuoted(s, c, next) ==
    CASE s.escape -> IF c \in DOMAIN EscapeMap
                     THEN [s EXCEPT !.tmp = Append(@, EscapeMap[c]), !.escape = FALSE] ELSE LexFailed(s)
      [] ~s.escape /\ c = "\\" -> [s EXCEPT !.escape = TRUE]
      [] ~s.escape /\ c = "'" /\ s.inside = c ->
             IF Len(s.tmp) = 1 THEN [Emit(s, Token("char", s.tmp)) EXCEPT !.inside = ""] ELSE LexFailed(s)
      [] ~s.escape /\ c = "\"" /\ s.inside = c ->
             IF IsIdentifier(next)
             THEN [Emit(s, Token("string", s.tmp)) EXCEPT !.inside = "", !.type = "literal"]
             ELSE [Emit(s, Token("string", s.tmp)) EXCEPT !.inside = ""]
      [] OTHER -> [s EXCEPT !.tmp = Append(@, c)]

(* Whether the token that is read goes on.                                 *)
GoesOn(type, c) ==
    CASE type \in {"id", "literal"} -> IsIdentifier(c)
      [] type = "signal" -> c \in SignalChars
      [] type = "value" -> c \in {"1", "."}
      [] OTHER -> FALSE

TokenStart(s, c) ==
    CASE c \in Quotes -> [s EXCEPT !.inside = c]
      [] c = " " -> s
      [] c \in SignalChars -> [s EXCEPT !.type = "signal", !.tmp = <<c>>]
      [] c = "1" -> [s EXCEPT !.type = "value", !.tmp = <<c>>]
      [] c = "a" -> [s EXCEPT !.type = "id", !.tmp = <<c>>]
      [] OTHER -> LexFailed(s)

LexStep(s, c, next) ==
    CASE s.state # "reading" -> s
      [] s.state = "reading" /\ s.inside # "" -> LexQuoted(s, c, next)
      [] s.state = "reading" /\ s.inside = "" /\ c = "#" -> [s EXCEPT !.state = "comment"]
      [] s.state = "reading" /\ s.inside = "" /\ c # "#" /\ GoesOn(s.type, c) ->
             [s EXCEPT !.tmp = Append(@, c)]
      [] OTHER -> IF Flush(s).state = "failed" THEN LexFailed(s) ELSE TokenStart(Flush(s), c)

Lexed(text) ==
    LET last == FoldLeftDomain(LAMBDA s, i : LexStep(s, text[i], IF i < Len(text) THEN text[i + 1] ELSE ""),
                               LexStart, text)
        s == IF last.state = "failed" THEN last ELSE Flush(last)
    IN [ok |-> s.state # "failed" /\ s.inside = "", out |-> s.out]
-----------------------------------------------------------------------------
LexerInit ==
    /\ line = <<>>
    /\ lineNum = 1 /\ lastLine = 1 /\ multiLine = FALSE
    /\ fileBuff = <<>> /\ tokens = <<>>
    /\ readTo = "text"

ReadChar(c) ==
    /\ readTo = "text"
    /\ c \in Commands => \A i \in DOMAIN line : line[i] = " "
    /\ line # <<>> => Last(line) \notin Commands
    /\ IF lineNum = 1 THEN Len(line) < MaxChars
       ELSE \E l \in LaterLines : IsPrefix(Append(line, c), l)
    /\ line' = Append(line, c)
    /\ UNCHANGED <<lineNum, lastLine, multiLine, fileBuff, tokens, readTo>>

(* What the first character that is no blank says; `line` of the           *)
(* preprocessor starts there.                                              *)
Stripped == LET k == SelectInSeq(line, LAMBDA c : c # " ")
            IN IF k = 0 THEN <<>> ELSE SubSeq(line, k, Len(line))
FirstChar == IF Stripped = <<>> THEN "" ELSE Stripped[1]

(* All tokens since the last end of a statement get the number of the      *)
(* line, those of earlier lines of a multi-line statement too.             *)
Numbered(ts, n) ==
    LET begin == Max({0} \cup {i \in DOMAIN ts : ts[i].t = "endline"})
    IN [i \in DOMAIN ts |-> IF i > begin THEN [ts[i] EXCEPT !.line = n] ELSE ts[i]]

(* new_empty_line(), also for comments and commands.                       *)
EmptyLineUncounted == \* MUTANT: file_buff has only the lines with code
    lineNum' = lineNum + 1 /\ UNCHANGED <<fileBuff, lastLine>>

EmptyLine == /\ fileBuff' = Append(fileBuff, <<>>)
             /\ lineNum' = lineNum + 1
             /\ UNCHANGED lastLine

Command(c) ==
    /\ EmptyLine
    /\ multiLine' = ((multiLine \/ c = "@begin") /\ c # "@end")
    /\ tokens' = IF c = "@end" THEN Append(tokens, EndlineToken(lastLine)) ELSE tokens

CodeLine ==
    LET ts == Numbered(tokens \o Lexed(Stripped).out, lineNum)
    IN /\ tokens' = IF multiLine THEN ts ELSE Append(ts, EndlineToken(lineNum))
       /\ fileBuff' = Append(fileBuff, Stripped)
       /\ lastLine' = lineNum /\ lineNum' = lineNum + 1
       /\ UNCHANGED multiLine

(* process_endline(): what stops the compilation with an error.            *)
IsRefused ==
    CASE FirstChar \in Commands -> FirstChar = "@?" \/ (FirstChar = "@begin" /\ multiLine)
                                   \/ (FirstChar = "@end" /\ ~multiLine)
      [] FirstChar \in {"", "#"} -> FALSE
      [] OTHER -> ~Lexed(Stripped).ok

EndLine(atEnd) ==
    /\ readTo = "text" /\ ~IsRefused
    /\ ~atEnd => lineNum < MaxSourceLines /\ (lineNum = 1 => Len(line) <= 1)
    /\ IF FirstChar \in Commands THEN Command(FirstChar)
       ELSE IF FirstChar \in {"", "#"} THEN EmptyLine /\ UNCHANGED <<multiLine, tokens>>
       ELSE CodeLine
    /\ line' = <<>>
    /\ readTo' = IF ~atEnd THEN "text" ELSE IF multiLine' THEN "error" ELSE "end"

RefuseLine ==
    /\ readTo = "text" /\ IsRefused
    /\ readTo' = "error"
    /\ UNCHANGED <<line, lineNum, lastLine, multiLine, fileBuff, tokens>>

LexerNext ==
    \/ \E c \in Alphabet : ReadChar(c)
    \/ \E atEnd \in BOOLEAN : EndLine(atEnd)
    \/ RefuseLine

LexerSpec == LexerInit /\ [][LexerNext]_lexerVars

(* process_token_buff(): a semicolon ends a statement like the end of the  *)
(* line; empty statements are dropped.                                     *)
Separated(t) == IF t.t = "signal" /\ t.text = <<";">> THEN EndlineToken(t.line) ELSE t
Statements ==
    LET ts == [i \in DOMAIN tokens |-> Separated(tokens[i])]
        Ends == {i \in DOMAIN ts : ts[i].t = "endline"}
        From(e) == Max({0} \cup {i \in Ends : i < e}) + 1
    IN {SubSeq(ts, From(e), e) : e \in {i \in Ends : i > From(i)}}
-----------------------------------------------------------------------------
(* Lines are counted and tokens are made of text.                          *)
LexerTypeOK ==
    /\ multiLine \in BOOLEAN /\ readTo \in {"text", "end", "error"}
    /\ Len(fileBuff) = lineNum - 1 /\ lastLine <= lineNum
    /\ \A i \in DOMAIN tokens : tokens[i].line \in 1 .. lineNum

(* What is not blank and not a comment is in the tokens, in order, however *)
(* tokens touch each other and wherever the line ends.                     *)
Texts(ts) == FlattenSeq([i \in DOMAIN ts |-> ts[i].text \o ts[i].suffix])
Uncommented(l) == SubSeq(l, 1, IF "#" \in ToSet(l) THEN SelectInSeq(l, LAMBDA c : c = "#") - 1 ELSE Len(l))
TokensKeepTheText ==
    Lexed(line).ok /\ ToSet(line) \cap Quotes = {} =>
        Texts(Lexed(line).out) = SelectSeq(Uncommented(line), LAMBDA c : c # " ")

(* The tokens written out with blanks between them are read as the same    *)
(* tokens: strings with their escapes and suffixes, characters, numbers    *)
(* next to dots, runs of signals.                                          *)
Escape(text) ==
    FlattenSeq([i \in DOMAIN text |->
                   IF text[i] = "bel" THEN <<"\\", "a">>
                   ELSE IF text[i] \in DOMAIN EscapeMap \ {"a"} THEN <<"\\", text[i]>> ELSE <<text[i]>>])
WrittenOut(t) ==
    CASE t.t = "string" -> <<"\"">> \o Escape(t.text) \o <<"\"">> \o t.suffix
      [] t.t = "char" -> <<"'">> \o Escape(t.text) \o <<"'">>
      [] OTHER -> t.text
TokensReadTheSame ==
    Lexed(line).ok =>
        LET ts == Lexed(line).out
        IN Lexed(FlattenSeq([i \in DOMAIN ts |-> Append(WrittenOut(ts[i]), " ")])).out = ts

(* All tokens of a statement have one line number, that of its end, and    *)
(* get_line() of that number is the last line of its text: what an error   *)
(* quotes is the statement that failed.                                    *)
StatementsKnowTheirLine ==
    \A st \in Statements :
        LET n == Last(st).line
            quoted == Lexed(fileBuff[n])
        IN /\ n \in DOMAIN fileBuff
           /\ \A i \in DOMAIN st : st[i].line = n
           /\ quoted.ok
           /\ \E i \in DOMAIN quoted.out : quoted.out[i].text = st[Len(st) - 1].text

(* Reading a line loses no text, reading what was read changes nothing,    *)
(* and a statement knows its line (the state machine of                    *)
(* compiler_type::process_char_buff, below the preprocessor).              *)
LexerInv ==
    /\ LexerTypeOK
    /\ TokensKeepTheText
    /\ TokensReadTheSame
    /\ StatementsKnowTheirLine
=============================================================================
