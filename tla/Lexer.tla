------------------------------- MODULE Lexer -------------------------------
(***************************************************************************)
(* libs/js/lex.c: the scanner.  lex_next calls the function of the current *)
(* state until it has a token; an action is one such call.                 *)
(*                                                                         *)
(* A character stands for its class: "SP" for every space, "LS" for PS as   *)
(* well, "$" for '_', "M" for the marks, digits and connectors that only   *)
(* continue a name, "8" for '9', "a" for a hexadecimal letter; the quotes  *)
(* are "DQ" and "SQ", the backslash "BS".                                  *)
(***************************************************************************)
EXTENDS Naturals, Sequences

CONSTANTS
  Texts,            \* the programs
  Keyword,          \* the token types of the keywords, by name
  Reserved          \* the reserved words, those of strict mode among them

\* Only the end of the text is a token of its type.
ASSUME KeywordAssumption == \A w \in DOMAIN Keyword : Keyword[w] # "EOF"

VARIABLES
  text, ptr, state, lineBefore,   \* content, ptr, state and lineBefore
  regexp, parseId,  \* what the parser tells the lexer of its place
  buffer,           \* the name, the string or the digits being read
  start,            \* where stateDefault was last called (history)
  scan,             \* TRUE in lex_next
  token,            \* what the last lex_next returned
  halted            \* an assertion has failed

lexVars == <<text, ptr, state, lineBefore, regexp, parseId, buffer, start, scan, token, halted>>

EOF == "EOF"
NoToken == <<>>     \* NULL
Space == {"SP"}
LineEnd == {"CR", "LF", "LS"}
Letter == {"a", "x", "t", "i"}
HexDigit == {"0", "1", "8", "a"}
IdStart == Letter \cup {"$"}
IdPart == IdStart \cup {"M", "0", "1", "8"}
Quote == {"DQ", "SQ"}

\* Tokens of one character, and what a next character makes of a token
Single == {"{", "}", "(", ")", "[", "]", ".", ";", ",", "~", "?", ":", "<", ">",
           "=", "!", "+", "-", "&", "|", "*", "%", "^", "/"}

Longer ==
  {<<"<", "=", "<=">>, <<"<", "<", "<<">>, <<"<<", "=", "<<=">>,
   <<">", "=", ">=">>, <<">", ">", ">>">>, <<">>", "=", ">>=">>,
   <<">>", ">", ">>>">>, <<">>>", "=", ">>>=">>,
   <<"=", "=", "==">>, <<"==", "=", "===">>, <<"!", "=", "!=">>, <<"!=", "=", "!==">>,
   <<"+", "=", "+=">>, <<"+", "+", "++">>, <<"-", "=", "-=">>, <<"-", "-", "--">>,
   <<"&", "=", "&=">>, <<"&", "&", "&&">>, <<"|", "=", "|=">>, <<"|", "|", "||">>,
   <<"*", "=", "*=">>, <<"%", "=", "%=">>, <<"^", "=", "^=">>, <<"/", "=", "/=">>}

LexInit ==
  /\ text \in Texts
  /\ ptr = 0 /\ state = "default" /\ lineBefore = FALSE
  /\ regexp = FALSE /\ parseId = TRUE
  /\ buffer = <<>> /\ start = 0 /\ scan = FALSE /\ token = NoToken /\ halted = FALSE

\* lookahead, and what it would be after n more calls of next
CharAt(n) == IF ptr + n >= Len(text) THEN EOF ELSE text[ptr + n + 1]
Ahead == CharAt(0)

\* lex_next is called.
Scan(re, id) ==
  /\ ~scan /\ token = NoToken /\ ~halted
  /\ scan' = TRUE /\ regexp' = re /\ parseId' = id
  /\ UNCHANGED <<text, ptr, state, lineBefore, buffer, start, token, halted>>

-----------------------------------------------------------------------------
In(s) == scan /\ ~halted /\ state = s

Fail ==
  /\ halted' = TRUE
  /\ UNCHANGED <<text, ptr, state, lineBefore, regexp, parseId, buffer, start, scan, token>>

Begin == IF state = "default" THEN ptr ELSE start

\* Mutant: the flag outlives the token.
ReturnKeepsLine(type, n, line) ==
  /\ token' = [type |-> type, line |-> line, start |-> Begin, end |-> ptr + n, word |-> buffer]
  /\ ptr' = ptr + n /\ state' = "default" /\ buffer' = <<>> /\ start' = Begin /\ scan' = FALSE
  /\ UNCHANGED <<text, lineBefore, regexp, parseId, halted>>

\* The state function returns a token that ends n characters on.  "start",
\* "end" and "word" are history: where it is in the text, and what it reads.
Return(type, n, line) ==
  /\ token' = [type |-> type, line |-> line, start |-> Begin, end |-> ptr + n, word |-> buffer]
  /\ ptr' = ptr + n /\ state' = "default" /\ buffer' = <<>> /\ start' = Begin /\ scan' = FALSE
  /\ lineBefore' = FALSE
  /\ UNCHANGED <<text, regexp, parseId, halted>>

\* It returns NULL, in another state or in the same one.
Go(s, n, line, buf) ==
  /\ ptr' = ptr + n /\ state' = s /\ lineBefore' = line /\ buffer' = buf /\ start' = Begin
  /\ UNCHANGED <<text, regexp, parseId, scan, token, halted>>

DefaultSpace == In("default") /\ Ahead \in Space /\ Go("default", 1, lineBefore, <<>>)

\* CR and LF are one end of a line.
LineEndLength(c, d) == IF c = "CR" /\ d = "LF" THEN 2 ELSE 1

DefaultLine ==
  In("default") /\ Ahead \in LineEnd /\ Go("default", LineEndLength(Ahead, CharAt(1)), TRUE, <<>>)

\* The second character is left to the comment's state.
DefaultComment ==
  /\ In("default") /\ Ahead = "/"
  /\ \/ CharAt(1) = "/" /\ Go("lineComment", 1, lineBefore, <<>>)
     \/ CharAt(1) = "*" /\ Go("comment", 1, lineBefore, <<>>)

\* The operator op with the character c after it, or op alone
Extended(op, c) ==
  LET more == {x \in Longer : x[1] = op /\ x[2] = c}
  IN  IF more = {} THEN op ELSE (CHOOSE x \in more : TRUE)[3]

\* The longest operator, as far as the code's nested lookaheads see it
Munch ==
  LET two == Extended(Ahead, CharAt(1))
      three == IF two = Ahead THEN two ELSE Extended(two, CharAt(2))
      four == IF three = two THEN three ELSE Extended(three, CharAt(3))
  IN  <<four, IF two = Ahead THEN 1 ELSE IF three = two THEN 2 ELSE IF four = three THEN 3 ELSE 4>>

\* A regular expression is not supported.
DefaultOperator ==
  /\ In("default") /\ Ahead \in Single
  /\ Ahead = "/" => CharAt(1) \notin {"/", "*"}
  /\ IF Ahead = "/" /\ regexp THEN Fail ELSE Return(Munch[1], Munch[2], lineBefore)

DefaultName == In("default") /\ Ahead \in IdStart /\ Go("name", 1, lineBefore, <<Ahead>>)

DefaultHex ==
  /\ In("default") /\ Ahead = "0" /\ CharAt(1) = "x"
  /\ Go("hex", 2, lineBefore, <<>>)

DefaultString == In("default") /\ Ahead \in Quote /\ Go(Ahead, 1, lineBefore, <<>>)

\* Decimal and octal numbers, escapes, and what starts no token
DefaultFails ==
  /\ In("default")
  /\ Ahead \notin Space \cup LineEnd \cup Single \cup IdStart \cup Quote \cup {EOF}
  /\ Ahead = "0" => CharAt(1) # "x"
  /\ Fail

\* The end of the text counts as a new line.
DefaultEnd == In("default") /\ Ahead = EOF /\ Return("EOF", 0, TRUE)

\* Mutant: the end of the line does not end the comment.
LineCommentStays ==
  /\ In("lineComment")
  /\ Go("lineComment", IF Ahead \in LineEnd \cup {EOF} THEN 0 ELSE 1, lineBefore, <<>>)

\* The end of the line stays, for DefaultLine; at the end of the text there is
\* nothing to take, and the state function is called for ever.
LineComment ==
  /\ In("lineComment")
  /\ IF Ahead \in LineEnd THEN Go("default", 0, lineBefore, <<>>)
     ELSE Go("lineComment", IF Ahead = EOF THEN 0 ELSE 1, lineBefore, <<>>)

\* Mutant: a new line in a comment is no new line.
CommentOneLine ==
  /\ In("comment")
  /\ IF Ahead = "*" /\ CharAt(1) = "/" THEN Go("default", 2, lineBefore, <<>>)
     ELSE Go("comment", IF Ahead = EOF THEN 0 ELSE 1, lineBefore, <<>>)

Comment ==
  /\ In("comment")
  /\ IF Ahead = "*" /\ CharAt(1) = "/" THEN Go("default", 2, lineBefore, <<>>)
     ELSE Go("comment", IF Ahead = EOF THEN 0 ELSE 1, lineBefore \/ Ahead \in LineEnd, <<>>)

NamePart == In("name") /\ Ahead \in IdPart /\ Go("name", 1, lineBefore, Append(buffer, Ahead))

NameEnd ==
  /\ In("name") /\ Ahead \notin IdPart
  /\ IF Ahead = "BS" \/ (parseId /\ buffer \in Reserved) THEN Fail
     ELSE Return(IF parseId /\ buffer \in DOMAIN Keyword THEN Keyword[buffer] ELSE "ID", 0, lineBefore)

HexPart == In("hex") /\ Ahead \in HexDigit /\ Go("hex", 1, lineBefore, Append(buffer, Ahead))

HexEnd ==
  /\ In("hex") /\ Ahead \notin HexDigit
  /\ IF Ahead \in IdStart \cup {"BS"} THEN Fail ELSE Return("NUM", 0, lineBefore)

StringEnd == scan /\ ~halted /\ state \in Quote /\ Ahead = state /\ Return("STR", 1, lineBefore)

\* dealEscapeSequence: only the end of a line can be escaped.
StringEscape ==
  /\ scan /\ ~halted /\ state \in Quote /\ Ahead = "BS"
  /\ IF CharAt(1) \in LineEnd
       THEN Go(state, 1 + LineEndLength(CharAt(1), CharAt(2)), lineBefore, buffer)
       ELSE Fail

StringPart ==
  /\ scan /\ ~halted /\ state \in Quote /\ Ahead \notin {state, "BS"}
  /\ IF Ahead \in LineEnd \cup {EOF} THEN Fail
     ELSE Go(state, 1, lineBefore, Append(buffer, Ahead))

LexStep ==
  \/ DefaultSpace \/ DefaultLine \/ DefaultComment \/ DefaultOperator \/ DefaultName
  \/ DefaultHex \/ DefaultString \/ DefaultFails \/ DefaultEnd
  \/ LineComment \/ Comment \/ NamePart \/ NameEnd \/ HexPart \/ HexEnd
  \/ StringEnd \/ StringEscape \/ StringPart

\* The comment that the text leaves open is never left.
OpenComment == scan /\ state \in {"lineComment", "comment"} /\ Ahead = EOF
=============================================================================
