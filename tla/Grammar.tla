------------------------------ MODULE Grammar ------------------------------
(***************************************************************************)
(* libs/js/grammar.c: the parser of one expression statement, over Lexer.  *)
(*                                                                         *)
(* The parser is a recursive descent; a frame of "stack" is a call in      *)
(* progress and an action is what a function does between two calls.  The  *)
(* functions are numbered from the tightest: 1 member, 2 postfix, 3 unary, *)
(* 4 to 13 the binary operators, 14 cond, 15 assign, 16 expr.  A function  *)
(* of 4 to 16 calls the one below before it looks at anything, so a call   *)
(* of n pushes the frames n down to 3 at once.                             *)
(***************************************************************************)
EXTENDS Lexer

VARIABLES
  stack,   \* the calls, the innermost last
  ret,     \* the node the last call returned, NoNode when it is taken
  ahead,   \* listLen: the last token read is pushed back
  read,    \* every token so far (history; the parser sees the last)
  tree     \* the statement, NoNode until it is parsed

gmrVars == <<stack, ret, ahead, read, tree>>
vars == <<lexVars, gmrVars>>

NoNode == <<>>   \* NULL: every node is a tuple of its kind and its parts
NoOp == "none"

Prefix == {"DELETE", "VOID", "TYPEOF", "++", "--", "+", "-", "~", "!"}
Literal == {"THIS", "NULL", "TRUE", "FALSE", "NUM", "STR"}
Step1 == {"++", "--"}
Post(t) == IF t = "++" THEN "post++" ELSE "post--"
Assign == {"=", "*=", "/=", "%=", "+=", "-=", "<<=", ">>=", ">>>=", "&=", "^=", "|="}

\* The operators of a level; noIn is never cleared, so "in" is none of them.
Operators(n) ==
  IF n = 16 THEN {","}
  ELSE CASE n = 4 -> {"*", "%", "/"}   [] n = 5 -> {"+", "-"}
         [] n = 6 -> {"<<", ">>", ">>>"}
         [] n = 7 -> {"<", ">", "<=", ">=", "INSTANCEOF"}
         [] n = 8 -> {"==", "!=", "===", "!=="}
         [] n = 9 -> {"&"}   [] n = 10 -> {"^"}   [] n = 11 -> {"|"}
         [] n = 12 -> {"&&"} [] n = 13 -> {"||"}

Binary == (4..13) \cup {16}

Fresh(n) == [level |-> n, op |-> NoOp, left |-> NoNode]
Call(n) == [i \in 1..(n - 2) |-> Fresh(n + 1 - i)]

Top == stack[Len(stack)]
Below == SubSeq(stack, 1, Len(stack) - 1)
Running == tree = NoNode /\ ~halted
At(n) == Running /\ stack # <<>> /\ Top.level = n

GrammarInit ==
  LexInit /\ stack = Call(16) /\ ret = NoNode /\ ahead = FALSE /\ read = <<>> /\ tree = NoNode

-----------------------------------------------------------------------------
(* The tokens                                                              *)

\* The calls that return without a look at the next token
Silent == ret # NoNode /\ stack # <<>> /\
          (Top.level = 3 \/ (Top.level = 15 /\ Top.op # NoOp) \/ (Top.level = 14 /\ Top.op = ":"))

\* Mutant: memberExpr does not clear regexp after the operand.
OperandStays == stack # <<>> /\ ret = NoNode /\ Top.level \in {1, 3}

\* An operand starts: memberExpr, primaryExpr and unaryExpr set regexp.
Operand == stack # <<>> /\ ret = NoNode /\ (Top.level = 3 \/ (Top.level = 1 /\ Top.left = NoNode))
\* A name follows the point: parseId is cleared.
Member == stack # <<>> /\ Top.level = 1 /\ Top.op = "."

\* next(gmr) with nothing pushed back calls lex_next.
Ask == Running /\ ~ahead /\ ~Silent /\ Scan(Operand, ~Member) /\ UNCHANGED gmrVars

\* lex_next has returned, and the token is pushed back to be looked at.
Receive ==
  /\ token # NoToken /\ ahead' = TRUE
  /\ read' = Append(read, [type |-> token.type, line |-> token.line, start |-> token.start,
                           end |-> token.end, word |-> token.word,
                           regexp |-> regexp, parseId |-> parseId])
  /\ token' = NoToken
  /\ UNCHANGED <<text, ptr, state, lineBefore, regexp, parseId, buffer, start, scan, halted, stack, ret, tree>>

Next1 == IF ahead THEN read[Len(read)] ELSE [type |-> "none", line |-> FALSE]
Leaf == <<"leaf", Len(read)>>

\* The parser moves: it takes the token, or leaves it where it is.
Move(s, r) == stack' = s /\ ret' = r /\ UNCHANGED <<lexVars, read, tree>>
Take(s, r) == ahead /\ ahead' = FALSE /\ Move(s, r)
Leave(s, r) == ahead' = ahead /\ Move(s, r)

SyntaxError == ahead /\ Fail /\ UNCHANGED gmrVars

-----------------------------------------------------------------------------
(* memberExpr, primaryExpr                                                 *)

PrimaryStart == At(1) /\ ret = NoNode /\ ahead /\ Top.left = NoNode

Primary ==
  /\ PrimaryStart
  /\ \/ /\ Next1.type \in Literal
        /\ Take(Append(Below, [Top EXCEPT !.left = Leaf]), NoNode)
     \/ /\ Next1.type = "("
        /\ Take(Append(Below, [Top EXCEPT !.op = "("]) \o Call(16), NoNode)
     \/ Next1.type \notin Literal \cup {"("} /\ SyntaxError

\* expect: what closes the bracket, or the name
Expected ==
  /\ At(1) /\ ahead
  /\ LET expect(type, node) ==
           IF Next1.type = type
             THEN Take(Append(Below, [Top EXCEPT !.op = NoOp, !.left = node]), NoNode)
             ELSE SyntaxError
     IN  \/ Top.op = "(" /\ ret # NoNode /\ expect(")", ret)
         \/ Top.op = "[" /\ ret # NoNode /\ expect("]", <<"[]", Top.left, ret>>)
         \/ Top.op = "." /\ expect("ID", <<".", Top.left, Leaf>>)

\* leftHandSideExpr repeats this loop, and finds nothing left of it.
MemberLoop ==
  /\ At(1) /\ ahead /\ ret = NoNode /\ Top.op = NoOp /\ Top.left # NoNode
  /\ \/ Next1.type = "." /\ Take(Append(Below, [Top EXCEPT !.op = "."]), NoNode)
     \/ /\ Next1.type = "["
        /\ Take(Append(Below, [Top EXCEPT !.op = "["]) \o Call(16), NoNode)
     \/ Next1.type \notin {".", "["} /\ Leave(Below, Top.left)

\* Mutant: a "++" on the next line is taken.
PostfixAnyLine ==
  /\ At(2) /\ ahead /\ ret # NoNode
  /\ IF Next1.type \in Step1 THEN Take(Below, <<Post(Next1.type), ret>>)
     ELSE Leave(Below, ret)

Postfix ==
  /\ At(2) /\ ahead /\ ret # NoNode
  /\ IF ~Next1.line /\ Next1.type \in Step1 THEN Take(Below, <<Post(Next1.type), ret>>)
     ELSE Leave(Below, ret)

Unary ==
  /\ At(3)
  /\ \/ /\ ret = NoNode /\ ahead /\ Next1.type \in Prefix
        /\ Take(Append(Below, [Top EXCEPT !.op = Next1.type]) \o Call(3), NoNode)
     \/ /\ ret = NoNode /\ ahead /\ Next1.type \notin Prefix
        /\ Leave(stack \o <<Fresh(2), Fresh(1)>>, NoNode)
     \/ ret # NoNode /\ Leave(Below, IF Top.op = NoOp THEN ret ELSE <<Top.op, ret>>)

-----------------------------------------------------------------------------
(* The levels above                                                        *)

Cur == IF Top.op = NoOp THEN ret ELSE <<Top.op, Top.left, ret>>

\* Mutant: what is on the right may hold the operator again.
BinaryRight(n) ==
  /\ At(n) /\ ret # NoNode /\ ahead
  /\ IF Next1.type \in Operators(n)
       THEN Take(Append(Below, [Top EXCEPT !.op = Next1.type, !.left = Cur])
                   \o Call(IF n = 16 THEN 15 ELSE n), NoNode)
       ELSE Leave(Below, Cur)

\* BINARY_HEAD ... BINARY_FOOT
BinaryLoop(n) ==
  /\ At(n) /\ ret # NoNode /\ ahead
  /\ IF Next1.type \in Operators(n)
       THEN Take(Append(Below, [Top EXCEPT !.op = Next1.type, !.left = Cur]) \o Call(n - 1), NoNode)
       ELSE Leave(Below, Cur)

Cond ==
  /\ At(14) /\ ret # NoNode
  /\ \/ /\ Top.op = NoOp /\ ahead
        /\ IF Next1.type = "?"
             THEN Take(Append(Below, [Top EXCEPT !.op = "?", !.left = ret]) \o Call(15), NoNode)
             ELSE Leave(Below, ret)
     \/ /\ Top.op = "?" /\ ahead
        /\ IF Next1.type = ":"
             THEN Take(Append(Below, [Top EXCEPT !.op = ":", !.left = <<Top.left, ret>>])
                         \o Call(15), NoNode)
             ELSE SyntaxError
     \/ Top.op = ":" /\ Leave(Below, <<"?:", Top.left[1], Top.left[2], ret>>)

AssignExpr ==
  /\ At(15) /\ ret # NoNode
  /\ \/ /\ Top.op = NoOp /\ ahead
        /\ IF Next1.type \in Assign
             THEN Take(Append(Below, [Top EXCEPT !.op = Next1.type, !.left = ret]) \o Call(15), NoNode)
             ELSE Leave(Below, ret)
     \/ Top.op # NoOp /\ Leave(Below, <<Top.op, Top.left, ret>>)

\* exprStmt and expectSemicolon: the semicolon is taken, the rest stays.
ExprStmt ==
  /\ Running /\ stack = <<>> /\ ret # NoNode /\ ahead
  /\ IF Next1.type = ";" \/ Next1.type = "}" \/ Next1.line
       THEN /\ tree' = ret /\ ahead' = (Next1.type # ";")
            /\ UNCHANGED <<lexVars, stack, ret, read>>
       ELSE SyntaxError

Next ==
  \/ LexStep /\ UNCHANGED gmrVars
  \/ Ask \/ Receive \/ Primary \/ Expected \/ MemberLoop \/ Postfix \/ Unary
  \/ \E n \in Binary : BinaryLoop(n)
  \/ Cond \/ AssignExpr \/ ExprStmt

Spec == GrammarInit /\ [][Next]_vars /\ WF_vars(Next)

-----------------------------------------------------------------------------
(* Properties                                                              *)

T(i) == read[i].type

\* A token is told to follow a new line exactly when a line ends between it
\* and the token before, in a comment or not, or when it is the end of the
\* text: the flag is carried over the spaces and comments, to one token only
\* (stateDefault, stateMultiLineComment, lex_next).
LinesSeen ==
  \A i \in 1..Len(read) :
    read[i].line <=>
      \/ T(i) = "EOF"
      \/ \E k \in ((IF i = 1 THEN 0 ELSE read[i - 1].end) + 1)..read[i].start : text[k] \in LineEnd

\* The i-th token is the last of an operand.
Closes ==
  LET c[i \in 0..Len(read)] ==
        /\ i > 0
        /\ \/ T(i) \in Literal \cup {")", "]", "ID"}
           \/ T(i) \in Step1 /\ ~read[i].line /\ c[i - 1]
  IN  c

\* The lexer is in the place the grammar says: a slash is taken for a division
\* exactly after an operand, and a word is taken for a name, keyword or not,
\* exactly after a point, though the flags are set and cleared over a dozen
\* functions (gmr->lex->regexp, gmr->lex->parseId).
GoalsRight ==
  \A i \in 1..Len(read) :
    /\ read[i].parseId <=> ~(i > 1 /\ T(i - 1) = ".")
    /\ read[i].parseId => (read[i].regexp <=> ~Closes[i - 1])

\* The parser comes to a statement or to an error, unless the text leaves a
\* comment open (the lexer then never leaves the state of the comment).
Ends == <>(tree # NoNode \/ halted \/ OpenComment)
=============================================================================
