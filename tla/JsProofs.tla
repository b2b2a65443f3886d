------------------------------ MODULE JsProofs ------------------------------
(***************************************************************************)
(* Theorems about the JavaScript engine: the lexer and the parser agree    *)
(* on lines, divisions and names, for every text and table of keywords;    *)
(* properties are kept and put, for every chain of objects; and two values *)
(* are compared one way, for all values.                                   *)
(***************************************************************************)
EXTENDS Grammar, JsHeap, JsCompare, Arithmetic, SequenceTheorems, TLAPS

(* The invariant of the lexer                                              *)

State == {"default", "lineComment", "comment", "name", "hex"} \cup Quote

\* What is known of a token; its type and its word are the constants' affair.
Token(t) == t.line \in BOOLEAN /\ t.start \in Nat /\ t.end \in Nat

Typed ==
  /\ ptr \in Nat /\ start \in Nat /\ state \in State
  /\ lineBefore \in BOOLEAN /\ regexp \in BOOLEAN /\ parseId \in BOOLEAN
  /\ scan \in BOOLEAN /\ halted \in BOOLEAN /\ ahead \in BOOLEAN
  /\ token # NoToken => Token(token)
  /\ \E S : read \in Seq(S)
  /\ \A i \in 1..Len(read) :
       Token(read[i]) /\ read[i].regexp \in BOOLEAN /\ read[i].parseId \in BOOLEAN

\* Where the last token that the parser has read ends
Last == IF read = <<>> THEN 0 ELSE read[Len(read)].end

\* A line ends behind the i-th character, up to the j-th.
LineIn(i, j) == \E k \in (i + 1)..j : text[k] \in LineEnd

\* How far line ends count for the token to come
Passed == IF state \in {"default", "lineComment", "comment"} THEN ptr ELSE start

\* The flag is what was passed since the last token, and a token has taken it.
Flag ==
  /\ ~scan => state = "default" /\ ~lineBefore
  /\ ~scan /\ token = NoToken => ptr = Last
  /\ scan => token = NoToken /\ Last <= ptr /\ (lineBefore <=> LineIn(Last, Passed))
  /\ token # NoToken => /\ token.end = ptr
                        /\ token.line <=> token.type = "EOF" \/ LineIn(Last, token.start)

-----------------------------------------------------------------------------
(* The invariant of the parser                                             *)

\* A sequence of frames; TLC has no use for this.
Frame(f) == f = [level |-> f.level, op |-> f.op, left |-> f.left]
Calls(s) == (\E S : s \in Seq(S)) /\ \A j \in 1..Len(s) : Frame(s[j])

\* No frame up to the n-th has taken a point and waits for the name behind it.
Pointless(s, n) == \A j \in 1..n : s[j].op # "."

\* The tokens that the parser has taken, and the last one being a point
Taken == IF ahead THEN Len(read) - 1 ELSE Len(read)
Point(n) == n > 0 /\ T(n) = "."

\* What the calls s with the node r expect next, by the last token taken: it
\* was the last of an operand, or a point, or neither.
Expecting(s, r, closed, point) ==
  /\ r # NoNode => Pointless(s, Len(s)) /\ closed
  /\ r = NoNode =>
       /\ s # <<>> /\ Pointless(s, Len(s) - 1)
       /\ LET f == s[Len(s)]
          IN  \/ (f.level = 3 \/ (f.level = 1 /\ f.left = NoNode)) /\ f.op # "." /\ ~closed /\ ~point
              \/ f.level = 1 /\ f.left # NoNode /\ (f.op = "." => point) /\ (f.op # "." => closed)

Place == tree = NoNode => Expecting(stack, ret, Closes[Taken], Point(Taken))

\* While the lexer is at work, the flags are those of the place.
Asked ==
  scan \/ token # NoToken =>
    /\ ~ahead /\ tree = NoNode /\ ~Silent
    /\ regexp <=> Operand
    /\ parseId <=> ~Member

GInv ==
  /\ Typed /\ Flag /\ LinesSeen
  /\ Calls(stack) /\ (ahead => read # <<>>) /\ Place /\ Asked /\ GoalsRight

-----------------------------------------------------------------------------
(* The lexer                                                               *)

\* A character that is not the end of the text is one of the text.
LEMMA CharFacts ==
  ASSUME NEW n \in Nat
  PROVE  CharAt(n) # EOF => CharAt(n) = text[ptr + n + 1]
BY DEF CharAt, EOF

\* The next character is one of the text, or its end.
LEMMA AheadFacts ==
  ASSUME ptr \in Nat
  PROVE  Ahead # EOF => Ahead = text[ptr + 1]
BY CharFacts, 0 \in Nat DEF Ahead

\* The next character is passed over.
LEMMA LineInNext ==
  ASSUME NEW i \in Nat, NEW j \in Nat, i <= j
  PROVE  /\ LineIn(i, j + 1) <=> LineIn(i, j) \/ text[j + 1] \in LineEnd
         /\ LineIn(i, j + 2) <=> LineIn(i, j) \/ text[j + 1] \in LineEnd \/ text[j + 2] \in LineEnd
         /\ ~LineIn(i, i)
<1>1. \A k \in Int : k \in (i + 1)..(j + 1) <=> k \in (i + 1)..j \/ k = j + 1
  OBVIOUS
<1>2. \A k \in Int : k \in (i + 1)..(j + 2) <=> k \in (i + 1)..j \/ k = j + 1 \/ k = j + 2
  OBVIOUS
<1> QED BY <1>1, <1>2 DEF LineIn

\* The last token that was taken ends somewhere in the text.
LEMMA LastType == ASSUME Typed PROVE Last \in Nat
<1>1. CASE read = <<>>
  BY <1>1 DEF Last
<1>2. CASE read # <<>>
  <2>1. Len(read) \in 1..Len(read)
    BY <1>2, EmptySeq DEF Typed
  <2> QED BY <1>2, <2>1 DEF Last, Typed, Token
<1> QED BY <1>1, <1>2

\* A state function that returns NULL
LEMMA GoStep ==
  ASSUME Typed, Flag, scan, UNCHANGED gmrVars,
         NEW s \in State, NEW n \in Nat, NEW line \in BOOLEAN, NEW buf,
         Go(s, n, line, buf),
         line <=> LineIn(Last, IF s \in {"default", "lineComment", "comment"} THEN ptr + n ELSE Begin)
  PROVE  Typed' /\ Flag'
<1>1. ptr + n \in Nat /\ Begin \in Nat
  BY DEF Typed, Begin
<1>2. Typed'
  BY <1>1 DEF Typed, Go, gmrVars
<1>3. Last' = Last /\ Last <= ptr'
  BY LastType DEF Last, gmrVars, Go, Flag, Typed
<1>4. Passed' = IF s \in {"default", "lineComment", "comment"} THEN ptr + n ELSE Begin
  BY DEF Passed, Go
<1>5. \A j : LineIn(Last, j)' <=> LineIn(Last, j')
  BY <1>3 DEF LineIn, Go
<1>6. Flag'
  BY <1>3, <1>4 DEF Flag, Go, LineIn
<1> QED BY <1>2, <1>6

\* A state function that returns a token
LEMMA ReturnStep ==
  ASSUME Typed, Flag, scan, UNCHANGED gmrVars,
         NEW type, NEW n \in Nat, NEW line \in BOOLEAN, Return(type, n, line),
         line <=> type = "EOF" \/ LineIn(Last, Begin)
  PROVE  Typed' /\ Flag'
<1>1. ptr + n \in Nat /\ Begin \in Nat
  BY DEF Typed, Begin
<1>2. Token(token') /\ token' # NoToken
  BY <1>1 DEF Typed, Return, Token, NoToken
<1>3. Typed'
  BY <1>1, <1>2 DEF Typed, Return, gmrVars, State
<1>4. Last' = Last
  BY DEF Last, gmrVars
<1>5. Flag'
  BY <1>2, <1>4 DEF Flag, Return, LineIn
<1> QED BY <1>3, <1>5

\* A state function that asserts leaves the flag as it was.
LEMMA FailStep ==
  ASSUME Typed, Flag, Fail, UNCHANGED gmrVars
  PROVE  Typed' /\ Flag'
<1>1. Typed'
  BY DEF Typed, Fail, gmrVars
<1>2. Last' = Last /\ Passed' = Passed
  BY DEF Last, Passed, Fail, gmrVars
<1>3. Flag'
  BY <1>2 DEF Flag, Fail, LineIn
<1> QED BY <1>1, <1>3

\* An operator is no end of the text, however long it is.
LEMMA MunchFacts ==
  ASSUME Ahead \in Single
  PROVE  Munch[1] # "EOF" /\ Munch[2] \in Nat
<1>1. \A x \in Longer : x[3] # "EOF"
  BY DEF Longer
<1>2. ASSUME NEW op, op # "EOF", NEW c
      PROVE  Extended(op, c) # "EOF"
  <2> DEFINE more == {x \in Longer : x[1] = op /\ x[2] = c}
  <2>1. more # {} => (CHOOSE x \in more : TRUE) \in Longer
    OBVIOUS
  <2> HIDE DEF more
  <2>2. (IF more = {} THEN op ELSE (CHOOSE x \in more : TRUE)[3]) # "EOF"
    BY <1>1, <1>2, <2>1
  <2> QED BY <2>2 DEF Extended, more
<1>3. Ahead # "EOF"
  BY Zenon DEF Single
<1> DEFINE two == Extended(Ahead, CharAt(1))
           three == IF two = Ahead THEN two ELSE Extended(two, CharAt(2))
           four == IF three = two THEN three ELSE Extended(three, CharAt(3))
<1>4. two # "EOF"
  BY <1>2, <1>3
<1>5. three # "EOF"
  BY <1>2, <1>4
<1>6. four # "EOF"
  BY <1>2, <1>5
<1>7. Munch[1] = four
  BY DEF Munch
<1>8. Munch[2] = IF two = Ahead THEN 1 ELSE IF three = two THEN 2 ELSE IF four = three THEN 3 ELSE 4
  BY DEF Munch
<1> HIDE DEF two, three, four
<1> QED BY <1>6, <1>7, <1>8

\* Every state function keeps the flag.
LEMMA LexKeeps ==
  ASSUME Typed, Flag, LexStep, UNCHANGED gmrVars
  PROVE  Typed' /\ Flag'
<1> DEFINE From(s, n) == IF s \in {"default", "lineComment", "comment"} THEN ptr + n ELSE Begin
<1>1. Last \in Nat /\ ptr \in Nat /\ start \in Nat /\ lineBefore \in BOOLEAN
  BY LastType DEF Typed
<1>2. scan /\ Last <= ptr /\ (lineBefore <=> LineIn(Last, Passed))
  BY DEF LexStep, DefaultSpace, DefaultLine, DefaultComment, DefaultOperator, DefaultName, DefaultHex,
       DefaultString, DefaultFails, DefaultEnd, LineComment, Comment, NamePart, NameEnd, HexPart, HexEnd,
       StringEnd, StringEscape, StringPart, In, Flag
<1>3. /\ state = "default" => Begin = ptr /\ (lineBefore <=> LineIn(Last, ptr))
      /\ state \in {"lineComment", "comment"} => lineBefore <=> LineIn(Last, ptr)
      /\ state \in {"name", "hex"} \cup Quote => Begin = start /\ (lineBefore <=> LineIn(Last, start))
  BY <1>2 DEF Passed, Begin, Quote
<1>4. /\ LineIn(Last, ptr + 1) <=> LineIn(Last, ptr) \/ text[ptr + 1] \in LineEnd
      /\ LineIn(Last, ptr + 2) <=> LineIn(Last, ptr) \/ text[ptr + 1] \in LineEnd \/ text[ptr + 2] \in LineEnd
  BY <1>1, <1>2, LineInNext
<1>5. Ahead # EOF => Ahead = text[ptr + 1]
  BY AheadFacts, <1>1
<1>6. CharAt(1) # EOF => CharAt(1) = text[ptr + 2]
  BY CharFacts, <1>1
<1>8. ASSUME NEW n \in Nat, NEW s \in {"name", "hex"} \cup Quote, NEW buf,
             state = "default" \/ state \in {"name", "hex"} \cup Quote, Go(s, n, lineBefore, buf)
      PROVE  Typed' /\ Flag'
  <2>1. lineBefore <=> LineIn(Last, From(s, n))
    BY <1>3, <1>8 DEF Quote
  <2>2. s \in State
    BY DEF State
  <2> QED BY <1>1, <1>2, <1>8, <2>1, <2>2, GoStep
<1>9. ASSUME NEW n \in Nat, NEW type, type # "EOF",
             state = "default" \/ state \in {"name", "hex"} \cup Quote, Return(type, n, lineBefore)
      PROVE  Typed' /\ Flag'
  BY <1>1, <1>2, <1>3, <1>9, ReturnStep
<1>10. CASE DefaultSpace
  <2>1. Go("default", 1, lineBefore, <<>>) /\ state = "default" /\ Ahead \in Space
    BY <1>10 DEF DefaultSpace, In
  <2>2. lineBefore <=> LineIn(Last, ptr + 1)
    BY <1>3, <1>4, <1>5, <2>1 DEF Space, LineEnd, EOF
  <2>3. "default" \in State
    BY DEF State
  <2> QED BY <1>1, <1>2, <2>1, <2>2, <2>3, GoStep
<1>11. CASE DefaultLine
  <2> DEFINE n == LineEndLength(Ahead, CharAt(1))
  <2>1. Go("default", n, TRUE, <<>>) /\ state = "default" /\ Ahead \in LineEnd
    BY <1>11 DEF DefaultLine, In
  <2>2. n = 1 \/ n = 2
    BY DEF LineEndLength
  <2>3. LineIn(Last, ptr + 1) /\ LineIn(Last, ptr + 2)
    BY <1>4, <1>5, <2>1 DEF LineEnd, EOF
  <2>4. "default" \in State
    BY DEF State
  <2> HIDE DEF n
  <2>5. LineIn(Last, ptr + n) /\ n \in Nat
    BY <2>2, <2>3
  <2> QED BY <1>2, <2>1, <2>4, <2>5, GoStep
<1>12. CASE DefaultComment
  <2>1. PICK s \in {"lineComment", "comment"} : Go(s, 1, lineBefore, <<>>)
    BY <1>12 DEF DefaultComment
  <2>2. state = "default" /\ Ahead = "/"
    BY <1>12 DEF DefaultComment, In
  <2>3. lineBefore <=> LineIn(Last, ptr + 1)
    BY <1>3, <1>4, <1>5, <2>2 DEF LineEnd, EOF
  <2>4. s \in State
    BY DEF State
  <2> QED BY <1>1, <1>2, <2>1, <2>3, <2>4, GoStep
<1>13. CASE DefaultOperator
  <2>1. state = "default" /\ Ahead \in Single
    BY <1>13 DEF DefaultOperator, In
  <2>2. CASE Fail
    BY <2>2, FailStep
  <2>3. CASE Return(Munch[1], Munch[2], lineBefore)
    <3>1. Munch[1] # "EOF" /\ Munch[2] \in Nat
      BY <2>1, MunchFacts
    <3> QED BY <1>9, <2>1, <2>3, <3>1
  <2> QED BY <1>13, <2>2, <2>3 DEF DefaultOperator
<1>14. CASE DefaultName
  BY <1>8, <1>14 DEF DefaultName, In
<1>15. CASE DefaultHex
  BY <1>8, <1>15 DEF DefaultHex, In
<1>16. CASE DefaultString
  BY <1>8, <1>16 DEF DefaultString, In
<1>17. CASE DefaultFails
  BY <1>17, FailStep DEF DefaultFails
<1>18. CASE DefaultEnd
  <2>1. Return("EOF", 0, TRUE)
    BY <1>18 DEF DefaultEnd
  <2> QED BY <1>2, <2>1, ReturnStep
<1>19. CASE LineComment
  <2>1. state = "lineComment"
    BY <1>19 DEF LineComment, In
  <2>2. PICK s \in {"default", "lineComment"}, n \in {0, 1} :
          Go(s, n, lineBefore, <<>>) /\ (n = 1 => Ahead \notin LineEnd \cup {EOF})
    BY <1>19 DEF LineComment
  <2>3. lineBefore <=> LineIn(Last, ptr + n)
    <3>1. CASE n = 0
      BY <1>1, <1>3, <2>1, <3>1
    <3>2. CASE n = 1
      BY <1>3, <1>4, <1>5, <2>1, <2>2, <3>2
    <3> QED BY <3>1, <3>2
  <2>4. s \in State /\ n \in Nat
    BY DEF State
  <2> QED BY <1>1, <1>2, <2>2, <2>3, <2>4, GoStep
<1>20. CASE Comment
  <2>1. state = "comment" /\ "default" \in State /\ "comment" \in State
    BY <1>20 DEF Comment, In, State
  <2>2. CASE Ahead = "*" /\ CharAt(1) = "/" /\ Go("default", 2, lineBefore, <<>>)
    <3>1. lineBefore <=> LineIn(Last, ptr + 2)
      BY <1>3, <1>4, <1>5, <1>6, <2>1, <2>2 DEF LineEnd, EOF
    <3> QED BY <1>1, <1>2, <2>1, <2>2, <3>1, GoStep
  <2>3. CASE Go("comment", IF Ahead = EOF THEN 0 ELSE 1, lineBefore \/ Ahead \in LineEnd, <<>>)
    <3> DEFINE n == IF Ahead = EOF THEN 0 ELSE 1
               line == lineBefore \/ Ahead \in LineEnd
    <3>1. line <=> LineIn(Last, ptr + n)
      <4>1. CASE Ahead = EOF
        BY <1>1, <1>3, <2>1, <4>1 DEF LineEnd, EOF
      <4>2. CASE Ahead # EOF
        BY <1>3, <1>4, <1>5, <2>1, <4>2
      <4> QED BY <4>1, <4>2
    <3>2. line \in BOOLEAN /\ n \in Nat
      OBVIOUS
    <3>3. Go("comment", n, line, <<>>)
      BY <2>3
    <3> HIDE DEF n, line
    <3> QED BY <1>2, <2>1, <3>1, <3>2, <3>3, GoStep
  <2> QED BY <1>20, <2>2, <2>3 DEF Comment
<1>21. CASE NamePart
  BY <1>8, <1>21 DEF NamePart, In
<1>22. CASE NameEnd
  <2>1. CASE Fail
    BY <2>1, FailStep
  <2>2. ASSUME NEW type, type = (IF parseId /\ buffer \in DOMAIN Keyword THEN Keyword[buffer] ELSE "ID"),
               Return(type, 0, lineBefore)
        PROVE  Typed' /\ Flag'
    <3>1. type # "EOF"
      BY <2>2, KeywordAssumption
    <3> QED BY <1>9, <1>22, <2>2, <3>1 DEF NameEnd, In
  <2> QED BY <1>22, <2>1, <2>2 DEF NameEnd
<1>23. CASE HexPart
  BY <1>8, <1>23 DEF HexPart, In
<1>24. CASE HexEnd
  <2>1. CASE Fail
    BY <2>1, FailStep
  <2>2. CASE Return("NUM", 0, lineBefore)
    BY <1>9, <1>24, <2>2 DEF HexEnd, In
  <2> QED BY <1>24, <2>1, <2>2 DEF HexEnd
<1>25. CASE StringEnd
  BY <1>9, <1>25 DEF StringEnd
<1>26. CASE StringEscape
  <2>1. CASE Fail
    BY <2>1, FailStep
  <2>2. ASSUME NEW n, n = 1 + LineEndLength(CharAt(1), CharAt(2)), Go(state, n, lineBefore, buffer)
        PROVE  Typed' /\ Flag'
    <3>1. n \in Nat
      BY <2>2 DEF LineEndLength
    <3> QED BY <1>8, <1>26, <2>2, <3>1 DEF StringEscape
  <2> QED BY <1>26, <2>1, <2>2 DEF StringEscape
<1>27. CASE StringPart
  <2>1. CASE Fail
    BY <2>1, FailStep
  <2>2. CASE Go(state, 1, lineBefore, Append(buffer, Ahead))
    BY <1>8, <1>27, <2>2 DEF StringPart
  <2> QED BY <1>27, <2>1, <2>2 DEF StringPart
<1> QED BY <1>10, <1>11, <1>12, <1>13, <1>14, <1>15, <1>16, <1>17, <1>18, <1>19, <1>20, <1>21, <1>22,
           <1>23, <1>24, <1>25, <1>26, <1>27 DEF LexStep

-----------------------------------------------------------------------------
(* The end of an operand                                                   *)

\* The function that Closes is, for any sequence of tokens
ClosesBy(r, c) ==
  c = [i \in 0..Len(r) |->
        /\ i > 0
        /\ \/ r[i].type \in Literal \cup {")", "]", "ID"}
           \/ r[i].type \in Step1 /\ ~r[i].line /\ c[i - 1]]

\* The recursive definition of Closes has a solution, for every run of tokens.
LEMMA ClosesSolved ==
  ASSUME NEW r, Len(r) \in Nat
  PROVE  \E c : ClosesBy(r, c)
<1> DEFINE now(i) == r[i].type \in Literal \cup {")", "]", "ID"}
           step(i) == r[i].type \in Step1 /\ ~r[i].line
           g == [i \in 1..Len(r) |-> [b \in BOOLEAN |-> now(i) \/ (step(i) /\ b)]]
<1>1. g \in [1..Len(r) -> [BOOLEAN -> BOOLEAN]]
  <2>1. \A i \in 1..Len(r) : [b \in BOOLEAN |-> now(i) \/ (step(i) /\ b)] \in [BOOLEAN -> BOOLEAN]
    <3> HIDE DEF now, step
    <3> QED OBVIOUS
  <2> HIDE DEF now, step
  <2> QED BY <2>1
<1>2. PICK c \in [0..Len(r) -> BOOLEAN] : Recurs(c, Len(r), FALSE, g)
  <2> HIDE DEF g
  <2> QED BY <1>1, Recursion
<1>3. \A i \in 0..Len(r) : c[i] = (i > 0 /\ (now(i) \/ (step(i) /\ c[i - 1])))
  <2> SUFFICES ASSUME NEW i \in 0..Len(r)
               PROVE  c[i] = (i > 0 /\ (now(i) \/ (step(i) /\ c[i - 1])))
    OBVIOUS
  <2> HIDE DEF now, step
  <2>1. CASE i = 0
    BY <1>2, <2>1 DEF Recurs
  <2>2. CASE i # 0
    <3>1. i \in 1..Len(r) /\ i > 0 /\ i - 1 \in 0..Len(r)
      BY <2>2
    <3>2. c[i] = g[i][c[i - 1]]
      <4> HIDE DEF g
      <4> QED BY <1>2, <3>1 DEF Recurs
    <3>3. c[i - 1] \in BOOLEAN
      BY <1>2, <3>1
    <3>4. g[i][c[i - 1]] = (now(i) \/ (step(i) /\ c[i - 1]))
      BY <3>1, <3>3
    <3> QED BY <3>1, <3>2, <3>4
  <2> QED BY <2>1, <2>2
<1>4. c = [i \in 0..Len(r) |-> i > 0 /\ (now(i) \/ (step(i) /\ c[i - 1]))]
  <2> HIDE DEF now, step
  <2> QED BY <1>2, <1>3
<1> QED BY <1>4 DEF ClosesBy

\* Closes is that solution, for the tokens read so far.
LEMMA ClosesIs == ASSUME Typed PROVE ClosesBy(read, Closes)
<1>1. Len(read) \in Nat
  BY LenProperties DEF Typed
<1>2. \E c : ClosesBy(read, c)
  BY <1>1, ClosesSolved
<1>3. Closes = CHOOSE c : ClosesBy(read, c)
  BY DEF Closes, ClosesBy, T
<1> QED BY <1>2, <1>3

\* Where a token is, of itself or by the token before
LEMMA ClosesStep ==
  ASSUME NEW r, NEW c, ClosesBy(r, c), NEW n \in 0..Len(r)
  PROVE  c[n] = /\ n > 0
                /\ \/ r[n].type \in Literal \cup {")", "]", "ID"}
                   \/ r[n].type \in Step1 /\ ~r[n].line /\ c[n - 1]
BY Zenon DEF ClosesBy

\* What is said of a token does not depend on the tokens behind it.
LEMMA ClosesSame ==
  ASSUME NEW r, NEW q, NEW c, NEW d, Len(r) \in Nat, Len(q) \in Nat, Len(r) <= Len(q),
         \A i \in 1..Len(r) : q[i] = r[i],
         ClosesBy(r, c), ClosesBy(q, d)
  PROVE  \A i \in 0..Len(r) : c[i] = d[i]
<1> DEFINE S == {n \in Nat : n <= Len(r) => c[n] = d[n]}
<1> DEFINE is(t, b) == t.type \in Literal \cup {")", "]", "ID"} \/ (t.type \in Step1 /\ ~t.line /\ b)
<1>1. \A m \in 0..Len(r) : c[m] = (m > 0 /\ is(r[m], c[m - 1]))
  BY ClosesStep
<1>2. \A m \in 0..Len(q) : d[m] = (m > 0 /\ is(q[m], d[m - 1]))
  BY ClosesStep
<1>3. 0 \in S
  BY DEF ClosesBy
<1>4. ASSUME NEW n \in S PROVE n + 1 \in S
  <2> SUFFICES ASSUME n + 1 <= Len(r) PROVE c[n + 1] = d[n + 1]
    OBVIOUS
  <2> HIDE DEF S
  <2>1. n \in Nat /\ n + 1 > 0 /\ n + 1 \in 1..Len(r) /\ n + 1 \in 0..Len(r) /\ n + 1 \in 0..Len(q)
    BY DEF S
  <2>2. c[n] = d[n] /\ q[n + 1] = r[n + 1] /\ (n + 1) - 1 = n
    BY <2>1 DEF S
  <2> HIDE DEF is
  <2> QED BY <2>1, <2>2, <1>1, <1>2
<1>5. S = Nat
  <2> HIDE DEF S
  <2>1. S \subseteq Nat
    BY DEF S
  <2> QED BY <1>3, <1>4, <2>1, SetInduction
<1> QED BY <1>5

\* A token that closes an operand, by its type and what was before it.
LEMMA ClosesFacts ==
  ASSUME Typed
  PROVE  /\ Closes[0] = FALSE
         /\ \A n \in 1..Len(read) :
              Closes[n] <=> \/ T(n) \in Literal \cup {")", "]", "ID"}
                            \/ T(n) \in Step1 /\ ~read[n].line /\ Closes[n - 1]
<1>1. Len(read) \in Nat
  BY LenProperties DEF Typed
<1>2. ClosesBy(read, Closes)
  BY ClosesIs
<1>3. Closes[0] = FALSE
  <2>1. 0 \in 0..Len(read) /\ ~(0 > 0)
    BY <1>1
  <2> QED BY <1>2, <2>1, Zenon DEF ClosesBy
<1>4. ASSUME NEW n \in 1..Len(read)
      PROVE  Closes[n] <=> \/ T(n) \in Literal \cup {")", "]", "ID"}
                           \/ T(n) \in Step1 /\ ~read[n].line /\ Closes[n - 1]
  <2>1. n \in 0..Len(read) /\ n > 0
    BY <1>1
  <2> QED BY <1>2, <2>1, Zenon DEF ClosesBy, T
<1> QED BY <1>3, <1>4

-----------------------------------------------------------------------------
(* The calls                                                               *)

\* No call is open when there are none.
LEMMA EmptyCalls == ASSUME NEW s, Calls(s) PROVE Len(s) \in Nat /\ (s = <<>> <=> Len(s) = 0)
BY LenProperties, EmptySeq DEF Calls

\* A call returns.
LEMMA CallsPop ==
  ASSUME NEW s, Calls(s), s # <<>>
  PROVE  LET q == SubSeq(s, 1, Len(s) - 1)
         IN  Calls(q) /\ Len(q) = Len(s) - 1 /\ (\A j \in 1..Len(q) : q[j] = s[j]) /\ Frame(s[Len(s)])
<1>1. PICK S : s \in Seq(S)
  BY DEF Calls
<1>2. Len(s) \in Nat \ {0} /\ (\A j \in 1..Len(s) : s[j] \in S /\ Frame(s[j]))
  BY <1>1, EmptyCalls, ElementOfSeq DEF Calls
<1> DEFINE q == SubSeq(s, 1, Len(s) - 1)
<1>3. q \in Seq(S) /\ Len(q) = Len(s) - 1 /\ (\A j \in 1..Len(q) : q[j] = s[j])
  <2>1. \A j \in 1..(Len(s) - 1) : s[j] \in S
    BY <1>2
  <2>2. /\ q \in Seq(S)
        /\ Len(q) = IF 1 <= Len(s) - 1 THEN (Len(s) - 1) - 1 + 1 ELSE 0
        /\ \A j \in 1..((Len(s) - 1) - 1 + 1) : q[j] = s[1 + j - 1]
    BY <1>2, <2>1, SubSeqProperties
  <2> HIDE DEF q
  <2>3. Len(q) = Len(s) - 1
    <3>1. \A n \in Nat \ {0} : n - 1 = IF 1 <= n - 1 THEN (n - 1) - 1 + 1 ELSE 0
      OBVIOUS
    <3> QED BY <1>2, <2>2, <3>1, Zenon
  <2>4. ASSUME NEW j \in 1..Len(q) PROVE q[j] = s[j]
    <3>1. j \in 1..((Len(s) - 1) - 1 + 1) /\ 1 + j - 1 = j
      BY <1>2, <2>3
    <3>2. q[j] = s[1 + j - 1]
      BY <2>2, <3>1
    <3> QED BY <3>1, <3>2
  <2> QED BY <2>2, <2>3, <2>4
<1> HIDE DEF q
<1>4. Calls(q)
  BY <1>2, <1>3 DEF Calls
<1> QED BY <1>2, <1>3, <1>4 DEF q

\* A call is pushed back.
LEMMA CallsPush ==
  ASSUME NEW s, Calls(s), NEW f, Frame(f)
  PROVE  LET q == Append(s, f)
         IN  /\ Calls(q) /\ Len(q) = Len(s) + 1 /\ q # <<>>
             /\ \A j \in 1..Len(s) : q[j] = s[j]
             /\ q[Len(s) + 1] = f
<1>1. PICK S : s \in Seq(S)
  BY DEF Calls
<1> DEFINE q == Append(s, f)
<1>2. s \in Seq(S \cup {f}) /\ f \in S \cup {f} /\ Len(s) \in Nat
  BY <1>1, SeqMonotonic, LenProperties
<1>3. /\ q \in Seq(S \cup {f}) /\ q # <<>> /\ Len(q) = Len(s) + 1
      /\ \A j \in 1..Len(s) : q[j] = s[j]
      /\ q[Len(s) + 1] = f
  BY <1>2, AppendProperties
<1> HIDE DEF q
<1>4. \A j \in 1..Len(q) : Frame(q[j])
  BY <1>2, <1>3 DEF Calls
<1> QED BY <1>3, <1>4 DEF Calls, q

\* Two runs of calls, one on top of the other
Join(s, t) == s \o t

\* Calls on top of calls are calls.
LEMMA CallsJoin ==
  ASSUME NEW s, Calls(s), NEW t, Calls(t)
  PROVE  /\ Calls(Join(s, t)) /\ Len(Join(s, t)) = Len(s) + Len(t)
         /\ \A j \in 1..Len(s) : Join(s, t)[j] = s[j]
         /\ \A j \in 1..Len(t) : Join(s, t)[Len(s) + j] = t[j]
<1> DEFINE q == Join(s, t)
<1>1. PICK S : s \in Seq(S)
  BY DEF Calls
<1>2. PICK U : t \in Seq(U)
  BY DEF Calls
<1>3. s \in Seq(S \cup U) /\ t \in Seq(S \cup U) /\ Len(s) \in Nat /\ Len(t) \in Nat
  BY <1>1, <1>2, SeqMonotonic, LenProperties
<1>4. /\ q \in Seq(S \cup U) /\ Len(q) = Len(s) + Len(t)
      /\ \A j \in 1..(Len(s) + Len(t)) : q[j] = IF j <= Len(s) THEN s[j] ELSE t[j - Len(s)]
  BY <1>3, ConcatProperties DEF Join
<1> HIDE DEF q
<1>5. \A j \in 1..Len(s) : q[j] = s[j]
  BY <1>3, <1>4
<1>6. ASSUME NEW j \in 1..Len(t) PROVE q[Len(s) + j] = t[j]
  <2>1. Len(s) + j \in 1..(Len(s) + Len(t)) /\ ~(Len(s) + j <= Len(s)) /\ (Len(s) + j) - Len(s) = j
    BY <1>3
  <2> QED BY <1>4, <2>1
<1>7. \A j \in 1..Len(q) : Frame(q[j])
  <2> SUFFICES ASSUME NEW j \in 1..Len(q) PROVE Frame(q[j])
    OBVIOUS
  <2>1. j \in 1..Len(s) \/ (j - Len(s) \in 1..Len(t) /\ j = Len(s) + (j - Len(s)))
    BY <1>3, <1>4
  <2> QED BY <1>5, <1>6, <2>1 DEF Calls
<1> QED BY <1>4, <1>5, <1>6, <1>7 DEF Calls, q

\* A call of a level, down to the unary expression
LEMMA CallFacts ==
  ASSUME NEW n \in 3..16
  PROVE  /\ Calls(Call(n)) /\ Len(Call(n)) = n - 2
         /\ Call(n)[n - 2] = Fresh(3)
         /\ \A j \in 1..(n - 2) : Call(n)[j].op # "."
<1>1. \A m : Frame(Fresh(m)) /\ Fresh(m).op = NoOp
  BY DEF Frame, Fresh
<1>2. n - 2 \in Nat /\ n - 2 \in 1..(n - 2) /\ n + 1 - (n - 2) = 3
  OBVIOUS
<1>3. Call(n) \in Seq({Fresh(m) : m \in Int})
  <2>1. \A i \in 1..(n - 2) : Fresh(n + 1 - i) \in {Fresh(m) : m \in Int}
    OBVIOUS
  <2>2. Call(n) \in [1..(n - 2) -> {Fresh(m) : m \in Int}]
    BY <2>1 DEF Call
  <2> QED BY <1>2, <2>2, SeqDef
<1>4. Len(Call(n)) = n - 2
  BY <1>2, <1>3, LenProperties DEF Call
<1>5. \A j \in 1..(n - 2) : Call(n)[j] = Fresh(n + 1 - j)
  BY DEF Call
<1>6. Calls(Call(n))
  BY <1>1, <1>3, <1>4, <1>5 DEF Calls
<1>7. Call(n)[n - 2] = Fresh(3)
  BY <1>2, <1>5
<1>8. \A j \in 1..(n - 2) : Call(n)[j].op # "."
  BY <1>1, <1>5 DEF NoOp
<1> QED BY <1>4, <1>6, <1>7, <1>8

-----------------------------------------------------------------------------
(* What the parser expects                                                 *)

\* Calls on top of others that wait for no name: an operand is next.
LEMMA ToCall ==
  ASSUME NEW s, Calls(s), Pointless(s, Len(s)), NEW n \in 3..16,
         NEW closed, NEW point, ~closed, ~point
  PROVE  Calls(s \o Call(n)) /\ Expecting(s \o Call(n), NoNode, closed, point)
<1> DEFINE q == Join(s, Call(n))
<1>1. Len(s) \in Nat /\ n - 2 \in 1..(n - 2)
  BY EmptyCalls
<1>2. /\ Calls(q) /\ Len(q) = Len(s) + (n - 2)
      /\ \A j \in 1..Len(s) : q[j] = s[j]
      /\ \A j \in 1..(n - 2) : q[Len(s) + j] = Call(n)[j]
  <2>1. Calls(Call(n)) /\ Len(Call(n)) = n - 2
    BY CallFacts
  <2>2. Calls(q) /\ Len(q) = Len(s) + Len(Call(n))
    BY <2>1, CallsJoin
  <2>3. \A j \in 1..Len(s) : q[j] = s[j]
    BY <2>1, CallsJoin
  <2>4. \A j \in 1..Len(Call(n)) : q[Len(s) + j] = Call(n)[j]
    BY <2>1, CallsJoin
  <2> QED BY <2>1, <2>2, <2>3, <2>4
<1> HIDE DEF q
<1>3. q # <<>> /\ q[Len(q)] = Fresh(3)
  <2>1. Call(n)[n - 2] = Fresh(3)
    BY CallFacts
  <2>2. q # <<>>
    BY <1>1, <1>2, EmptyCalls
  <2> QED BY <1>1, <1>2, <2>1, <2>2
<1>4. Pointless(q, Len(q) - 1)
  <2> SUFFICES ASSUME NEW j \in 1..(Len(q) - 1) PROVE q[j].op # "."
    BY DEF Pointless
  <2>1. CASE j \in 1..Len(s)
    BY <1>2, <2>1 DEF Pointless
  <2>2. CASE j \notin 1..Len(s)
    <3>1. j - Len(s) \in 1..(n - 2) /\ j = Len(s) + (j - Len(s))
      BY <1>1, <1>2, <2>2
    <3>2. q[j] = Call(n)[j - Len(s)]
      BY <1>2, <3>1
    <3> QED BY <3>1, <3>2, CallFacts
  <2> QED BY <2>1, <2>2
<1>5. Fresh(3).level = 3 /\ Fresh(3).op # "."
  BY DEF Fresh, NoOp
<1> QED BY <1>2, <1>3, <1>4, <1>5 DEF Expecting, q, Join

\* A frame on top of others that wait for no name
LEMMA ToFrame ==
  ASSUME NEW s, Calls(s), Pointless(s, Len(s)), NEW f, Frame(f)
  PROVE  /\ Calls(Append(s, f)) /\ Append(s, f) # <<>>
         /\ Append(s, f)[Len(Append(s, f))] = f
         /\ Pointless(Append(s, f), Len(Append(s, f)) - 1)
         /\ f.op # "." => Pointless(Append(s, f), Len(Append(s, f)))
<1> DEFINE q == Append(s, f)
<1>1. Len(s) \in Nat
  BY EmptyCalls
<1>2. /\ Calls(q) /\ Len(q) = Len(s) + 1 /\ q # <<>>
      /\ \A j \in 1..Len(s) : q[j] = s[j]
      /\ q[Len(s) + 1] = f
  BY CallsPush
<1> HIDE DEF q
<1>3. Pointless(q, Len(q) - 1)
  BY <1>1, <1>2 DEF Pointless
<1>4. f.op # "." => Pointless(q, Len(q))
  BY <1>1, <1>2 DEF Pointless
<1> QED BY <1>1, <1>2, <1>3, <1>4 DEF q

\* The calls of the postfix and the member expression
LEMMA ToMember ==
  ASSUME NEW s, Calls(s), Pointless(s, Len(s)), NEW closed, NEW point, ~closed, ~point
  PROVE  /\ Calls(s \o <<Fresh(2), Fresh(1)>>)
         /\ Expecting(s \o <<Fresh(2), Fresh(1)>>, NoNode, closed, point)
<1> DEFINE t == <<Fresh(2), Fresh(1)>>
           q == Join(s, t)
<1>1. Calls(t) /\ Len(t) = 2 /\ t[1] = Fresh(2) /\ t[2] = Fresh(1)
  <2>1. t \in Seq({Fresh(2), Fresh(1)}) /\ Len(t) = 2
    OBVIOUS
  <2>2. \A m : Frame(Fresh(m))
    BY DEF Frame, Fresh
  <2>3. \A j \in 1..2 : Frame(t[j])
    BY <2>2
  <2> QED BY <2>1, <2>3 DEF Calls
<1> HIDE DEF t
<1>2. Len(s) \in Nat
  BY EmptyCalls
<1>3. /\ Calls(q) /\ Len(q) = Len(s) + Len(t)
      /\ \A j \in 1..Len(s) : q[j] = s[j]
      /\ \A j \in 1..Len(t) : q[Len(s) + j] = t[j]
  <2> Calls(t)
    BY <1>1
  <2>1. Calls(q) /\ Len(q) = Len(s) + Len(t)
    BY CallsJoin
  <2>2. \A j \in 1..Len(s) : q[j] = s[j]
    BY CallsJoin
  <2>3. \A j \in 1..Len(t) : q[Len(s) + j] = t[j]
    BY CallsJoin
  <2> QED BY <2>1, <2>2, <2>3
<1> HIDE DEF q
<1>4. q # <<>> /\ q[Len(q)] = Fresh(1) /\ q[Len(s) + 1] = Fresh(2)
  BY <1>1, <1>2, <1>3, EmptyCalls
<1>5. /\ Fresh(1).level = 1 /\ Fresh(1).left = NoNode /\ Fresh(1).op # "." /\ Fresh(2).op # "."
  BY DEF Fresh, NoOp
<1>6. Pointless(q, Len(q) - 1)
  <2>1. Len(q) - 1 = Len(s) + 1
    BY <1>1, <1>2, <1>3
  <2>2. \A j \in 1..(Len(s) + 1) : j \in 1..Len(s) \/ j = Len(s) + 1
    BY <1>2
  <2> QED BY <1>3, <1>4, <1>5, <2>1, <2>2 DEF Pointless
<1> QED BY <1>3, <1>4, <1>5, <1>6 DEF Expecting, q, t, Join

\* The operator of a frame changes, or the node on its left, or both.
LEMMA SetOp ==
  ASSUME NEW f, Frame(f), NEW op
  PROVE  LET g == [f EXCEPT !.op = op]
         IN  Frame(g) /\ g.level = f.level /\ g.op = op /\ g.left = f.left
<1>1. PICK a, b, c : f = [level |-> a, op |-> b, left |-> c]
  BY DEF Frame
<1>2. [f EXCEPT !.op = op] = [level |-> a, op |-> op, left |-> c]
  BY <1>1
<1> QED BY <1>1, <1>2 DEF Frame

\* A frame with another left operand is a frame.
LEMMA SetLeft ==
  ASSUME NEW f, Frame(f), NEW left
  PROVE  LET g == [f EXCEPT !.left = left]
         IN  Frame(g) /\ g.level = f.level /\ g.op = f.op /\ g.left = left
<1>1. PICK a, b, c : f = [level |-> a, op |-> b, left |-> c]
  BY DEF Frame
<1>2. [f EXCEPT !.left = left] = [level |-> a, op |-> b, left |-> left]
  BY <1>1
<1> QED BY <1>1, <1>2 DEF Frame

With(f, op, left) == [f EXCEPT !.op = op, !.left = left]

\* A frame with another operator and left operand is a frame.
LEMMA SetBoth ==
  ASSUME NEW f, Frame(f), NEW op, NEW left
  PROVE  /\ Frame(With(f, op, left)) /\ With(f, op, left).level = f.level
         /\ With(f, op, left).op = op /\ With(f, op, left).left = left
<1> DEFINE h == [f EXCEPT !.op = op]
           g == [h EXCEPT !.left = left]
<1>1. With(f, op, left) = g
  BY DEF With
<1>2. Frame(h) /\ h.level = f.level /\ h.op = op
  BY SetOp, Zenon
<1> HIDE DEF h
<1>3. Frame(g) /\ g.level = h.level /\ g.op = h.op /\ g.left = left
  BY <1>2, SetLeft, Zenon
<1> HIDE DEF g
<1>4. Frame(g) /\ g.level = f.level /\ g.op = op /\ g.left = left
  BY <1>2, <1>3
<1> QED BY <1>4, <1>1

\* The calls that are left when the innermost returns
LEMMA BelowFacts ==
  ASSUME Calls(stack), stack # <<>>, Pointless(stack, Len(stack) - 1)
  PROVE  Calls(Below) /\ Pointless(Below, Len(Below)) /\ Frame(Top)
BY CallsPop DEF Below, Top, Pointless

\* The next token, when the parser takes it
LEMMA NextFacts ==
  ASSUME GInv, ahead
  PROVE  /\ Len(read) \in Nat \ {0} /\ Next1 = read[Len(read)] /\ Taken = Len(read) - 1
         /\ Closes[Len(read)] <=> \/ Next1.type \in Literal \cup {")", "]", "ID"}
                                  \/ Next1.type \in Step1 /\ ~Next1.line /\ Closes[Taken]
         /\ Point(Len(read)) <=> Next1.type = "."
<1>1. Len(read) \in Nat \ {0} /\ Typed
  BY LenProperties, EmptySeq DEF GInv, Typed
<1>2. Next1 = read[Len(read)] /\ Taken = Len(read) - 1 /\ T(Len(read)) = Next1.type
  BY DEF Next1, Taken, T
<1>3. Len(read) \in 1..Len(read)
  BY <1>1
<1>4. Closes[Len(read)] <=> \/ Next1.type \in Literal \cup {")", "]", "ID"}
                            \/ Next1.type \in Step1 /\ ~Next1.line /\ Closes[Taken]
  BY <1>1, <1>2, <1>3, ClosesFacts
<1>5. Point(Len(read)) <=> Next1.type = "."
  BY <1>1, <1>2 DEF Point
<1> QED BY <1>1, <1>2, <1>4, <1>5

\* A step of the parser, where the token is taken or stays
LEMMA Moved ==
  ASSUME GInv, Running, NEW s, NEW r, Calls(s),
         \/ Take(s, r) /\ Expecting(s, r, Closes[Len(read)], Point(Len(read)))
         \/ Leave(s, r) /\ (ahead \/ Silent) /\ Expecting(s, r, Closes[Taken], Point(Taken))
  PROVE  GInv'
<1>1. Move(s, r) /\ (ahead \/ Silent) /\ ahead' \in BOOLEAN /\ (ahead' => ahead)
  <2>1. ahead \in BOOLEAN
    BY DEF GInv, Typed
  <2>2. CASE Take(s, r)
    BY <2>2 DEF Take
  <2>3. CASE Leave(s, r) /\ (ahead \/ Silent)
    BY <2>1, <2>3, Zenon DEF Leave
  <2> QED BY <2>2, <2>3
<1>2. read' = read /\ stack' = s /\ ret' = r /\ tree' = tree /\ UNCHANGED lexVars
  BY <1>1 DEF Move
<1>3. Typed'
  BY <1>1, <1>2 DEF GInv, Typed, lexVars
<1>4. Flag' /\ LinesSeen'
  BY <1>2 DEF GInv, Flag, LinesSeen, T, Last, LineIn, Passed, lexVars
<1>5. Closes' = Closes
  BY <1>2 DEF Closes, T
<1>6. GoalsRight'
  BY <1>2, <1>5 DEF GInv, GoalsRight, T
<1>7. Asked'
  BY <1>1, <1>2 DEF GInv, Asked, lexVars
<1>8. Place'
  <2>1. \A n : Point(n)' <=> Point(n')
    BY <1>2 DEF Point, T
  <2>2. CASE Take(s, r) /\ Expecting(s, r, Closes[Len(read)], Point(Len(read)))
    <3>1. Taken' = Len(read)
      BY <1>2, <2>2 DEF Take, Taken
    <3> QED BY <1>2, <1>5, <2>2, <3>1 DEF Place, Point, T
  <2>3. CASE Leave(s, r) /\ Expecting(s, r, Closes[Taken], Point(Taken))
    <3>1. Taken' = Taken
      BY <1>2, <2>3 DEF Leave, Taken
    <3> QED BY <1>2, <1>5, <2>3, <3>1 DEF Place, Point, T
  <2> QED BY <2>2, <2>3
<1>9. Calls(stack)' /\ (ahead => read # <<>>)'
  BY <1>1, <1>2 DEF GInv, Calls, Frame
<1> QED BY <1>3, <1>4, <1>6, <1>7, <1>8, <1>9 DEF GInv

\* The parser gives up.
LEMMA Stopped ==
  ASSUME GInv, SyntaxError
  PROVE  GInv'
<1>1. Fail /\ UNCHANGED gmrVars
  BY DEF SyntaxError
<1>2. Typed' /\ Flag'
  BY <1>1, FailStep DEF GInv
<1>3. LinesSeen' /\ GoalsRight' /\ Closes' = Closes
  <2>1. read' = read /\ text' = text
    BY <1>1 DEF Fail, gmrVars
  <2>2. Closes' = Closes
    BY <2>1 DEF Closes, T
  <2> QED BY <2>1, <2>2 DEF GInv, LinesSeen, GoalsRight, T
<1>4. Asked' /\ Place'
  BY <1>1, <1>3 DEF GInv, Asked, Place, Taken, Point, T, Fail, gmrVars, Silent, Operand, Member, Top
<1>5. Calls(stack)' /\ (ahead => read # <<>>)'
  BY <1>1 DEF GInv, Calls, Frame, gmrVars
<1> QED BY <1>2, <1>3, <1>4, <1>5 DEF GInv

-----------------------------------------------------------------------------
(* The functions of the parser                                             *)

\* What is known where a function goes on
LEMMA AtFacts ==
  ASSUME GInv, Running, stack # <<>>
  PROVE  /\ Calls(stack) /\ Calls(Below) /\ Pointless(Below, Len(Below)) /\ Frame(Top)
         /\ ret # NoNode => Pointless(stack, Len(stack)) /\ Top.op # "." /\ Closes[Taken]
         /\ ret = NoNode =>
              \/ /\ Top.level = 3 \/ (Top.level = 1 /\ Top.left = NoNode)
                 /\ Top.op # "." /\ ~Closes[Taken] /\ ~Point(Taken) /\ Pointless(stack, Len(stack))
              \/ /\ Top.level = 1 /\ Top.left # NoNode
                 /\ (Top.op = "." => Point(Taken)) /\ (Top.op # "." => Closes[Taken])
<1>1. Calls(stack) /\ Expecting(stack, ret, Closes[Taken], Point(Taken))
  BY DEF GInv, Place, Running
<1>2. Len(stack) \in Nat \ {0}
  BY <1>1, EmptyCalls
<1>3. Pointless(stack, Len(stack) - 1)
  BY <1>1, <1>2 DEF Expecting, Pointless
<1>4. Pointless(stack, Len(stack) - 1) /\ Top.op # "." => Pointless(stack, Len(stack))
  BY <1>2 DEF Pointless, Top
<1>5. ret # NoNode => Pointless(stack, Len(stack)) /\ Top.op # "." /\ Closes[Taken]
  BY <1>1, <1>2 DEF Expecting, Pointless, Top
<1>6. Calls(Below) /\ Pointless(Below, Len(Below)) /\ Frame(Top)
  BY <1>1, <1>3, BelowFacts
<1> QED BY <1>1, <1>4, <1>5, <1>6 DEF Expecting, Top

\* A function returns a node: the last token taken is the last of an operand.
LEMMA Returned ==
  ASSUME GInv, Running, stack # <<>>, NEW r, r # NoNode,
         \/ Take(Below, r) /\ Closes[Len(read)]
         \/ Leave(Below, r) /\ (ahead \/ Silent) /\ Closes[Taken]
  PROVE  GInv'
<1>1. Calls(Below) /\ Pointless(Below, Len(Below))
  BY AtFacts
<1>2. ASSUME NEW closed, NEW point, closed PROVE Expecting(Below, r, closed, point)
  BY <1>1, <1>2 DEF Expecting
<1> QED BY <1>1, <1>2, Moved

\* A function takes an operator and calls another: an operand is next.
LEMMA Called ==
  ASSUME GInv, Running, stack # <<>>, NEW f, Frame(f), f.op # ".", NEW n \in 3..16,
         Take(Append(Below, f) \o Call(n), NoNode), ~Closes[Len(read)], ~Point(Len(read))
  PROVE  GInv'
<1>1. Calls(Append(Below, f)) /\ Pointless(Append(Below, f), Len(Append(Below, f)))
  BY AtFacts, ToFrame
<1> DEFINE s == Append(Below, f) \o Call(n)
<1>2. Calls(s) /\ Expecting(s, NoNode, Closes[Len(read)], Point(Len(read)))
  BY <1>1, ToCall
<1> HIDE DEF s
<1>3. Take(s, NoNode)
  BY DEF s
<1> QED BY <1>2, <1>3, Moved

\* The member expression goes on: an operand is read, or a point.
LEMMA WentOn ==
  ASSUME GInv, Running, stack # <<>>, NEW f, Frame(f), f.level = 1, f.left # NoNode,
         Take(Append(Below, f), NoNode),
         f.op = "." => Point(Len(read)), f.op # "." => Closes[Len(read)]
  PROVE  GInv'
<1> DEFINE s == Append(Below, f)
<1>1. /\ Calls(s) /\ s # <<>> /\ s[Len(s)] = f /\ Pointless(s, Len(s) - 1)
  BY AtFacts, ToFrame
<1>2. Take(s, NoNode)
  OBVIOUS
<1> HIDE DEF s
<1>3. Expecting(s, NoNode, Closes[Len(read)], Point(Len(read)))
  BY <1>1 DEF Expecting
<1> QED BY <1>1, <1>2, <1>3, Moved

\* The primary expressions: a literal, a name, a bracket.
LEMMA PrimaryKeeps == ASSUME GInv, Primary PROVE GInv'
<1>1. Running /\ stack # <<>> /\ Top.level = 1 /\ ret = NoNode /\ ahead /\ Top.left = NoNode
  BY DEF Primary, PrimaryStart, At
<1>2. Frame(Top) /\ Top.op # "." /\ ~Closes[Taken] /\ ~Point(Taken)
  BY <1>1, AtFacts
<1>3. CASE Next1.type \in Literal /\ Take(Append(Below, [Top EXCEPT !.left = Leaf]), NoNode)
  <2>1. Closes[Len(read)] /\ Leaf # NoNode
    BY <1>1, <1>3, NextFacts DEF Leaf, NoNode
  <2> DEFINE f == [Top EXCEPT !.left = Leaf]
  <2>2. Frame(f) /\ f.level = Top.level /\ f.left = Leaf /\ f.op = Top.op
    BY <1>2, SetLeft, Zenon
  <2>3. Take(Append(Below, f), NoNode)
    BY <1>3
  <2> HIDE DEF f
  <2> QED BY <1>1, <1>2, <2>1, <2>2, <2>3, WentOn
<1>4. CASE Next1.type = "(" /\ Take(Append(Below, [Top EXCEPT !.op = "("]) \o Call(16), NoNode)
  <2>1. ~Closes[Len(read)] /\ ~Point(Len(read))
    BY <1>1, <1>4, NextFacts DEF Literal, Step1
  <2> DEFINE f == [Top EXCEPT !.op = "("]
  <2>2. Frame(f) /\ f.op = "("
    BY <1>2, SetOp, Zenon
  <2>3. Take(Append(Below, f) \o Call(16), NoNode)
    BY <1>4
  <2> HIDE DEF f
  <2> QED BY <1>1, <2>1, <2>2, <2>3, Called
<1>5. CASE SyntaxError
  BY <1>5, Stopped
<1> QED BY <1>3, <1>4, <1>5 DEF Primary

\* The name or the bracket that a member expression waits for.
LEMMA ExpectedKeeps == ASSUME GInv, Expected PROVE GInv'
<1>1. Running /\ stack # <<>> /\ Top.level = 1 /\ ahead
  BY DEF Expected, At
<1>2. Frame(Top)
  BY <1>1, AtFacts
<1> DEFINE with(node) == With(Top, NoOp, node)
<1>3. ASSUME NEW node, node # NoNode, Next1.type \in {")", "]", "ID"}, Take(Append(Below, with(node)), NoNode)
      PROVE  GInv'
  <2>1. Closes[Len(read)]
    BY <1>1, <1>3, NextFacts
  <2>2. /\ Frame(with(node)) /\ with(node).level = Top.level
        /\ with(node).left = node /\ with(node).op = NoOp
    BY <1>2, SetBoth
  <2> QED BY <1>1, <1>3, <2>1, <2>2, WentOn DEF NoOp
<1>4. CASE SyntaxError
  BY <1>4, Stopped
<1>5. CASE ret # NoNode /\ Next1.type = ")" /\ Take(Append(Below, with(ret)), NoNode)
  BY <1>3, <1>5
<1>6. CASE Next1.type = "]" /\ Take(Append(Below, with(<<"[]", Top.left, ret>>)), NoNode)
  <2>1. <<"[]", Top.left, ret>> # NoNode
    BY DEF NoNode
  <2> QED BY <1>3, <1>6, <2>1
<1>7. CASE Next1.type = "ID" /\ Take(Append(Below, with(<<".", Top.left, Leaf>>)), NoNode)
  <2>1. <<".", Top.left, Leaf>> # NoNode
    BY DEF NoNode
  <2> QED BY <1>3, <1>7, <2>1
<1> QED BY <1>4, <1>5, <1>6, <1>7, Zenon DEF Expected, With

\* The loop of member expressions takes a dot or a bracket, or returns.
LEMMA MemberLoopKeeps == ASSUME GInv, MemberLoop PROVE GInv'
<1>1. Running /\ stack # <<>> /\ Top.level = 1 /\ ahead /\ ret = NoNode /\ Top.op = NoOp /\ Top.left # NoNode
  BY DEF MemberLoop, At
<1>2. Frame(Top) /\ Closes[Taken]
  BY <1>1, AtFacts DEF NoOp
<1>3. CASE Next1.type = "." /\ Take(Append(Below, [Top EXCEPT !.op = "."]), NoNode)
  <2>1. Point(Len(read))
    BY <1>1, <1>3, NextFacts
  <2> DEFINE f == [Top EXCEPT !.op = "."]
  <2>2. Frame(f) /\ f.level = Top.level /\ f.left = Top.left /\ f.op = "."
    BY <1>2, SetOp, Zenon
  <2>3. Take(Append(Below, f), NoNode)
    BY <1>3
  <2> HIDE DEF f
  <2> QED BY <1>1, <2>1, <2>2, <2>3, WentOn
<1>4. CASE Next1.type = "[" /\ Take(Append(Below, [Top EXCEPT !.op = "["]) \o Call(16), NoNode)
  <2>1. ~Closes[Len(read)] /\ ~Point(Len(read))
    BY <1>1, <1>4, NextFacts DEF Literal, Step1
  <2> DEFINE f == [Top EXCEPT !.op = "["]
  <2>2. Frame(f) /\ f.op = "["
    BY <1>2, SetOp, Zenon
  <2>3. Take(Append(Below, f) \o Call(16), NoNode)
    BY <1>4
  <2> HIDE DEF f
  <2> QED BY <1>1, <2>1, <2>2, <2>3, Called
<1>5. CASE Leave(Below, Top.left)
  BY <1>1, <1>2, <1>5, Returned
<1> QED BY <1>3, <1>4, <1>5 DEF MemberLoop

\* A postfix expression takes a step on the same line, or returns.
LEMMA PostfixKeeps == ASSUME GInv, Postfix PROVE GInv'
<1>1. Running /\ stack # <<>> /\ ahead /\ ret # NoNode
  BY DEF Postfix, At
<1>2. Closes[Taken]
  BY <1>1, AtFacts
<1>3. CASE ~Next1.line /\ Next1.type \in Step1 /\ Take(Below, <<Post(Next1.type), ret>>)
  <2>1. Closes[Len(read)] /\ <<Post(Next1.type), ret>> # NoNode
    BY <1>1, <1>2, <1>3, NextFacts DEF NoNode
  <2> QED BY <1>1, <1>3, <2>1, Returned
<1>4. CASE Leave(Below, ret)
  BY <1>1, <1>2, <1>4, Returned
<1> QED BY <1>3, <1>4 DEF Postfix

\* A unary expression takes an operator, or calls.
LEMMA UnaryKeeps == ASSUME GInv, Unary PROVE GInv'
<1>1. Running /\ stack # <<>> /\ Top.level = 3
  BY DEF Unary, At
<1>2. Frame(Top)
  BY <1>1, AtFacts
<1>3. CASE /\ ret = NoNode /\ ahead /\ Next1.type \in Prefix
           /\ Take(Append(Below, [Top EXCEPT !.op = Next1.type]) \o Call(3), NoNode)
  <2>1. ~Closes[Len(read)] /\ ~Point(Len(read)) /\ Next1.type # "."
    BY <1>1, <1>3, AtFacts, NextFacts DEF Prefix, Literal
  <2> DEFINE f == [Top EXCEPT !.op = Next1.type]
  <2>2. Frame(f) /\ f.op = Next1.type
    BY <1>2, SetOp, Zenon
  <2>3. Take(Append(Below, f) \o Call(3), NoNode)
    BY <1>3
  <2> HIDE DEF f
  <2> QED BY <1>1, <2>1, <2>2, <2>3, Called
<1>4. CASE ret = NoNode /\ ahead /\ Leave(stack \o <<Fresh(2), Fresh(1)>>, NoNode)
  <2>1. Calls(stack) /\ Pointless(stack, Len(stack)) /\ ~Closes[Taken] /\ ~Point(Taken)
    BY <1>1, <1>4, AtFacts
  <2> DEFINE s == stack \o <<Fresh(2), Fresh(1)>>
  <2>2. Calls(s) /\ Expecting(s, NoNode, Closes[Taken], Point(Taken))
    BY <2>1, ToMember
  <2>3. Leave(s, NoNode)
    BY <1>4
  <2> HIDE DEF s
  <2> QED BY <1>1, <1>4, <2>2, <2>3, Moved
<1>5. CASE ret # NoNode /\ Leave(Below, IF Top.op = NoOp THEN ret ELSE <<Top.op, ret>>)
  <2>1. Silent /\ Closes[Taken]
    BY <1>1, <1>5, AtFacts DEF Silent
  <2>2. (IF Top.op = NoOp THEN ret ELSE <<Top.op, ret>>) # NoNode
    BY <1>5 DEF NoNode
  <2> QED BY <1>1, <1>5, <2>1, <2>2, Returned
<1> QED BY <1>3, <1>4, <1>5 DEF Unary

\* No operator ends an operand or is a point.
LEMMA OperatorFacts ==
  ASSUME NEW n \in Binary, NEW t, t \in Operators(n)
  PROVE  t \notin Literal \cup {")", "]", "ID"} \cup Step1 /\ t # "." /\ n \in 4..16 /\ n - 1 \in 3..16
<1>1. n \in 4..16 /\ n - 1 \in 3..16
  BY DEF Binary
<1>2. CASE n = 16
  <2>1. t = ","
    BY <1>2, Zenon DEF Operators
  <2> QED BY <1>1, <2>1, Zenon DEF Literal, Step1
<1>3. CASE n # 16
  <2> DEFINE low == CASE n = 4 -> {"*", "%", "/"}   [] n = 5 -> {"+", "-"}
                     [] n = 6 -> {"<<", ">>", ">>>"}
                     [] n = 7 -> {"<", ">", "<=", ">=", "INSTANCEOF"}
                     [] n = 8 -> {"==", "!=", "===", "!=="}
                     [] n = 9 -> {"&"}   [] n = 10 -> {"^"}   [] n = 11 -> {"|"}
                     [] n = 12 -> {"&&"} [] n = 13 -> {"||"}
  <2>1. t \in {"*", "%", "/", "+", "-", "<<", ">>", ">>>", "<", ">", "<=", ">=", "INSTANCEOF",
               "==", "!=", "===", "!==", "&", "^", "|", "&&", "||"}
    <3>1. n \in 4..13
      BY <1>3 DEF Binary
    <3>2. t \in low
      BY <1>3, Zenon DEF Operators
    <3> HIDE DEF Operators
    <3> QED BY <3>1, <3>2
  <2> QED BY <1>1, <2>1 DEF Literal, Step1
<1> QED BY <1>2, <1>3

\* The loop of each level of binary operators.
LEMMA BinaryLoopKeeps == ASSUME GInv, NEW n \in Binary, BinaryLoop(n) PROVE GInv'
<1>1. Running /\ stack # <<>> /\ ahead /\ ret # NoNode
  BY DEF BinaryLoop, At
<1>2. Frame(Top) /\ Closes[Taken] /\ Cur # NoNode
  BY <1>1, AtFacts DEF Cur, NoNode
<1>3. CASE /\ Next1.type \in Operators(n)
           /\ Take(Append(Below, With(Top, Next1.type, Cur)) \o Call(n - 1), NoNode)
  <2>1. ~Closes[Len(read)] /\ ~Point(Len(read)) /\ Next1.type # "." /\ n - 1 \in 3..16
    BY <1>1, <1>3, NextFacts, OperatorFacts
  <2>2. Frame(With(Top, Next1.type, Cur)) /\ With(Top, Next1.type, Cur).op # "."
    BY <1>2, <2>1, SetBoth
  <2> QED BY <1>1, <1>3, <2>1, <2>2, Called
<1>4. CASE Leave(Below, Cur)
  BY <1>1, <1>2, <1>4, Returned
<1> QED BY <1>3, <1>4, Zenon DEF BinaryLoop, With

\* The conditional, with its two operands to come.
LEMMA CondKeeps == ASSUME GInv, Cond PROVE GInv'
<1>1. Running /\ stack # <<>> /\ Top.level = 14 /\ ret # NoNode
  BY DEF Cond, At
<1>2. Frame(Top) /\ Closes[Taken]
  BY <1>1, AtFacts
<1>3. ASSUME NEW left, ahead, Next1.type \in {"?", ":"},
             Take(Append(Below, With(Top, Next1.type, left)) \o Call(15), NoNode)
      PROVE  GInv'
  <2>1. ~Closes[Len(read)] /\ ~Point(Len(read)) /\ Next1.type # "."
    BY <1>3, NextFacts DEF Literal, Step1
  <2>2. Frame(With(Top, Next1.type, left)) /\ With(Top, Next1.type, left).op # "."
    BY <1>2, <2>1, SetBoth
  <2> QED BY <1>1, <1>3, <2>1, <2>2, Called
<1>4. CASE ahead /\ Next1.type = "?" /\ Take(Append(Below, With(Top, "?", ret)) \o Call(15), NoNode)
  BY <1>3, <1>4
<1>5. CASE /\ ahead /\ Next1.type = ":"
           /\ Take(Append(Below, With(Top, ":", <<Top.left, ret>>)) \o Call(15), NoNode)
  BY <1>3, <1>5
<1>6. CASE ahead /\ Leave(Below, ret)
  BY <1>1, <1>2, <1>6, Returned
<1>7. CASE SyntaxError
  BY <1>7, Stopped
<1>8. CASE Top.op = ":" /\ Leave(Below, <<"?:", Top.left[1], Top.left[2], ret>>)
  <2>1. <<"?:", Top.left[1], Top.left[2], ret>> # NoNode
    BY DEF NoNode
  <2>2. Silent
    BY <1>1, <1>8 DEF Silent
  <2> QED BY <1>1, <1>2, <1>8, <2>1, <2>2, Returned
<1> QED BY <1>4, <1>5, <1>6, <1>7, <1>8, Zenon DEF Cond, With

\* The assignment, whose left side must be a place.
LEMMA AssignExprKeeps == ASSUME GInv, AssignExpr PROVE GInv'
<1>1. Running /\ stack # <<>> /\ Top.level = 15 /\ ret # NoNode
  BY DEF AssignExpr, At
<1>2. Frame(Top) /\ Closes[Taken]
  BY <1>1, AtFacts
<1>3. CASE /\ ahead /\ Next1.type \in Assign
           /\ Take(Append(Below, With(Top, Next1.type, ret)) \o Call(15), NoNode)
  <2>1. ~Closes[Len(read)] /\ ~Point(Len(read)) /\ Next1.type # "."
    BY <1>3, NextFacts DEF Literal, Step1, Assign
  <2>2. Frame(With(Top, Next1.type, ret)) /\ With(Top, Next1.type, ret).op # "."
    BY <1>2, <2>1, SetBoth
  <2> QED BY <1>1, <1>3, <2>1, <2>2, Called
<1>4. CASE ahead /\ Leave(Below, ret)
  BY <1>1, <1>2, <1>4, Returned
<1>5. CASE Top.op # NoOp /\ Leave(Below, <<Top.op, Top.left, ret>>)
  <2>1. <<Top.op, Top.left, ret>> # NoNode
    BY DEF NoNode
  <2>2. Silent
    BY <1>1, <1>5 DEF Silent
  <2> QED BY <1>1, <1>2, <1>5, <2>1, <2>2, Returned
<1> QED BY <1>3, <1>4, <1>5, Zenon DEF AssignExpr, With

\* The statement is complete.
LEMMA ExprStmtKeeps == ASSUME GInv, ExprStmt PROVE GInv'
<1>1. Running /\ ret # NoNode /\ ahead
  BY Zenon DEF ExprStmt
<1>2. CASE SyntaxError
  BY <1>2, Stopped
<1>3. CASE tree' = ret /\ (ahead' = TRUE \/ ahead' = FALSE) /\ UNCHANGED <<lexVars, stack, ret, read>>
  <2>1. read' = read /\ stack' = stack /\ tree' # NoNode /\ UNCHANGED lexVars
    BY <1>1, <1>3 DEF NoNode
  <2>2. Typed' /\ Flag' /\ LinesSeen'
    <3>1. ahead' \in BOOLEAN
      BY <1>3, Zenon
    <3>2. Typed'
      BY <2>1, <3>1 DEF GInv, Typed, lexVars
    <3>3. Flag' /\ LinesSeen'
      BY <2>1 DEF GInv, Flag, LinesSeen, T, Last, LineIn, Passed, lexVars
    <3> QED BY <3>2, <3>3
  <2>3. Closes' = Closes
    BY <2>1 DEF Closes, T
  <2>4. GoalsRight'
    BY <2>1, <2>3 DEF GInv, GoalsRight, T
  <2>5. Asked' /\ Place'
    BY <1>1, <2>1 DEF GInv, Asked, Place, lexVars, NoNode
  <2>6. Calls(stack)' /\ (ahead => read # <<>>)'
    BY <1>1, <2>1 DEF GInv, Calls, Frame
  <2> QED BY <2>2, <2>4, <2>5, <2>6 DEF GInv
<1>4. SyntaxError \/ (tree' = ret /\ (ahead' = TRUE \/ ahead' = FALSE) /\ UNCHANGED <<lexVars, stack, ret, read>>)
  BY Zenon DEF ExprStmt
<1> QED BY <1>2, <1>3, <1>4, Zenon

-----------------------------------------------------------------------------
(* The tokens                                                              *)

\* A state function of the lexer runs, while the parser waits.
LEMMA LexStepKeeps == ASSUME GInv, LexStep, UNCHANGED gmrVars PROVE GInv'
<1>1. Typed' /\ Flag'
  BY LexKeeps DEF GInv
<1>2. scan /\ regexp' = regexp /\ parseId' = parseId /\ text' = text
  BY DEF LexStep, DefaultSpace, DefaultLine, DefaultComment, DefaultOperator, DefaultName, DefaultHex,
       DefaultString, DefaultFails, DefaultEnd, LineComment, Comment, NamePart, NameEnd, HexPart, HexEnd,
       StringEnd, StringEscape, StringPart, In, Go, Return, Fail
<1>3. /\ stack' = stack /\ ret' = ret /\ ahead' = ahead /\ read' = read /\ tree' = tree
  BY DEF gmrVars
<1>4. LinesSeen'
  BY <1>2, <1>3 DEF GInv, LinesSeen, T
<1>5. Closes' = Closes
  BY <1>3 DEF Closes, T
<1>6. GoalsRight'
  BY <1>3, <1>5 DEF GInv, GoalsRight, T
<1>7. Place'
  BY <1>3, <1>5 DEF GInv, Place, Taken, Point, T
<1>8. Asked'
  BY <1>2, <1>3 DEF GInv, Asked, Silent, Operand, Member, Top
<1>9. Calls(stack)' /\ (ahead => read # <<>>)'
  BY <1>3 DEF GInv, Calls, Frame
<1> QED BY <1>1, <1>4, <1>6, <1>7, <1>8, <1>9 DEF GInv

\* The parser asks for a token, and sets the flags for the place it is at.
LEMMA AskKeeps == ASSUME GInv, Ask PROVE GInv'
<1>1. /\ Running /\ ~ahead /\ ~Silent /\ ~scan /\ token = NoToken
      /\ scan' = TRUE /\ (regexp' <=> Operand) /\ (parseId' <=> ~Member)
      /\ UNCHANGED <<text, ptr, state, lineBefore, buffer, start, token, halted>>
  BY Zenon DEF Ask, Scan
<1>2. /\ stack' = stack /\ ret' = ret /\ ahead' = ahead /\ read' = read /\ tree' = tree
  BY DEF Ask, gmrVars
<1>3. regexp' \in BOOLEAN /\ parseId' \in BOOLEAN
  BY Zenon DEF Ask, Scan, Operand, Member
<1>4. Typed'
  BY <1>1, <1>2, <1>3 DEF GInv, Typed
<1>5. Flag'
  <2>1. ptr = Last /\ state = "default" /\ ~lineBefore /\ Last \in Nat
    BY <1>1, LastType DEF GInv, Flag
  <2>2. ~LineIn(Last, Last)
    BY <2>1, LineInNext
  <2>3. Last' = Last /\ Passed' = ptr /\ text' = text
    BY <1>1, <1>2, <2>1 DEF Last, Passed
  <2>4. LineIn(Last, Passed)' <=> LineIn(Last, Last)
    BY <2>1, <2>3 DEF LineIn
  <2> QED BY <1>1, <2>1, <2>2, <2>3, <2>4 DEF Flag
<1>6. LinesSeen'
  BY <1>1, <1>2 DEF GInv, LinesSeen, T
<1>7. Closes' = Closes
  BY <1>2 DEF Closes, T
<1>8. GoalsRight'
  BY <1>2, <1>7 DEF GInv, GoalsRight, T
<1>9. Place'
  BY <1>2, <1>7 DEF GInv, Place, Taken, Point, T
<1>10. Asked'
  BY <1>1, <1>2 DEF Asked, Running, Silent, Operand, Member, Top
<1>11. Calls(stack)' /\ (ahead => read # <<>>)'
  BY <1>2 DEF GInv, Calls, Frame
<1> QED BY <1>4, <1>5, <1>6, <1>8, <1>9, <1>10, <1>11 DEF GInv

\* A sequence of tokens and one more
LEMMA ReadAppend ==
  ASSUME NEW S, NEW r \in Seq(S), NEW t
  PROVE  /\ \E U : Append(r, t) \in Seq(U)
         /\ Append(r, t) # <<>> /\ Len(Append(r, t)) = Len(r) + 1 /\ Len(r) \in Nat
         /\ Append(r, t)[Len(r) + 1] = t
         /\ \A i \in 1..Len(r) : Append(r, t)[i] = r[i]
<1>1. r \in Seq(S \cup {t}) /\ t \in S \cup {t}
  BY SeqMonotonic
<1> QED BY <1>1, AppendProperties, LenProperties

\* The token comes to where the flags of the lexer were for.
LEMMA ReceiveKeeps == ASSUME GInv, Receive PROVE GInv'
<1> DEFINE n == Len(read)
           t == [type |-> token.type, line |-> token.line, start |-> token.start, end |-> token.end,
                 word |-> token.word, regexp |-> regexp, parseId |-> parseId]
<1>1. /\ token # NoToken /\ ahead' = TRUE /\ read' = Append(read, t) /\ token' = NoToken
      /\ UNCHANGED <<text, ptr, state, lineBefore, regexp, parseId, buffer, start, scan, halted, stack, ret, tree>>
  BY DEF Receive
<1>2. /\ t.type = token.type /\ t.line = token.line /\ t.start = token.start /\ t.end = token.end
      /\ t.regexp = regexp /\ t.parseId = parseId
  OBVIOUS
<1> HIDE DEF t
<1>3. PICK S : read \in Seq(S)
  BY DEF GInv, Typed
<1>4. /\ \E U : read' \in Seq(U)
      /\ read' # <<>> /\ Len(read') = n + 1 /\ n \in Nat
      /\ read'[n + 1] = t
      /\ \A i \in 1..n : read'[i] = read[i]
  <2> DEFINE q == Append(read, t)
  <2>1. \E U : q \in Seq(U)
    BY <1>3, ReadAppend
  <2>2. q # <<>> /\ Len(q) = n + 1 /\ n \in Nat /\ q[n + 1] = t
    BY <1>3, ReadAppend
  <2>3. \A i \in 1..n : q[i] = read[i]
    BY <1>3, ReadAppend
  <2>4. read' = q
    BY <1>1
  <2> HIDE DEF q
  <2> QED BY <2>1, <2>2, <2>3, <2>4
<1>5. /\ ~scan /\ ~ahead /\ tree = NoNode /\ ~Silent
      /\ (regexp <=> Operand) /\ (parseId <=> ~Member)
      /\ state = "default" /\ ~lineBefore /\ token.end = ptr
      /\ (token.line <=> token.type = "EOF" \/ LineIn(Last, token.start))
  BY <1>1 DEF GInv, Asked, Flag
<1>6. Token(t) /\ t.regexp \in BOOLEAN /\ t.parseId \in BOOLEAN
  BY <1>1, <1>2 DEF GInv, Typed, Token
<1>7. Typed'
  <2>1. \A i \in 1..Len(read') : Token(read'[i]) /\ read'[i].regexp \in BOOLEAN /\ read'[i].parseId \in BOOLEAN
    <3> SUFFICES ASSUME NEW i \in 1..Len(read')
                 PROVE  Token(read'[i]) /\ read'[i].regexp \in BOOLEAN /\ read'[i].parseId \in BOOLEAN
      OBVIOUS
    <3>1. i \in 1..n \/ i = n + 1
      BY <1>4
    <3> QED BY <1>4, <1>6, <3>1 DEF GInv, Typed
  <2> QED BY <1>1, <1>4, <2>1 DEF GInv, Typed, Token
<1>8. Last' = ptr
  BY <1>2, <1>4, <1>5 DEF Last
<1>9. Flag'
  BY <1>1, <1>5, <1>8 DEF Flag
<1>10. LinesSeen'
  <2> SUFFICES ASSUME NEW i \in 1..(n + 1)
               PROVE  read'[i].line <=>
                        \/ read'[i].type = "EOF"
                        \/ \E k \in ((IF i = 1 THEN 0 ELSE read'[i - 1].end) + 1)..read'[i].start :
                             text[k] \in LineEnd
    BY <1>1, <1>4 DEF LinesSeen, T
  <2>1. CASE i \in 1..n
    <3>1. i # 1 => i - 1 \in 1..n
      BY <1>4, <2>1
    <3> QED BY <1>4, <2>1, <3>1 DEF GInv, LinesSeen, T
  <2>2. CASE i = n + 1
    <3>1. Last = IF i = 1 THEN 0 ELSE read'[i - 1].end
      BY <1>3, <1>4, <2>2, EmptySeq DEF Last
    <3> QED BY <1>2, <1>4, <1>5, <2>2, <3>1 DEF LineIn
  <2> QED BY <1>4, <2>1, <2>2
<1>11. \A i \in 0..n : Closes'[i] = Closes[i]
  <2>1. ClosesBy(read, Closes) /\ ClosesBy(read', Closes')
    <3>1. ClosesBy(read, Closes)
      BY ClosesIs DEF GInv
    <3>2. Len(read') \in Nat
      BY <1>4
    <3>3. \E c : ClosesBy(read', c)
      BY <3>2, ClosesSolved
    <3>4. Closes' = CHOOSE c : ClosesBy(read', c)
      BY DEF Closes, ClosesBy, T
    <3> QED BY <3>1, <3>3, <3>4
  <2> DEFINE c == Closes
             d == Closes'
             q == read'
  <2>2. ClosesBy(read, c) /\ ClosesBy(q, d) /\ Len(q) = n + 1 /\ (\A i \in 1..n : q[i] = read[i])
    BY <1>4, <2>1
  <2> HIDE DEF c, d, q
  <2>3. \A i \in 0..n : c[i] = d[i]
    BY <1>4, <2>2, ClosesSame
  <2> QED BY <2>3 DEF c, d
<1>12. Expecting(stack, ret, Closes[n], Point(n))
  BY <1>5 DEF GInv, Place, Taken
<1>13. Taken' = n
  <2>1. Taken' = Len(read') - 1
    BY <1>1 DEF Taken
  <2> QED BY <1>4, <2>1
<1>14. Place'
  <2>1. Closes'[n] = Closes[n]
    BY <1>4, <1>11
  <2>2. Point(Taken)' <=> Point(n)
    <3>1. n > 0 => read'[n] = read[n]
      BY <1>4
    <3> QED BY <1>13, <3>1 DEF Point, T
  <2>3. Closes'[Taken'] = Closes[n]
    BY <1>13, <2>1
  <2> QED BY <1>1, <1>12, <2>2, <2>3 DEF Place, Expecting, Pointless
<1>15. Asked'
  BY <1>1, <1>5 DEF Asked
<1>16. ~(Closes[n] /\ Point(n))
  <2>1. ASSUME Point(n) PROVE ~Closes[n]
    <3>1. n \in 1..n /\ T(n) = "."
      BY <1>4, <2>1 DEF Point
    <3>2. T(n) \notin Literal \cup {")", "]", "ID"} \cup Step1
      BY <3>1 DEF Literal, Step1
    <3> QED BY <3>1, <3>2, ClosesFacts DEF GInv
  <2> QED BY <2>1
<1>17. (parseId <=> ~Point(n)) /\ (parseId => (regexp <=> ~Closes[n]))
  BY <1>5, <1>12, <1>16 DEF Expecting, Pointless, Operand, Member, Top, GInv
<1>18. GoalsRight'
  <2> SUFFICES ASSUME NEW i \in 1..(n + 1)
               PROVE  /\ read'[i].parseId <=> ~(i > 1 /\ read'[i - 1].type = ".")
                      /\ read'[i].parseId => (read'[i].regexp <=> ~Closes'[i - 1])
    BY <1>4 DEF GoalsRight, T
  <2>1. CASE i \in 1..n
    <3>1. i - 1 \in 0..n /\ (i > 1 => i - 1 \in 1..n)
      BY <1>4, <2>1
    <3> QED BY <1>4, <1>11, <2>1, <3>1 DEF GInv, GoalsRight, T
  <2>2. CASE i = n + 1
    <3>1. i - 1 = n /\ n \in 0..n /\ (i > 1 <=> n > 0) /\ (n > 0 => n \in 1..n)
      BY <1>4, <2>2
    <3>2. Point(n) <=> i > 1 /\ read'[i - 1].type = "."
      BY <1>4, <3>1 DEF Point, T
    <3> QED BY <1>2, <1>4, <1>11, <1>17, <2>2, <3>1, <3>2
  <2> QED BY <1>4, <2>1, <2>2
<1>19. Calls(stack)' /\ (ahead => read # <<>>)'
  BY <1>1, <1>4 DEF GInv, Calls, Frame
<1> QED BY <1>7, <1>9, <1>10, <1>14, <1>15, <1>18, <1>19 DEF GInv

-----------------------------------------------------------------------------
(* The theorems                                                            *)

\* Before the first token.
LEMMA GInit == GrammarInit => GInv
<1> SUFFICES ASSUME GrammarInit PROVE GInv
  OBVIOUS
<1>1. /\ text \in Texts /\ ptr = 0 /\ state = "default" /\ lineBefore = FALSE /\ regexp = FALSE /\ parseId = TRUE
      /\ start = 0 /\ scan = FALSE /\ token = NoToken /\ halted = FALSE
      /\ stack = Call(16) /\ ret = NoNode /\ ahead = FALSE /\ read = <<>> /\ tree = NoNode
  BY DEF GrammarInit, LexInit
<1>2. (\E S : read \in Seq(S)) /\ Len(read) = 0
  BY <1>1, EmptySeq
<1>3. Typed
  <2>1. ptr \in Nat /\ start \in Nat /\ state \in State
    BY <1>1 DEF State
  <2>2. /\ lineBefore \in BOOLEAN /\ regexp \in BOOLEAN /\ parseId \in BOOLEAN
        /\ scan \in BOOLEAN /\ halted \in BOOLEAN /\ ahead \in BOOLEAN
    BY <1>1, Zenon
  <2>3. token # NoToken => Token(token)
    BY <1>1
  <2>4. \A i \in 1..Len(read) : Token(read[i]) /\ read[i].regexp \in BOOLEAN /\ read[i].parseId \in BOOLEAN
    BY <1>2
  <2> QED BY <1>2, <2>1, <2>2, <2>3, <2>4 DEF Typed
<1>4. Flag /\ LinesSeen /\ Asked /\ GoalsRight
  BY <1>1, <1>2 DEF Flag, LinesSeen, Asked, GoalsRight, Last
<1>5. Taken = 0 /\ ~Point(0) /\ ~Closes[0]
  <2>1. ~ahead /\ Closes[0] = FALSE
    BY <1>1, <1>3, ClosesFacts
  <2> QED BY <1>2, <2>1 DEF Taken, Point
<1>6. Calls(stack) /\ Len(stack) = 14 /\ stack[14] = Fresh(3) /\ (\A j \in 1..14 : stack[j].op # ".")
  <2>1. 16 \in 3..16 /\ 16 - 2 = 14
    OBVIOUS
  <2> QED BY <1>1, <2>1, CallFacts
<1>7. Expecting(stack, ret, Closes[0], Point(0))
  <2>1. stack # <<>> /\ Len(stack) = 14 /\ ret = NoNode
    <3>1. Len(<<>>) = 0
      OBVIOUS
    <3> QED BY <1>1, <1>6, <3>1
  <2>2. Fresh(3).level = 3 /\ Fresh(3).op # "."
    BY DEF Fresh, NoOp
  <2>3. Pointless(stack, 14 - 1) /\ stack[14].op # "." /\ stack[14].level = 3
    BY <1>6, <2>2 DEF Pointless
  <2> QED BY <1>5, <2>1, <2>3 DEF Expecting
<1> QED BY <1>1, <1>3, <1>4, <1>5, <1>6, <1>7 DEF GInv, Place

\* Every step keeps the invariant.
LEMMA GStep == GInv /\ [Next]_vars => GInv'
<1> SUFFICES ASSUME GInv, [Next]_vars PROVE GInv'
  OBVIOUS
<1>1. CASE LexStep /\ UNCHANGED gmrVars
  BY <1>1, LexStepKeeps
<1>2. CASE Ask
  BY <1>2, AskKeeps
<1>3. CASE Receive
  BY <1>3, ReceiveKeeps
<1>4. CASE Primary
  BY <1>4, PrimaryKeeps
<1>5. CASE Expected
  BY <1>5, ExpectedKeeps
<1>6. CASE MemberLoop
  BY <1>6, MemberLoopKeeps
<1>7. CASE Postfix
  BY <1>7, PostfixKeeps
<1>8. CASE Unary
  BY <1>8, UnaryKeeps
<1>9. CASE \E n \in Binary : BinaryLoop(n)
  BY <1>9, BinaryLoopKeeps
<1>10. CASE Cond
  BY <1>10, CondKeeps
<1>11. CASE AssignExpr
  BY <1>11, AssignExprKeeps
<1>12. CASE ExprStmt
  BY <1>12, ExprStmtKeeps
<1>13. CASE UNCHANGED vars
  <2>1. /\ UNCHANGED <<text, ptr, state, lineBefore, regexp, parseId, buffer, start, scan, token, halted>>
        /\ UNCHANGED <<stack, ret, ahead, read, tree>>
    BY <1>13 DEF vars, lexVars, gmrVars
  <2>2. Typed' /\ Flag' /\ LinesSeen'
    BY <2>1 DEF GInv, Typed, Flag, LinesSeen, T, Last, LineIn, Passed
  <2>3. Closes' = Closes
    BY <2>1 DEF Closes, T
  <2>4. GoalsRight' /\ Place'
    BY <2>1, <2>3 DEF GInv, GoalsRight, T, Place, Taken, Point
  <2>5. Asked' /\ Calls(stack)' /\ (ahead => read # <<>>)'
    BY <2>1 DEF GInv, Asked, Silent, Operand, Member, Top, Calls, Frame
  <2> QED BY <2>2, <2>4, <2>5 DEF GInv
<1> QED BY <1>1, <1>2, <1>3, <1>4, <1>5, <1>6, <1>7, <1>8, <1>9, <1>10, <1>11, <1>12, <1>13, Zenon DEF Next

\* The invariant holds: every function of the parser leaves the calls, the node
\* and the flags of the lexer agreeing with the last token (grammar.c), and
\* every state of the lexer the flag agreeing with the text (lex.c).
THEOREM GrammarCorrect == Spec => []GInv
BY GInit, GStep, PTL DEF Spec

\* A token is told to follow a new line exactly when a line ends before it or
\* the text does, for every text (lex_next, stateDefault, stateMultiLineComment).
THEOREM LinesSeenCorrect == Spec => []LinesSeen
<1>1. GInv => LinesSeen
  BY DEF GInv
<1> QED BY <1>1, GrammarCorrect, PTL

\* The flags regexp and parseId are right for every token of every text.
THEOREM GoalsRightCorrect == Spec => []GoalsRight
<1>1. GInv => GoalsRight
  BY DEF GInv
<1> QED BY <1>1, GrammarCorrect, PTL

-----------------------------------------------------------------------------
(* Objects: what is fixed, and what a put does *)

Attribute == {True, False}
Fields == {"value", "get", "set", "writable", "enumerable", "configurable"}

\* A property of an object is either data or an accessor, and complete.
Property(d) ==
  /\ DOMAIN d = Fields
  /\ d.enumerable \in Attribute /\ d.configurable \in Attribute
  /\ \/ d.get = None /\ d.writable \in Attribute
     \/ d.get # None /\ d.value = None /\ d.writable = None

\* What defineOwnProperty may be given
Descriptor(d) ==
  /\ DOMAIN d = Fields
  /\ {d.writable, d.enumerable, d.configurable} \subseteq Attribute \cup {None}
  /\ ~(IsAccessor(d) /\ IsData(d))

Heaped(h) ==
  /\ DOMAIN h = Objects
  /\ \A o \in Objects : \A p \in DOMAIN h[o] : Property(h[o][p])

Fixed(d) == d.writable = False /\ d.configurable = False

\* What Kept says of a step from h to g
KeptFrom(h, g) ==
  \A o \in Objects :
    /\ \A p \in DOMAIN h[o] :
         Fixed(h[o][p]) => p \in DOMAIN g[o] /\ Flags(g[o][p]) = Flags(h[o][p])
    /\ o \notin Extensible => DOMAIN g[o] \subseteq DOMAIN h[o]

\* NULL is no attribute, no undefined and no object.
LEMMA NoneIsNone ==
  None \notin Attribute /\ None # Undefined /\ True # False /\ None \notin Objects
<1>1. True.bool # False.bool
  BY DEF True, False, Boolean
<1> QED BY <1>1, HostAssumption DEF Attribute

\* The empty descriptor gives no field.
LEMMA NoDescFields ==
  /\ DOMAIN NoDesc = Fields
  /\ NoDesc.value = None /\ NoDesc.get = None /\ NoDesc.set = None
  /\ NoDesc.writable = None /\ NoDesc.enumerable = None /\ NoDesc.configurable = None
  BY DEF NoDesc, Fields

\* What desc.c's three tests say of a descriptor, by its fields.
LEMMA DescFields ==
  ASSUME NEW d, DOMAIN d = Fields
  PROVE  /\ d # Absent
         /\ IsAccessor(d) <=> d.get # None
         /\ IsData(d) <=> d.value # None \/ d.writable # None
         /\ IsGeneric(d) <=> d.get = None /\ d.value = None /\ d.writable = None
<1>1. DOMAIN Absent = {}
  BY DEF Absent
<1>2. d # Absent
  BY <1>1 DEF Fields
<1> QED BY <1>2 DEF IsAccessor, IsData, IsGeneric

\* An accessor has no writable.
LEMMA AccessorIsNotWritable ==
  ASSUME NEW d, Property(d), IsAccessor(d)
  PROVE  d # Absent /\ d.writable # True
  BY DescFields, NoneIsNone DEF Property, Attribute

\* A new property is complete.
LEMMA FilledIsProperty ==
  ASSUME NEW d, Descriptor(d)
  PROVE  Property(Filled(d)) /\ Filled(d).value = (IF d.value = None /\ d.get = None THEN Undefined ELSE d.value)
<1> DEFINE new == Filled(d)
<1>1. DOMAIN new = Fields
  BY DEF Filled, Descriptor
<1>2. /\ new.enumerable = (IF d.enumerable = None THEN False ELSE d.enumerable)
      /\ new.configurable = (IF d.configurable = None THEN False ELSE d.configurable)
  BY DEF Filled, Descriptor, Fields
<1>3. CASE IsGeneric(d) \/ IsData(d)
  <2>1. /\ new.value = (IF d.value = None THEN Undefined ELSE d.value)
        /\ new.writable = (IF d.writable = None THEN False ELSE d.writable)
        /\ new.get = d.get
    BY <1>3 DEF Filled, Descriptor, Fields
  <2> QED BY <1>1, <1>2, <1>3, <2>1, DescFields, NoneIsNone DEF Property, Attribute, Descriptor
<1>4. CASE ~(IsGeneric(d) \/ IsData(d))
  <2>1. /\ new.get = (IF d.get = None THEN Undefined ELSE d.get)
        /\ new.value = d.value /\ new.writable = d.writable
    BY <1>4 DEF Filled, Descriptor, Fields
  <2> QED BY <1>1, <1>2, <1>4, <2>1, DescFields, NoneIsNone DEF Property, Attribute, Descriptor
<1> QED BY <1>3, <1>4

\* A property that is updated has the fields that are given, and keeps the rest.
LEMMA UpdatedFields ==
  ASSUME NEW d, NEW cur, DOMAIN cur = Fields, DOMAIN d = Fields
  PROVE  /\ DOMAIN Updated(cur, d) = Fields
         /\ \A f \in Fields : Updated(cur, d)[f] = IF d[f] # None THEN d[f] ELSE cur[f]
  BY DEF Updated

\* Where defineOwnProperty does not assert, an update leaves a property complete:
\* data stays data and an accessor an accessor.
LEMMA UpdatedIsProperty ==
  ASSUME NEW d, NEW cur, Descriptor(d), Property(cur), ~Asserts(cur, d)
  PROVE  Property(Updated(cur, d))
<1> DEFINE new == Updated(cur, d)
<1>1. DOMAIN new = Fields
  BY UpdatedFields DEF Property, Descriptor
<1>2. /\ new.enumerable = IF d.enumerable # None THEN d.enumerable ELSE cur.enumerable
      /\ new.configurable = IF d.configurable # None THEN d.configurable ELSE cur.configurable
      /\ new.writable = IF d.writable # None THEN d.writable ELSE cur.writable
      /\ new.value = IF d.value # None THEN d.value ELSE cur.value
      /\ new.get = IF d.get # None THEN d.get ELSE cur.get
  BY UpdatedFields DEF Property, Descriptor, Fields
<1>3. IsGeneric(d) \/ d = NoDesc \/ IsData(cur) = IsData(d)
  BY DescFields DEF Asserts, Property
<1> HIDE DEF new
<1>4. d = NoDesc => IsGeneric(d)
  BY NoDescFields, DescFields
<1>5. /\ new.enumerable \in Attribute /\ new.configurable \in Attribute
  BY <1>2 DEF Property, Descriptor
<1>6. Property(new)
  BY <1>1, <1>2, <1>3, <1>4, <1>5, DescFields, NoneIsNone DEF Property, Descriptor
<1> QED BY <1>6 DEF new

-----------------------------------------------------------------------------
(* The three methods that write *)

\* getOwnProperty finds what is there, complete, and nothing else.
LEMMA Owns ==
  ASSUME NEW h, Heaped(h), NEW o \in Objects, NEW p
  PROVE  /\ p \in DOMAIN h[o] => GetOwn(h, o, p) = h[o][p] /\ Property(GetOwn(h, o, p))
         /\ p \notin DOMAIN h[o] => GetOwn(h, o, p) = Absent
         /\ p \in DOMAIN h[o] <=> GetOwn(h, o, p) # Absent
<1>1. p \in DOMAIN h[o] => Property(h[o][p])
  BY DEF Heaped
<1> QED BY <1>1, DescFields DEF GetOwn, Property

\* The heap h with one property given, or given anew
GivenTo(h, o, p, d) == [h EXCEPT ![o] = WithProperty(@, p, d)]

\* Its properties are complete, and only that one differs.
LEMMA WithPropertyHeap ==
  ASSUME NEW h, Heaped(h), NEW o \in Objects, NEW p, NEW d, Property(d),
         NEW g, g = GivenTo(h, o, p, d)
  PROVE  /\ Heaped(g)
         /\ DOMAIN g[o] = DOMAIN h[o] \cup {p} /\ g[o][p] = d
         /\ \A q \in DOMAIN h[o] \ {p} : g[o][q] = h[o][q]
         /\ \A x \in Objects \ {o} : g[x] = h[x]
<1>1. DOMAIN h = Objects
  BY DEF Heaped
<1>2. DOMAIN g = Objects /\ g[o] = WithProperty(h[o], p, d) /\ \A x \in Objects \ {o} : g[x] = h[x]
  BY <1>1 DEF GivenTo
<1>3. /\ DOMAIN g[o] = DOMAIN h[o] \cup {p} /\ g[o][p] = d
      /\ \A q \in DOMAIN h[o] \ {p} : g[o][q] = h[o][q]
  BY <1>2 DEF WithProperty
<1>4. ASSUME NEW x \in Objects, NEW q \in DOMAIN g[x]
      PROVE  Property(g[x][q])
  BY <1>2, <1>3 DEF Heaped
<1> QED BY <1>2, <1>3, <1>4 DEF Heaped

\* defineOwnProperty leaves what is fixed as it is, whatever the descriptor: what it
\* neither refuses nor asserts on gives a fixed property nothing but what it has.
LEMMA DefineOwnKeeps ==
  ASSUME NEW h, Heaped(h), NEW o \in Objects, NEW p, NEW d, Descriptor(d), NEW throw
  PROVE  LET g == DefineOwn(h, o, p, d, throw).heap
         IN  Heaped(g) /\ KeptFrom(h, g)
<1> DEFINE cur == GetOwn(h, o, p)
           new == IF cur = Absent THEN Filled(d) ELSE Updated(cur, d)
           g == DefineOwn(h, o, p, d, throw).heap
<1>1. CASE g = h
  BY <1>1 DEF KeptFrom
<1>2. CASE g # h
  <2>1. /\ ~Rejects(o, cur, d) /\ ~Asserts(cur, d)
        /\ g = [h EXCEPT ![o] = WithProperty(@, p, new)]
    BY <1>2 DEF DefineOwn, Stop, Done
  <2> HIDE DEF g
  <2>2. cur # Absent => Property(cur) /\ p \in DOMAIN h[o] /\ cur = h[o][p]
    BY Owns
  <2>3. Property(new)
    BY <2>1, <2>2, FilledIsProperty, UpdatedIsProperty
  <2>4. /\ Heaped(g)
        /\ DOMAIN g[o] = DOMAIN h[o] \cup {p} /\ g[o][p] = new
        /\ \A q \in DOMAIN h[o] \ {p} : g[o][q] = h[o][q]
        /\ \A x \in Objects \ {o} : g[x] = h[x]
    <3>1. g = GivenTo(h, o, p, new)
      BY <2>1 DEF GivenTo
    <3> QED BY <2>3, <3>1, WithPropertyHeap
  <2>5. ASSUME p \in DOMAIN h[o], Fixed(h[o][p])
        PROVE  Flags(new) = Flags(h[o][p])
    <3>1. cur # Absent /\ cur = h[o][p] /\ new = Updated(cur, d)
      BY <2>5, Owns
    <3> HIDE DEF new, cur
    <3>2. DOMAIN cur = Fields /\ DOMAIN d = Fields
      BY <3>1, <2>2 DEF Property, Descriptor
    <3>3. /\ new.value = IF d.value # None THEN d.value ELSE cur.value
          /\ new.writable = IF d.writable # None THEN d.writable ELSE cur.writable
          /\ new.enumerable = IF d.enumerable # None THEN d.enumerable ELSE cur.enumerable
          /\ new.configurable = IF d.configurable # None THEN d.configurable ELSE cur.configurable
      BY <3>1, <3>2, UpdatedFields DEF Fields
    <3>4. CASE d = NoDesc
      BY <3>1, <3>3, <3>4, NoDescFields DEF Flags
    <3>5. CASE d # NoDesc
      <4>1. cur.writable # True /\ cur.configurable # True /\ cur.configurable = False
        BY <2>5, <3>1, NoneIsNone DEF Fixed
      <4>2. IsGeneric(d)
        BY <2>1, <3>1, <3>5, <4>1 DEF Asserts
      <4>3. d.configurable # True /\ d.enumerable = cur.enumerable
        BY <2>1, <3>1, <3>5, <4>1 DEF Rejects
      <4>4. d.configurable = None \/ d.configurable = False
        BY <4>3 DEF Descriptor, Attribute
      <4>5. d.value = None /\ d.writable = None
        BY <4>2, <3>2, DescFields
      <4> QED BY <3>1, <3>3, <4>1, <4>3, <4>4, <4>5 DEF Flags
    <3> QED BY <3>4, <3>5
  <2>6. o \notin Extensible => p \in DOMAIN h[o]
    BY <2>1, <2>2 DEF Rejects
  <2>7. KeptFrom(h, g)
    BY <2>4, <2>5, <2>6 DEF KeptFrom
  <2> QED BY <2>4, <2>7 DEF g
<1> QED BY <1>1, <1>2

\* put's own descriptors are such as defineOwnProperty may be given.
LEMMA PutDescs ==
  ASSUME NEW v
  PROVE  Descriptor(ValueDesc(v)) /\ Descriptor(FullDesc(v))
<1>1. /\ DOMAIN ValueDesc(v) = Fields /\ ValueDesc(v).value = v /\ ValueDesc(v).get = None
      /\ ValueDesc(v).writable = None /\ ValueDesc(v).enumerable = None
      /\ ValueDesc(v).configurable = None
  BY DEF ValueDesc, NoDesc, Fields
<1>2. /\ DOMAIN FullDesc(v) = Fields /\ FullDesc(v).value = v /\ FullDesc(v).get = None
      /\ FullDesc(v).writable = True /\ FullDesc(v).enumerable = True
      /\ FullDesc(v).configurable = True
  BY DEF FullDesc, NoDesc, Fields
<1> QED BY <1>1, <1>2, DescFields DEF Descriptor, Attribute

\* put leaves what is fixed as it is.
LEMMA PutKeeps ==
  ASSUME NEW h, Heaped(h), NEW o \in Objects, NEW p, NEW v, NEW throw
  PROVE  LET g == Put(h, o, p, v, throw).heap
         IN  Heaped(g) /\ KeptFrom(h, g)
<1> DEFINE g == Put(h, o, p, v, throw).heap
<1>1. \/ g = h
      \/ g = DefineOwn(h, o, p, ValueDesc(v), throw).heap
      \/ g = DefineOwn(h, o, p, FullDesc(v), throw).heap
  BY DEF Put, Stop, Done
<1>2. CASE g = h
  BY <1>2 DEF KeptFrom
<1> QED BY <1>1, <1>2, DefineOwnKeeps, PutDescs

\* delete leaves what is fixed as it is.
LEMMA DeleteKeeps ==
  ASSUME NEW h, Heaped(h), NEW o \in Objects, NEW p, NEW throw
  PROVE  LET g == Delete(h, o, p, throw).heap
         IN  Heaped(g) /\ KeptFrom(h, g)
<1> DEFINE g == Delete(h, o, p, throw).heap
           own == GetOwn(h, o, p)
<1>1. CASE g = h
  BY <1>1 DEF KeptFrom
<1>2. CASE g # h
  <2>1. own # Absent /\ own.configurable = True
        /\ g = [h EXCEPT ![o] = Restrict(@, DOMAIN @ \ {p})]
    BY <1>2 DEF Delete, Stop, Done
  <2> HIDE DEF g
  <2>2. p \in DOMAIN h[o] /\ own = h[o][p] /\ DOMAIN h = Objects
    BY <2>1, Owns DEF Heaped
  <2>3. DOMAIN g = Objects /\ g[o] = Restrict(h[o], DOMAIN h[o] \ {p}) /\ \A x \in Objects \ {o} : g[x] = h[x]
    BY <2>1, <2>2
  <2>4. DOMAIN g[o] = DOMAIN h[o] \ {p} /\ \A q \in DOMAIN g[o] : g[o][q] = h[o][q]
    BY <2>3 DEF Restrict
  <2>5. ~Fixed(h[o][p])
    BY <2>1, <2>2, NoneIsNone DEF Fixed
  <2>6. Heaped(g)
    <3>1. ASSUME NEW x \in Objects, NEW q \in DOMAIN g[x] PROVE Property(g[x][q])
      BY <2>3, <2>4 DEF Heaped
    <3> QED BY <2>3, <3>1 DEF Heaped
  <2>7. KeptFrom(h, g)
    BY <2>3, <2>4, <2>5 DEF KeptFrom
  <2> QED BY <2>6, <2>7 DEF g
<1> QED BY <1>1, <1>2

-----------------------------------------------------------------------------
(* The steps *)

\* A program writes to the heap by js_putValue only, so that what evaluating a
\* statement does to it is a series of puts, at whatever values and names.
Writes(h, g) == \E o \in Objects : \E p, v : g = Put(h, o, p, v, FALSE).heap

Puts(h, g) ==
  \E n \in Nat : \E s : s[0] = h /\ s[n] = g /\ \A k \in 1..n : Writes(s[k - 1], s[k])

Evaluate == ~stopped /\ Puts(heap, heap') /\ stopped' \in BOOLEAN

ProgramSpec == HostInit /\ [][HeapNext \/ Evaluate]_heapVars

\* What is kept from heap to heap is kept over two of them.
LEMMA KeptOn ==
  ASSUME NEW f, NEW g, NEW h, KeptFrom(f, g), KeptFrom(g, h)
  PROVE  KeptFrom(f, h)
<1> SUFFICES ASSUME NEW o \in Objects
             PROVE  /\ \A p \in DOMAIN f[o] :
                         Fixed(f[o][p]) => p \in DOMAIN h[o] /\ Flags(h[o][p]) = Flags(f[o][p])
                    /\ o \notin Extensible => DOMAIN h[o] \subseteq DOMAIN f[o]
  BY DEF KeptFrom
<1>1. ASSUME NEW p \in DOMAIN f[o], Fixed(f[o][p])
      PROVE  p \in DOMAIN h[o] /\ Flags(h[o][p]) = Flags(f[o][p])
  <2>1. p \in DOMAIN g[o] /\ Flags(g[o][p]) = Flags(f[o][p])
    BY <1>1 DEF KeptFrom
  <2>2. Fixed(g[o][p])
    BY <1>1, <2>1 DEF Flags, Fixed
  <2>3. p \in DOMAIN h[o] /\ Flags(h[o][p]) = Flags(g[o][p])
    BY <2>1, <2>2 DEF KeptFrom
  <2> QED BY <2>1, <2>3
<1>2. o \notin Extensible => DOMAIN h[o] \subseteq DOMAIN f[o]
  BY DEF KeptFrom
<1> QED BY <1>1, <1>2

\* A series of puts of any length leaves what is fixed as it is.
LEMMA PutsKeep ==
  ASSUME NEW h, NEW g, Heaped(h), Puts(h, g)
  PROVE  Heaped(g) /\ KeptFrom(h, g)
<1>1. PICK n \in Nat : \E s : s[0] = h /\ s[n] = g /\ \A k \in 1..n : Writes(s[k - 1], s[k])
  BY DEF Puts
<1>2. PICK s : s[0] = h /\ s[n] = g /\ \A k \in 1..n : Writes(s[k - 1], s[k])
  BY <1>1
<1> DEFINE S == {k \in Nat : k <= n => Heaped(s[k]) /\ KeptFrom(h, s[k])}
<1>3. 0 \in S
  BY <1>2 DEF KeptFrom
<1>4. ASSUME NEW k \in S PROVE k + 1 \in S
  <2>1. SUFFICES ASSUME k + 1 <= n PROVE Heaped(s[k + 1]) /\ KeptFrom(h, s[k + 1])
    OBVIOUS
  <2>2. Heaped(s[k]) /\ KeptFrom(h, s[k])
    BY <2>1
  <2>3. PICK j \in 1..n : j = k + 1 /\ j - 1 = k
    BY <2>1
  <2>4. Writes(s[j - 1], s[j])
    BY <1>2
  <2>5. PICK o \in Objects : \E p, v : s[k + 1] = Put(s[k], o, p, v, FALSE).heap
    BY <2>3, <2>4 DEF Writes
  <2>6. Heaped(s[k + 1]) /\ KeptFrom(s[k], s[k + 1])
    BY <2>2, <2>5, PutKeeps
  <2> QED BY <2>2, <2>6, KeptOn
<1>5. S = Nat
  <2> HIDE DEF S
  <2>1. S \subseteq Nat
    BY DEF S
  <2> QED BY <1>3, <1>4, <2>1, SetInduction
<1> QED BY <1>2, <1>5

\* The global object's properties are complete.
LEMMA InitHeaped ==
  ASSUME HostInit PROVE Heaped(heap)
<1>1. \A v : Property(ReadonlyDesc(v))
  BY DEF Property, ReadonlyDesc, NoDesc, Fields, Attribute
<1>2. \A p \in DOMAIN Global : Property(Global[p])
  <2>1. ASSUME NEW p \in DOMAIN Global PROVE \E v : Global[p] = ReadonlyDesc(v)
    BY Zenon DEF Global
  <2> QED BY <1>1, <2>1
<1>3. DOMAIN heap = Objects /\ \A o \in Objects : heap[o] = Global \/ heap[o] = <<>>
  BY DEF HostInit
<1>4. DOMAIN <<>> = {}
  OBVIOUS
<1>5. ASSUME NEW o \in Objects, NEW p \in DOMAIN heap[o] PROVE Property(heap[o][p])
  BY <1>2, <1>3, <1>4
<1> QED BY <1>3, <1>5 DEF Heaped

\* Every step leaves what is fixed as it is, a call of C code or a statement.
LEMMA NextKeeps ==
  ASSUME Heaped(heap), HeapNext \/ Evaluate
  PROVE  Heaped(heap') /\ KeptFrom(heap, heap')
<1>1. ASSUME NEW o \in Objects, NEW p \in Names, NEW throw \in BOOLEAN, NEW d \in Descs,
             Define(o, p, d, throw)
      PROVE  Heaped(heap') /\ KeptFrom(heap, heap')
  <2>1. Descriptor(d)
    BY HostAssumption, NoDescFields DEF Descriptor, Attribute
  <2> QED BY <1>1, <2>1, DefineOwnKeeps DEF Define, Apply
<1>2. ASSUME NEW o \in Objects, NEW p \in Names, NEW throw \in BOOLEAN, NEW v \in Literals,
             PutCall(o, p, v, throw)
      PROVE  Heaped(heap') /\ KeptFrom(heap, heap')
  BY <1>2, PutKeeps DEF PutCall, Apply
<1>3. ASSUME NEW o \in Objects, NEW p \in Names, NEW throw \in BOOLEAN, DeleteCall(o, p, throw)
      PROVE  Heaped(heap') /\ KeptFrom(heap, heap')
  BY <1>3, DeleteKeeps DEF DeleteCall, Apply
<1>4. CASE Evaluate
  BY <1>4, PutsKeep DEF Evaluate
<1> QED BY <1>1, <1>2, <1>3, <1>4 DEF HeapNext

\* Properties are complete at every time.
LEMMA HeapedAlways == ProgramSpec => []Heaped(heap)
<1>1. HostInit => Heaped(heap)
  BY InitHeaped
<1>2. Heaped(heap) /\ [HeapNext \/ Evaluate]_heapVars => Heaped(heap)'
  <2>1. Heaped(heap) /\ UNCHANGED heapVars => Heaped(heap)'
    BY DEF heapVars, Heaped, Property
  <2>2. Heaped(heap) /\ (HeapNext \/ Evaluate) => Heaped(heap)'
    <3>1. SUFFICES ASSUME Heaped(heap), HeapNext \/ Evaluate PROVE Heaped(heap')
      BY DEF Heaped, Property
    <3> QED BY <3>1, NextKeeps
  <2> QED BY <2>1, <2>2
<1> QED BY <1>1, <1>2, PTL DEF ProgramSpec

\* Kept, of every chain of objects, all descriptors that C code may pass, and all
\* programs: a property that can be neither written nor configured stays as it is,
\* and an object that cannot be extended gets no property, over definitions, puts,
\* deletions and the evaluation of statements (object.c).
THEOREM KeptCorrect == ProgramSpec => Kept
<1>1. Heaped(heap) /\ [HeapNext \/ Evaluate]_heapVars => [FixedStay]_heapVars
  <2>1. SUFFICES ASSUME Heaped(heap), HeapNext \/ Evaluate PROVE FixedStay
    OBVIOUS
  <2>2. KeptFrom(heap, heap')
    BY <2>1, NextKeeps
  <2> QED BY <2>2 DEF KeptFrom, Fixed, FixedStay
<1> QED BY <1>1, HeapedAlways, PTL DEF ProgramSpec, Kept

\* The same of the calls of C code alone.
COROLLARY CallsKept == HeapSpec => Kept
<1>1. [HeapNext]_heapVars => [HeapNext \/ Evaluate]_heapVars
  OBVIOUS
<1> QED BY <1>1, KeptCorrect, PTL DEF HeapSpec, ProgramSpec

-----------------------------------------------------------------------------
(* What a put does *)

\* A property that is found is complete, wherever it was found.
LEMMA Found ==
  ASSUME NEW h, Heaped(h), NEW o \in Objects, NEW p
  PROVE  LET d == GetProperty(h, o, p)
         IN  /\ d # Absent => Property(d)
             /\ GetOwn(h, o, p) # Absent => d = GetOwn(h, o, p)
             /\ GetOwn(h, o, p) = Absent =>
                  d = IF Prototype[o] = None THEN Absent ELSE GetOwn(h, Prototype[o], p)
<1>1. Prototype[o] # None => Prototype[o] \in Objects
  BY HostAssumption
<1> QED BY <1>1, Owns DEF GetProperty

\* What canPut refuses has a reason.
LEMMA RefusedForReason ==
  ASSUME Heaped(heap), NEW o \in Objects, NEW p, ~CanPut(heap, o, p)
  PROVE  Refusable(o, p)
<1> DEFINE own == GetOwn(heap, o, p)
           up == Prototype[o]
           inherited == IF up = None THEN Absent ELSE GetProperty(heap, up, p)
<1>1. up # None => up \in Objects
  BY HostAssumption
<1>2. CASE own # Absent
  <2>1. Property(own)
    BY <1>2, Owns
  <2>2. own.writable # True
    <3>1. CASE IsAccessor(own)
      BY <2>1, <3>1, AccessorIsNotWritable
    <3>2. CASE ~IsAccessor(own)
      BY <1>2, <3>2 DEF CanPut
    <3> QED BY <3>1, <3>2
  <2> QED BY <1>2, <2>2 DEF Refusable
<1>3. CASE own = Absent
  <2>1. CASE o \notin Extensible
    BY <1>3, <2>1 DEF Refusable
  <2>2. CASE o \in Extensible
    <3>1. inherited # Absent /\ inherited.writable # True
      <4> HIDE DEF own
      <4>1. CASE IsAccessor(inherited)
        <5>1. inherited # Absent /\ up # None
          BY <4>1 DEF IsAccessor
        <5>2. Property(inherited)
          BY <1>1, <5>1, Found
        <5> QED BY <4>1, <5>2, AccessorIsNotWritable, Zenon
      <4>2. CASE ~IsAccessor(inherited)
        BY <1>3, <2>2, <4>2 DEF CanPut, own
      <4> QED BY <4>1, <4>2
    <3> QED BY <1>3, <3>1 DEF Refusable
  <2> QED BY <2>1, <2>2
<1> QED BY <1>2, <1>3

\* A definition that succeeds is what its name says, and nothing else.
LEMMA Defines ==
  ASSUME NEW h, Heaped(h), NEW o \in Objects, NEW p, NEW d, Descriptor(d), d.value # None,
         NEW throw, NEW g, g = DefineOwn(h, o, p, d, throw).heap,
         ~Rejects(o, GetOwn(h, o, p), d), ~DefineOwn(h, o, p, d, throw).halted
  PROVE  /\ p \in DOMAIN g[o] /\ g[o][p].value = d.value
         /\ \A x \in Objects :
              \A q \in (DOMAIN h[x] \cup DOMAIN g[x]) \ (IF x = o THEN {p} ELSE {}) :
                GetOwn(g, x, q) = GetOwn(h, x, q)
<1> DEFINE cur == GetOwn(h, o, p)
           new == IF cur = Absent THEN Filled(d) ELSE Updated(cur, d)
<1>1. ~Asserts(cur, d) /\ g = GivenTo(h, o, p, new)
  BY DEF DefineOwn, Stop, Done, GivenTo
<1>2. Property(new) /\ new.value = d.value
  <2>1. CASE cur = Absent
    BY <2>1, FilledIsProperty
  <2>2. CASE cur # Absent
    <3>1. Property(cur)
      BY <2>2, Owns
    <3>2. Updated(cur, d).value = d.value
      BY <3>1, UpdatedFields DEF Property, Descriptor, Fields
    <3> QED BY <1>1, <2>2, <3>1, <3>2, UpdatedIsProperty
  <2> QED BY <2>1, <2>2
<1> HIDE DEF new, cur
<1>3. /\ DOMAIN g[o] = DOMAIN h[o] \cup {p} /\ g[o][p] = new
      /\ \A q \in DOMAIN h[o] \ {p} : g[o][q] = h[o][q]
      /\ \A x \in Objects \ {o} : g[x] = h[x]
  BY <1>1, <1>2, WithPropertyHeap
<1> QED BY <1>2, <1>3 DEF GetOwn

\* A put that returns has written its value and nothing else, or had a reason.
LEMMA PutTakesNow ==
  ASSUME Heaped(heap), NEW o \in Objects, NEW p \in Names, NEW v \in Literals, NEW throw \in BOOLEAN,
         PutCall(o, p, v, throw), ~stopped'
  PROVE  \/ heap' = heap /\ Refusable(o, p)
         \/ /\ p \in DOMAIN heap'[o] /\ heap'[o][p].value = v
            /\ \A x \in Objects :
                 \A q \in (DOMAIN heap[x] \cup DOMAIN heap'[x]) \ (IF x = o THEN {p} ELSE {}) :
                   GetOwn(heap', x, q) = GetOwn(heap, x, q)
<1> DEFINE own == GetOwn(heap, o, p)
           r == Put(heap, o, p, v, throw)
<1>1. heap' = r.heap /\ ~r.halted
  BY DEF PutCall, Apply
<1>2. CASE ~CanPut(heap, o, p)
  <2>1. heap' = heap
    BY <1>1, <1>2 DEF Put, Stop, Done
  <2> QED BY <1>2, <2>1, RefusedForReason
<1>3. CASE CanPut(heap, o, p)
  <2>1. PICK d \in {ValueDesc(v), FullDesc(v)} : r = DefineOwn(heap, o, p, d, throw)
    <3>1. r.halted \/ r = DefineOwn(heap, o, p, ValueDesc(v), throw)
                   \/ r = DefineOwn(heap, o, p, FullDesc(v), throw)
      BY <1>3 DEF Put, Stop
    <3> HIDE DEF r
    <3> QED BY <1>1, <3>1
  <2> HIDE DEF r
  <2>2. Descriptor(d) /\ d.value = v
    <3>1. ValueDesc(v).value = v /\ FullDesc(v).value = v
      BY DEF ValueDesc, FullDesc, NoDesc
    <3> QED BY <3>1, PutDescs
  <2>3. v # None
    BY HostAssumption
  <2>4. CASE Rejects(o, own, d)
    <3>1. heap' = heap
      BY <1>1, <2>1, <2>4 DEF DefineOwn, Stop, Done
    <3>2. CASE own = Absent
      <4>1. o \notin Extensible
        BY <2>4, <3>2 DEF Rejects
      <4> QED BY <3>1, <3>2, <4>1 DEF Refusable
    <3>3. CASE own # Absent
      <4>1. own.configurable # True
        BY <2>4, <3>3 DEF Rejects
      <4> QED BY <3>1, <3>3, <4>1 DEF Refusable
    <3> QED BY <3>1, <3>2, <3>3
  <2>5. CASE ~Rejects(o, own, d)
    BY <1>1, <2>1, <2>2, <2>3, <2>5, Defines
  <2> QED BY <2>4, <2>5
<1> QED BY <1>2, <1>3

\* PutTakes, of every chain of objects: a put that returns has written its value
\* into the object itself and nothing else, or nothing, and then its own property,
\* or where it has none the object or what it inherits, was a reason (put, canPut,
\* defineOwnProperty).
THEOREM PutTakesCorrect == ProgramSpec => PutTakes
<1>1. Heaped(heap) /\ [HeapNext \/ Evaluate]_heapVars => [PutsTake]_heapVars
  BY PutTakesNow DEF PutsTake
<1> QED BY <1>1, HeapedAlways, PTL DEF ProgramSpec, PutTakes

-----------------------------------------------------------------------------
(* Comparisons *)

Numbers == Int \cup {NaN, Inf, NegInf}
Strings == Seq(Nat)

\* The values that comparisons can be asked of
Values == {Undefined, Null, True, False} \cup {Number(n) : n \in Numbers}
            \cup {String(s) : s \in Strings} \cup {Object(o) : o \in Objects}

\* A Boolean is one of the two, by its truth.
LEMMA Booleans ==
  ASSUME NEW b \in BOOLEAN
  PROVE  /\ Boolean(b) = True <=> b
         /\ Boolean(b) = False <=> ~b
         /\ Boolean(b) # None /\ Boolean(b) # Undefined
<1>1. b = TRUE \/ b = FALSE
  OBVIOUS
<1>2. True # Undefined /\ False # Undefined
  BY DEF True, False, Boolean, Undefined
<1> QED BY <1>1, <1>2, NoneIsNone DEF True, False, Attribute

\* Of two numbers that are not NaN one is less, or they are the same.
LEMMA OneIsLess ==
  ASSUME NEW a \in Numbers \ {NaN}, NEW b \in Numbers \ {NaN}
  PROVE  /\ Less(a, b) \in BOOLEAN
         /\ ~(Less(a, b) /\ Less(b, a))
         /\ a = b <=> ~Less(a, b) /\ ~Less(b, a)
<1>1. Inf # NegInf /\ Inf \notin Int /\ NegInf \notin Int
  BY NumberAssumption DEF Infinite
<1>2. /\ a \in Int \/ a = Inf \/ a = NegInf
      /\ b \in Int \/ b = Inf \/ b = NegInf
  BY DEF Numbers
<1>3. CASE a = b
  BY <1>3 DEF Less
<1>4. CASE a # b /\ a \in Int /\ b \in Int
  <2>1. (Less(a, b) <=> a < b) /\ (Less(b, a) <=> b < a)
    BY <1>1, <1>4 DEF Less
  <2>2. Less(a, b) \in BOOLEAN
    BY <1>1, <1>4 DEF Less
  <2> QED BY <1>4, <2>1, <2>2
<1>5. CASE a # b /\ (a \notin Int \/ b \notin Int)
  BY <1>1, <1>2, <1>5 DEF Less
<1> QED BY <1>3, <1>4, <1>5

\* Of two strings one is before the other, or they are the same.
LEMMA OneIsBefore ==
  ASSUME NEW s \in Strings, NEW t \in Strings
  PROVE  /\ Before(s, t) \in BOOLEAN
         /\ ~(Before(s, t) /\ Before(t, s))
         /\ s = t <=> ~Before(s, t) /\ ~Before(t, s)
<1>1. Before(s, t) \in BOOLEAN
  BY DEF Before
<1>2. ASSUME Before(s, t), Before(t, s) PROVE FALSE
  <2>1. PICK k \in 1..Len(t) :
          /\ Len(s) >= k - 1 /\ \A i \in 1..(k - 1) : s[i] = t[i]
          /\ Len(s) = k - 1 \/ s[k] < t[k]
    BY <1>2 DEF Before
  <2>2. PICK j \in 1..Len(s) :
          /\ Len(t) >= j - 1 /\ \A i \in 1..(j - 1) : t[i] = s[i]
          /\ Len(t) = j - 1 \/ t[j] < s[j]
    BY <1>2 DEF Before
  <2>3. Len(s) \in Nat /\ Len(t) \in Nat
    BY DEF Strings
  <2>8. \A i \in 1..Len(s) : s[i] \in Nat
    BY ElementOfSeq DEF Strings
  <2>4. \A i \in 1..Len(t) : t[i] \in Nat
    BY DEF Strings
  <2>5. CASE k < j
    <3>1. k \in 1..(j - 1) /\ k \in 1..Len(s)
      BY <2>3, <2>5
    <3>2. t[k] = s[k] /\ s[k] < t[k] /\ s[k] \in Nat
      BY <2>1, <2>2, <2>8, <3>1
    <3> QED BY <3>2
  <2>6. CASE j < k
    <3>1. j \in 1..(k - 1) /\ j \in 1..Len(t)
      BY <2>3, <2>6
    <3>2. s[j] = t[j] /\ t[j] < s[j] /\ s[j] \in Nat
      BY <2>1, <2>2, <2>8, <3>1
    <3> QED BY <3>2
  <2>7. CASE j = k
    <3>1. s[k] < t[k] /\ t[k] < s[k] /\ s[k] \in Nat /\ t[k] \in Nat
      BY <2>1, <2>2, <2>4, <2>8, <2>7
    <3> QED BY <3>1
  <2> QED BY <2>5, <2>6, <2>7
<1>3. ASSUME s # t PROVE Before(s, t) \/ Before(t, s)
  <2> DEFINE D == {k \in Nat : k >= 1 /\ (k > Len(s) \/ k > Len(t) \/ s[k] # t[k])}
  <2>1. Len(s) \in Nat /\ Len(t) \in Nat /\ Len(s) + 1 \in D
    BY DEF Strings
  <2>2. PICK m \in D : \A n \in D : m <= n
    <3> HIDE DEF D
    <3>1. D \subseteq Nat
      BY DEF D
    <3> QED BY <2>1, <3>1, LeastNat
  <2>3. \A i \in 1..(m - 1) : i <= Len(s) /\ i <= Len(t) /\ s[i] = t[i]
    <3>1. SUFFICES ASSUME NEW i \in 1..(m - 1) PROVE i \notin D
      BY <2>1
    <3> QED BY <2>2
  <2>4. Len(s) >= m - 1 /\ Len(t) >= m - 1
    <3>1. m = 1 \/ m - 1 \in 1..(m - 1)
      OBVIOUS
    <3> QED BY <2>1, <2>3, <3>1
  <2>5. CASE m > Len(s) /\ m > Len(t)
    <3>1. Len(s) = m - 1 /\ Len(t) = m - 1
      BY <2>1, <2>4, <2>5
    <3>2. s = t
      BY <2>3, <3>1 DEF Strings
    <3> QED BY <1>3, <3>2
  <2>6. CASE m > Len(s) /\ m <= Len(t)
    <3>1. Len(s) = m - 1 /\ m \in 1..Len(t)
      BY <2>1, <2>4, <2>6
    <3> QED BY <2>3, <2>4, <3>1 DEF Before
  <2>7. CASE m <= Len(s) /\ m > Len(t)
    <3>1. Len(t) = m - 1 /\ m \in 1..Len(s)
      BY <2>1, <2>4, <2>7
    <3> QED BY <2>3, <2>4, <3>1 DEF Before
  <2>8. CASE m <= Len(s) /\ m <= Len(t)
    <3>1. m \in 1..Len(s) /\ m \in 1..Len(t) /\ s[m] # t[m]
      BY <2>8
    <3>2. s[m] \in Nat
      BY <3>1 DEF Strings
    <3>4. t[m] \in Nat
      BY <3>1 DEF Strings
    <3>3. s[m] < t[m] \/ t[m] < s[m]
      BY <3>1, <3>2, <3>4
    <3> QED BY <2>3, <2>4, <3>1, <3>3 DEF Before
  <2> QED BY <2>1, <2>5, <2>6, <2>7, <2>8
<1>4. s = t => ~Before(s, t) /\ ~Before(t, s)
  BY <1>2
<1> QED BY <1>1, <1>2, <1>3, <1>4

Types == {"undefined", "null", "boolean", "number", "string", "object"}

\* A value is of one type, and is made of what it holds.
LEMMA ValueIs ==
  ASSUME NEW x \in Values
  PROVE  /\ x.type \in Types
         /\ x.type = "undefined" => x = Undefined
         /\ x.type = "null" => x = Null
         /\ x.type = "boolean" => x = Boolean(x.bool) /\ x.bool \in BOOLEAN
         /\ x.type = "number" => x = Number(x.num) /\ x.num \in Numbers
         /\ x.type = "string" => x = String(x.str) /\ x.str \in Strings
<1>1. \A n : Number(n).type = "number" /\ Number(n).num = n
  BY DEF Number
<1>2. \A t : String(t).type = "string" /\ String(t).str = t
  BY DEF String
<1>3. \A o : Object(o).type = "object"
  BY DEF Object
<1>4. \A b \in BOOLEAN : Boolean(b).type = "boolean" /\ Boolean(b).bool = b
  BY DEF Boolean
<1>5. Undefined.type = "undefined" /\ Null.type = "null"
  BY DEF Undefined, Null
<1>6. CASE x \in {Undefined, Null}
  BY <1>5, <1>6 DEF Types
<1>7. CASE x \in {True, False}
  BY <1>4, <1>7 DEF Types, True, False
<1>8. CASE \E n \in Numbers : x = Number(n)
  BY <1>1, <1>8 DEF Types
<1>9. CASE \E t \in Strings : x = String(t)
  BY <1>2, <1>9 DEF Types
<1>10. CASE \E o \in Objects : x = Object(o)
  BY <1>3, <1>10 DEF Types
<1> QED BY <1>6, <1>7, <1>8, <1>9, <1>10 DEF Values

\* js_toNumber asserts for strings and objects.
LEMMA ToNumberIs ==
  ASSUME NEW x \in Values
  PROVE  /\ None \notin Numbers
         /\ x.type \in {"string", "object"} => ToNumber(x) = None
         /\ x.type \notin {"string", "object"} => ToNumber(x) \in Numbers
<1>1. None \notin Numbers
  BY NumberAssumption DEF Numbers, Infinite
<1>2. x.type = "undefined" => ToNumber(x) = NaN
  BY DEF ToNumber
<1>3. x.type = "null" => ToNumber(x) = 0
  BY DEF ToNumber
<1>4. x.type = "boolean" => ToNumber(x) \in {0, 1}
  BY DEF ToNumber
<1>5. x.type = "number" => ToNumber(x) = x.num
  BY DEF ToNumber
<1>6. x.type \in {"string", "object"} => ToNumber(x) = None
  BY DEF ToNumber
<1> QED BY <1>1, <1>2, <1>3, <1>4, <1>5, <1>6, ValueIs DEF Types, Numbers

\* Two values of one type are the same as their numbers are, but for NaN.
LEMMA SameNumber ==
  ASSUME NEW x \in Values, NEW y \in Values, x.type = y.type, x.type \notin {"string", "object"}
  PROVE  x = y <=> ToNumber(x) = ToNumber(y)
<1>1. CASE x.type \in {"undefined", "null"}
  BY <1>1, ValueIs
<1>2. CASE x.type = "boolean"
  <2>1. x.type = "boolean" /\ y.type = "boolean"
    BY <1>2
  <2>2. x = Boolean(x.bool) /\ x.bool \in BOOLEAN /\ y = Boolean(y.bool) /\ y.bool \in BOOLEAN
    BY <2>1, ValueIs
  <2>3. ToNumber(x) = (IF x.bool THEN 1 ELSE 0) /\ ToNumber(y) = (IF y.bool THEN 1 ELSE 0)
    BY <2>1 DEF ToNumber
  <2>4. CASE x.bool = y.bool
    BY <2>2, <2>3, <2>4
  <2>5. CASE x.bool # y.bool
    <3>1. (x.bool = TRUE /\ y.bool = FALSE) \/ (x.bool = FALSE /\ y.bool = TRUE)
      BY <2>2, <2>5
    <3>2. x # y
      BY <2>5
    <3> QED BY <2>3, <3>1, <3>2
  <2> QED BY <2>4, <2>5
<1>3. CASE x.type = "number"
  BY <1>3, ValueIs DEF ToNumber
<1> QED BY <1>1, <1>2, <1>3, ValueIs DEF Types

\* strictEqComp is True for two that are the same, and asserts for two objects.
LEMMA StrictEqCompIs ==
  ASSUME NEW x \in Values, NEW y \in Values
  PROVE  /\ x.type # y.type => StrictEqComp(x, y) = False
         /\ x.type = y.type /\ x.type = "object" => StrictEqComp(x, y) = None
         /\ x.type = y.type /\ x.type # "object" => StrictEqComp(x, y) \in {True, False}
         /\ StrictEqComp(x, y) = True <=>
              x.type = y.type /\ x.type # "object" /\ x = y /\ x # Number(NaN)
<1> DEFINE same == x = y /\ x # Number(NaN)
<1>1. same \in BOOLEAN
  OBVIOUS
<1>2. x.type = y.type /\ x.type # "object" => StrictEqComp(x, y) = Boolean(same)
  BY DEF StrictEqComp
<1>3. Boolean(same) \in {True, False} /\ (Boolean(same) = True <=> same)
  <2> HIDE DEF same
  <2> QED BY <1>1, Booleans DEF True, False
<1>4. x.type # y.type => StrictEqComp(x, y) = False
  BY DEF StrictEqComp
<1>5. x.type = y.type /\ x.type = "object" => StrictEqComp(x, y) = None
  BY DEF StrictEqComp
<1> QED BY <1>2, <1>3, <1>4, <1>5, NoneIsNone DEF Attribute

\* strictEqComp does not depend on the order.
LEMMA StrictSymmetric ==
  ASSUME NEW x \in Values, NEW y \in Values
  PROVE  StrictEqComp(x, y) = StrictEqComp(y, x)
<1>1. CASE x.type # y.type
  BY <1>1, StrictEqCompIs
<1>2. CASE x.type = y.type
  <2>1. StrictEqComp(x, y) = True <=> StrictEqComp(y, x) = True
    BY StrictEqCompIs
  <2> QED BY <1>2, <2>1, StrictEqCompIs
<1> QED BY <1>1, <1>2

\* absEqComp does not depend on the order, and is True where strictEqComp is.
LEMMA AbsEqCompIs ==
  ASSUME NEW x \in Values, NEW y \in Values
  PROVE  /\ AbsEqComp(x, y) \in {True, False, None}
         /\ AbsEqComp(x, y) = AbsEqComp(y, x)
         /\ StrictEqComp(x, y) = True => AbsEqComp(x, y) = True
<1> DEFINE number(a) == IF a.type = "boolean" THEN Number(ToNumber(a)) ELSE a
           nx == number(x)
           ny == number(y)
<1>1. \A a \in Values : number(a) \in Values
  <2>1. ASSUME NEW a \in Values PROVE number(a) \in Values
    BY ToNumberIs DEF Values
  <2> QED BY <2>1
<1>2. nx \in Values /\ ny \in Values
  BY <1>1
<1>3. CASE x.type = y.type
  <2>1. AbsEqComp(x, y) = StrictEqComp(x, y) /\ AbsEqComp(y, x) = StrictEqComp(y, x)
    BY <1>3 DEF AbsEqComp
  <2> QED BY <2>1, StrictSymmetric, StrictEqCompIs
<1>4. CASE x.type # y.type
  <2>1. StrictEqComp(x, y) = False /\ True # False
    BY <1>4, StrictEqCompIs, NoneIsNone DEF Attribute
  <2>2. CASE {x.type, y.type} = {"null", "undefined"}
    <3>1. {y.type, x.type} = {"null", "undefined"}
      BY <2>2
    <3>2. AbsEqComp(x, y) = True
      BY <1>4, <2>2 DEF AbsEqComp
    <3>3. AbsEqComp(y, x) = True
      BY <1>4, <3>1 DEF AbsEqComp
    <3> QED BY <2>1, <3>2, <3>3
  <2>3. CASE {x.type, y.type} # {"null", "undefined"}
    <3>1. {y.type, x.type} # {"null", "undefined"}
      BY <2>3
    <3>2. AbsEqComp(x, y) = IF nx.type = ny.type THEN StrictEqComp(nx, ny)
                            ELSE IF {nx.type, ny.type} \subseteq {"number", "string", "object"} THEN None
                            ELSE False
      BY <1>4, <2>3 DEF AbsEqComp
    <3>3. AbsEqComp(y, x) = IF ny.type = nx.type THEN StrictEqComp(ny, nx)
                            ELSE IF {ny.type, nx.type} \subseteq {"number", "string", "object"} THEN None
                            ELSE False
      BY <1>4, <3>1 DEF AbsEqComp
    <3> HIDE DEF nx, ny
    <3> QED BY <1>2, <2>1, <3>2, <3>3, StrictSymmetric, StrictEqCompIs
  <2> QED BY <2>2, <2>3
<1> QED BY <1>3, <1>4

\* absRelComp's two orders, of values that are no two strings
LEMMA NumbersCompared ==
  ASSUME NEW x \in Values, NEW y \in Values, {x.type, y.type} # {"string"}
  PROVE  LET a == ToNumber(x) b == ToNumber(y) r == AbsRelComp(x, y)
         IN  /\ None \in {a, b} => r = None
             /\ None \notin {a, b} /\ NaN \in {a, b} => r = Undefined
             /\ {a, b} \cap {None, NaN} = {} => r \in {True, False} /\ (r = True <=> Less(a, b))
<1> DEFINE a == ToNumber(x)
           b == ToNumber(y)
           r == AbsRelComp(x, y)
<1>1. ~(x.type = "string" /\ y.type = "string")
  OBVIOUS
<1>2. r = IF None \in {a, b} THEN None ELSE IF NaN \in {a, b} THEN Undefined ELSE Boolean(Less(a, b))
  BY <1>1 DEF AbsRelComp
<1> HIDE DEF a, b, r
<1>3. Less(a, b) \in BOOLEAN
  BY DEF Less
<1>4. Boolean(Less(a, b)) \in {True, False} /\ (Boolean(Less(a, b)) = True <=> Less(a, b))
  BY <1>3, Booleans DEF True, False
<1>5. None \in {a, b} => r = None
  BY <1>2
<1>6. None \notin {a, b} /\ NaN \in {a, b} => r = Undefined
  BY <1>2
<1>7. {a, b} \cap {None, NaN} = {} => r = Boolean(Less(a, b))
  BY <1>2
<1> QED BY <1>4, <1>5, <1>6, <1>7 DEF a, b, r

\* and of two strings
LEMMA StringsCompared ==
  ASSUME NEW x \in Values, NEW y \in Values, x.type = "string", y.type = "string"
  PROVE  AbsRelComp(x, y) \in {True, False} /\ (AbsRelComp(x, y) = True <=> Before(x.str, y.str))
<1>1. AbsRelComp(x, y) = Boolean(Before(x.str, y.str))
  BY DEF AbsRelComp
<1>2. Before(x.str, y.str) \in BOOLEAN
  BY DEF Before
<1> QED BY <1>1, <1>2, Booleans DEF True, False

\* The two orders agree, and together they tell what strictEqComp tells.
LEMMA OrdersAgree ==
  ASSUME NEW x \in Values, NEW y \in Values
  PROVE  LET r == AbsRelComp(x, y) q == AbsRelComp(y, x)
         IN  /\ r \in {True, False, Undefined, None} /\ q \in {True, False, Undefined, None}
             /\ r = None <=> q = None
             /\ r # None =>
                  /\ {x.type, y.type} # {"string"} /\ NaN \in {ToNumber(x), ToNumber(y)} <=> r = Undefined
                  /\ r = Undefined <=> q = Undefined
             /\ ~(r = True /\ q = True)
             /\ r \in {True, False} /\ x.type = y.type =>
                  (StrictEqComp(y, x) = True <=> r # True /\ q # True)
<1> DEFINE r == AbsRelComp(x, y)
           q == AbsRelComp(y, x)
           a == ToNumber(x)
           b == ToNumber(y)
<1>0. True # False /\ None \notin {True, False, Undefined} /\ Undefined \notin {True, False}
  <2>1. Undefined # True /\ Undefined # False
    BY DEF Undefined, True, False, Boolean
  <2> QED BY <2>1, NoneIsNone DEF Attribute
<1>1. CASE x.type = "string" /\ y.type = "string"
  <2>1. /\ r \in {True, False} /\ (r = True <=> Before(x.str, y.str))
        /\ q \in {True, False} /\ (q = True <=> Before(y.str, x.str))
    BY <1>1, StringsCompared
  <2>2. /\ ~(Before(x.str, y.str) /\ Before(y.str, x.str))
        /\ x.str = y.str <=> ~Before(x.str, y.str) /\ ~Before(y.str, x.str)
    BY <1>1, ValueIs, OneIsBefore
  <2>3. x = y <=> x.str = y.str
    BY <1>1, ValueIs
  <2>4. y # Number(NaN)
    BY <1>1 DEF Number
  <2>5. StrictEqComp(y, x) = True <=> x = y
    BY <1>1, <2>4, StrictEqCompIs
  <2>6. {x.type, y.type} = {"string"}
    BY <1>1
  <2> HIDE DEF r, q
  <2>7. r \notin {None, Undefined} /\ q \notin {None, Undefined}
    BY <1>0, <2>1
  <2> QED BY <2>1, <2>2, <2>3, <2>5, <2>6, <2>7 DEF r, q
<1>2. CASE ~(x.type = "string" /\ y.type = "string")
  <2>1. {x.type, y.type} # {"string"} /\ {y.type, x.type} # {"string"}
    BY <1>2
  <2>2. /\ None \in {a, b} => r = None /\ q = None
        /\ None \notin {a, b} /\ NaN \in {a, b} => r = Undefined /\ q = Undefined
        /\ {a, b} \cap {None, NaN} = {} =>
             /\ r \in {True, False} /\ (r = True <=> Less(a, b))
             /\ q \in {True, False} /\ (q = True <=> Less(b, a))
    <3>1. /\ None \in {a, b} => r = None
          /\ None \notin {a, b} /\ NaN \in {a, b} => r = Undefined
          /\ {a, b} \cap {None, NaN} = {} => r \in {True, False} /\ (r = True <=> Less(a, b))
      BY <2>1, NumbersCompared
    <3>2. /\ None \in {b, a} => q = None
          /\ None \notin {b, a} /\ NaN \in {b, a} => q = Undefined
          /\ {b, a} \cap {None, NaN} = {} => q \in {True, False} /\ (q = True <=> Less(b, a))
      BY <2>1, NumbersCompared
    <3> HIDE DEF a, b, r, q
    <3> QED BY <3>1, <3>2
  <2>3. CASE None \in {a, b}
    <3>1. r = None /\ q = None
      BY <2>2, <2>3
    <3> HIDE DEF r, q
    <3> QED BY <1>0, <3>1 DEF r, q
  <2>4. CASE None \notin {a, b} /\ NaN \in {a, b}
    <3>1. r = Undefined /\ q = Undefined
      BY <2>2, <2>4
    <3> HIDE DEF r, q
    <3> QED BY <1>0, <2>1, <2>4, <3>1 DEF r, q
  <2>5. CASE {a, b} \cap {None, NaN} = {}
    <3>1. a \in Numbers \ {NaN} /\ b \in Numbers \ {NaN}
          /\ x.type \notin {"string", "object"} /\ y.type \notin {"string", "object"}
      BY <2>5, ToNumberIs
    <3>2. /\ r \in {True, False} /\ (r = True <=> Less(a, b))
          /\ q \in {True, False} /\ (q = True <=> Less(b, a))
      BY <2>2, <2>5
    <3>3. ~(Less(a, b) /\ Less(b, a)) /\ (a = b <=> ~Less(a, b) /\ ~Less(b, a))
      BY <3>1, OneIsLess
    <3>4. ASSUME x.type = y.type
          PROVE  StrictEqComp(y, x) = True <=> a = b
      <4>1. y # Number(NaN)
        <5>1. ASSUME y = Number(NaN) PROVE FALSE
          <6>1. y.type = "number" /\ y.num = NaN
            BY <5>1 DEF Number
          <6>2. b = NaN
            BY <6>1 DEF ToNumber
          <6> QED BY <3>1, <6>2
        <5> QED BY <5>1
      <4>2. x = y <=> a = b
        BY <3>1, <3>4, SameNumber
      <4> QED BY <3>1, <3>4, <4>1, <4>2, StrictEqCompIs
    <3> HIDE DEF r, q
    <3>5. r \notin {None, Undefined} /\ q \notin {None, Undefined}
      BY <1>0, <3>2
    <3>6. NaN \notin {a, b}
      BY <2>5
    <3> QED BY <3>2, <3>3, <3>4, <3>5, <3>6 DEF r, q
  <2> QED BY <2>3, <2>4, <2>5
<1> QED BY <1>1, <1>2

\* What each node comes to
LEMMA ComparedIs ==
  ASSUME NEW x, NEW y
  PROVE  LET r == AbsRelComp(x, y) q == AbsRelComp(y, x)
         IN  /\ Compared("<", x, y) = IF r = Undefined THEN False ELSE r
             /\ Compared(">", x, y) = IF q = Undefined THEN False ELSE q
             /\ Compared("<=", x, y) = IF q = None THEN None ELSE Boolean(q = False)
             /\ Compared(">=", x, y) = IF r = None THEN None ELSE Boolean(r = False)
             /\ Compared("==", x, y) = AbsEqComp(y, x)
             /\ Compared("!=", x, y) = Not1(AbsEqComp(y, x))
             /\ Compared("===", x, y) = StrictEqComp(y, x)
             /\ Compared("!==", x, y) = Not1(StrictEqComp(y, x))
<1>1. Compared("<", x, y) = IF AbsRelComp(x, y) = Undefined THEN False ELSE AbsRelComp(x, y)
  BY DEF Compared
<1>2. Compared(">", x, y) = IF AbsRelComp(y, x) = Undefined THEN False ELSE AbsRelComp(y, x)
  BY DEF Compared
<1>3. Compared("<=", x, y) = IF AbsRelComp(y, x) = None THEN None ELSE Boolean(AbsRelComp(y, x) = False)
  BY DEF Compared
<1>4. Compared(">=", x, y) = IF AbsRelComp(x, y) = None THEN None ELSE Boolean(AbsRelComp(x, y) = False)
  BY DEF Compared
<1>5. Compared("==", x, y) = AbsEqComp(y, x) /\ Compared("!=", x, y) = Not1(AbsEqComp(y, x))
  BY DEF Compared
<1>6. Compared("===", x, y) = StrictEqComp(y, x) /\ Compared("!==", x, y) = Not1(StrictEqComp(y, x))
  BY DEF Compared
<1> QED BY <1>1, <1>2, <1>3, <1>4, <1>5, <1>6, Zenon

\* For all values, the comparisons agree with each other: ByTheBook's Consistent,
\* which MC_Host checks for the values that come up (absRelComp, absEqComp,
\* strictEqComp and the nodes that use them).
THEOREM ComparisonsAgree == \A x, y \in Values : Consistent(x, y)
<1> SUFFICES ASSUME NEW x \in Values, NEW y \in Values PROVE Consistent(x, y)
  OBVIOUS
<1> DEFINE r == AbsRelComp(x, y)
           q == AbsRelComp(y, x)
           e == AbsEqComp(y, x)
           s == StrictEqComp(y, x)
<1>0. True # False /\ None \notin {True, False, Undefined} /\ Undefined \notin {True, False}
  <2>1. Undefined # True /\ Undefined # False
    BY DEF Undefined, True, False, Boolean
  <2> QED BY <2>1, NoneIsNone DEF Attribute
<1>1. /\ r \in {True, False, Undefined, None} /\ q \in {True, False, Undefined, None}
      /\ r = None <=> q = None
      /\ r # None =>
           /\ {x.type, y.type} # {"string"} /\ NaN \in {ToNumber(x), ToNumber(y)} <=> r = Undefined
           /\ r = Undefined <=> q = Undefined
      /\ ~(r = True /\ q = True)
      /\ r \in {True, False} /\ x.type = y.type => (s = True <=> r # True /\ q # True)
  BY OrdersAgree
<1>2. /\ Holds("<", x, y) <=> r = True
      /\ Holds(">", x, y) <=> q = True
      /\ Holds("<", y, x) <=> q = True
      /\ Holds("<=", x, y) <=> q # None /\ q = False
      /\ Holds(">=", x, y) <=> r # None /\ r = False
      /\ Compared("<", x, y) # None <=> r # None
  <2>1. \A z, t : Compared("<", z, t) = IF AbsRelComp(z, t) = Undefined THEN False ELSE AbsRelComp(z, t)
    BY ComparedIs
  <2>2. Compared(">", x, y) = IF q = Undefined THEN False ELSE q
    BY ComparedIs
  <2>3. Compared("<=", x, y) = IF q = None THEN None ELSE Boolean(q = False)
    BY ComparedIs
  <2>4. Compared(">=", x, y) = IF r = None THEN None ELSE Boolean(r = False)
    BY ComparedIs
  <2>5. Compared("<", x, y) = (IF r = Undefined THEN False ELSE r)
        /\ Compared("<", y, x) = (IF q = Undefined THEN False ELSE q)
    BY <2>1
  <2> HIDE DEF r, q
  <2>6. \A z : Boolean(z = False) = True <=> z = False
    BY Booleans
  <2> QED BY <1>0, <2>2, <2>3, <2>4, <2>5, <2>6 DEF Holds
<1>3. /\ Holds("==", x, y) <=> e = True
      /\ Holds("==", y, x) <=> e = True
      /\ Compared("==", x, y) # None <=> e # None
      /\ Holds("!=", x, y) <=> e # None /\ e # True
      /\ Holds("===", x, y) <=> s = True
      /\ Holds("!==", x, y) <=> s # None /\ s # True
  <2>1. \A z : Not1(z) = True <=> z # None /\ z # True
    <3>1. \A z : Boolean(z # True) = True <=> z # True
      BY Booleans
    <3> QED BY <1>0, <3>1 DEF Not1
  <2>2. AbsEqComp(x, y) = e
    BY AbsEqCompIs
  <2>3. Compared("==", x, y) = e /\ Compared("!=", x, y) = Not1(e)
        /\ Compared("===", x, y) = s /\ Compared("!==", x, y) = Not1(s)
    BY ComparedIs
  <2>4. Compared("==", y, x) = e
    BY <2>2, ComparedIs
  <2> HIDE DEF e, s
  <2> QED BY <2>1, <2>3, <2>4 DEF Holds
<1>4. (s = True => e = True) /\ (e # None => s # None)
  <2>1. s = True => e = True
    BY AbsEqCompIs
  <2>2. s = None => x.type = y.type /\ x.type = "object"
    BY <1>0, StrictEqCompIs
  <2>3. x.type = y.type => e = s
    BY DEF AbsEqComp
  <2> QED BY <2>1, <2>2, <2>3
<1> HIDE DEF r, q, e, s
<1>5. Compared("<", x, y) # None =>
        IF {x.type, y.type} # {"string"} /\ NaN \in {ToNumber(x), ToNumber(y)}
          THEN \A op \in {"<", ">", "<=", ">="} : ~Holds(op, x, y)
          ELSE /\ ~(Holds("<", x, y) /\ Holds(">", x, y)) /\ (Holds(">", x, y) <=> Holds("<", y, x))
               /\ (Holds("<=", x, y) <=> ~Holds(">", x, y)) /\ (Holds(">=", x, y) <=> ~Holds("<", x, y))
               /\ x.type = y.type => (Holds("===", x, y) <=> ~Holds("<", x, y) /\ ~Holds(">", x, y))
  <2>1. SUFFICES ASSUME r # None PROVE
          IF {x.type, y.type} # {"string"} /\ NaN \in {ToNumber(x), ToNumber(y)}
          THEN \A op \in {"<", ">", "<=", ">="} : ~Holds(op, x, y)
          ELSE /\ ~(Holds("<", x, y) /\ Holds(">", x, y)) /\ (Holds(">", x, y) <=> Holds("<", y, x))
               /\ (Holds("<=", x, y) <=> ~Holds(">", x, y)) /\ (Holds(">=", x, y) <=> ~Holds("<", x, y))
               /\ x.type = y.type => (Holds("===", x, y) <=> ~Holds("<", x, y) /\ ~Holds(">", x, y))
    BY <1>2
  <2>2. CASE r = Undefined
    <3>1. q = Undefined
      BY <1>1, <2>1, <2>2
    <3> QED BY <1>0, <1>1, <1>2, <2>1, <2>2, <3>1
  <2>3. CASE r # Undefined
    <3>1. r \in {True, False} /\ q \in {True, False}
      BY <1>1, <2>1, <2>3
    <3> QED BY <1>0, <1>1, <1>2, <1>3, <2>1, <2>3, <3>1
  <2> QED BY <2>2, <2>3
<1>6. Compared("==", x, y) # None =>
        /\ Holds("==", x, y) <=> Holds("==", y, x)
        /\ Holds("!=", x, y) <=> ~Holds("==", x, y)
        /\ Holds("!==", x, y) <=> ~Holds("===", x, y)
        /\ Holds("===", x, y) => Holds("==", x, y)
  BY <1>3, <1>4
<1> QED BY <1>5, <1>6, Zenon DEF Consistent
=============================================================================
