----------------------------- MODULE TomlProofs -----------------------------
(***************************************************************************)
(* Theorems about the lexer of TomlLexer under the parser of TomlParser,   *)
(* for every text and every depth of nesting: the lexer never pops an      *)
(* empty stack nor reads past the end, and all variables keep their types. *)
(***************************************************************************)
EXTENDS TomlParser, SequenceTheorems, TLAPS

(* The state functions that do not pop, nor go on to one that does without *)
(* pushing first.                                                          *)
TopStates == {"lexTop", "lexTopEnd", "lexTableStart", "lexTableEnd",
              "lexArrayTableEnd", "nil"}

(* The state functions that are pushed. *)
Backs == {"lexTop", "lexTopEnd", "lexTableEnd", "lexArrayTableEnd",
          "lexTableNameEnd", "lexKeyEnd", "lexArrayValue", "lexArrayValueEnd",
          "lexInlineTableValue", "lexInlineTableValueEnd", "lexString",
          "lexMultilineString"}

(* No item, or one that is not the lexer's own bug. *)
Sound(sent) == sent = <<>> \/ \E type : type # "NoStates" /\ sent = <<type>>

(* The strengthening of NoEmptyPop: a function that needs nothing lies at  *)
(* the bottom of the stack, and whenever any other runs there is something *)
(* to pop.                                                                 *)
LexInv ==
  /\ stack \in Seq(Backs)
  /\ stack # <<>> => stack[1] \in TopStates
  /\ state \notin TopStates => stack # <<>>
  /\ Sound(items)

-----------------------------------------------------------------------------
(* The stack may be left alone by a function that needs nothing and goes   *)
(* on to another such, and by every other function.                        *)
LEMMA GoKeeps ==
  ASSUME LexInv, items = <<>>, NEW next,
         next \in TopStates \/ state \notin TopStates
  PROVE  /\ Go(next) => LexInv'
         /\ \A type : type # "NoStates" /\ Emit(type, next) => LexInv'
  <1>1. ASSUME NEW sent, Sound(sent), Do(next, stack, sent)
        PROVE  LexInv'
    <2>1. items' = sent /\ stack' = stack /\ state' = next
      BY <1>1 DEF Do, Sound
    <2> QED
      BY <1>1, <2>1 DEF LexInv
  <1>2. Sound(<<>>) /\ \A type : type # "NoStates" => Sound(<<type>>)
    BY DEF Sound
  <1> QED
    BY <1>1, <1>2 DEF Go, Emit

(* What is pushed on an empty stack has to be one that needs nothing. *)
LEMMA PushKeeps ==
  ASSUME LexInv, items = <<>>, NEW next, NEW back \in Backs,
         back \in TopStates \/ state \notin TopStates,
         NEW sent, Sound(sent), Do(next, Append(stack, back), sent)
  PROVE  LexInv'
  <1>1. items' = sent /\ stack' = Append(stack, back) /\ state' = next
    BY DEF Do, Sound
  <1>2. stack \in Seq(Backs) /\ Len(stack) \in Nat
    BY DEF LexInv
  <1>3. /\ stack' \in Seq(Backs) /\ Len(stack') = Len(stack) + 1
        /\ stack'[1] = IF Len(stack) = 0 THEN back ELSE stack[1]
    BY <1>1, <1>2
  <1>4. stack' # <<>>
    BY <1>2, <1>3
  <1>5. stack'[1] \in TopStates
    BY <1>2, <1>3 DEF LexInv
  <1> QED
    BY <1>1, <1>3, <1>4, <1>5 DEF LexInv

LEMMA CallKeeps ==
  ASSUME LexInv, items = <<>>, NEW next, NEW back \in Backs,
         back \in TopStates \/ state \notin TopStates
  PROVE  /\ Call(next, back) => LexInv'
         /\ \A type : /\ type # "NoStates"
                      /\ Do(next, Append(stack, back), <<type>>)
                      => LexInv'
  <1>1. Sound(<<>>) /\ \A type : type # "NoStates" => Sound(<<type>>)
    BY DEF Sound
  <1> QED
    BY <1>1, PushKeeps DEF Call, Push

(* One that pops finds something; what is left has the same bottom. *)
LEMMA ReturnKeeps ==
  ASSUME LexInv, items = <<>>, state \notin TopStates,
         NEW sent, Sound(sent), Return(sent)
  PROVE  LexInv'
  <1> DEFINE n == Len(stack)
  <1>1. stack \in Seq(Backs) /\ n \in Nat /\ n >= 1 /\ stack # <<>>
    BY DEF LexInv
  <1>2. items' = sent /\ state' = stack[n] /\ stack' = SubSeq(stack, 1, n - 1)
    BY <1>1 DEF Return, Do, Sound
  <1>3. \A i \in 1 .. n - 1 : stack[i] \in Backs
    BY <1>1
  <1>4. /\ stack' \in Seq(Backs)
        /\ Len(stack') = IF 1 <= n - 1 THEN n - 1 - 1 + 1 ELSE 0
        /\ \A i \in 1 .. n - 1 - 1 + 1 : stack'[i] = stack[1 + i - 1]
    <2>1. n - 1 \in Int /\ 1 \in Int
      BY <1>1
    <2> HIDE DEF n
    <2> QED
      BY <1>2, <1>3, <2>1, SubSeqProperties
  <1>5. stack[1] \in TopStates
    BY <1>1 DEF LexInv
  <1>6. CASE n = 1
    <2>1. state' \in TopStates
      BY <1>2, <1>5, <1>6
    <2>2. Len(stack') = 0
      BY <1>4, <1>6
    <2> QED
      BY <1>2, <1>4, <2>1, <2>2 DEF LexInv
  <1>7. CASE n > 1
    <2>1. stack'[1] = stack[1] /\ Len(stack') >= 1
      BY <1>1, <1>4, <1>7
    <2>2. stack' # <<>>
      BY <2>1
    <2> QED
      BY <1>2, <1>4, <1>5, <2>1, <2>2 DEF LexInv
  <1>8. n = 1 \/ n > 1
    <2>1. n \in Nat /\ n >= 1
      BY <1>1
    <2> HIDE DEF n
    <2> QED
      BY <2>1
  <1> QED
    BY <1>6, <1>7, <1>8

LEMMA PopKeeps ==
  ASSUME LexInv, items = <<>>, state \notin TopStates
  PROVE  /\ Return(<<>>) => LexInv'
         /\ \A type : type # "NoStates" /\ Return(<<type>>) => LexInv'
  <1>1. Sound(<<>>) /\ \A type : type # "NoStates" => Sound(<<type>>)
    BY DEF Sound
  <1> QED
    BY <1>1, ReturnKeeps
-----------------------------------------------------------------------------
LEMMA LexTopLevelKeeps ==
  ASSUME LexInv, LexTopLevel
  PROVE  LexInv'
  <1>1. CASE LexTop
    BY <1>1, GoKeeps, CallKeeps, PopKeeps
       DEF LexTop, KeyThenEnd, In, TopStates, Backs, Fail
  <1>2. CASE LexTopEnd
    BY <1>2, GoKeeps, CallKeeps, PopKeeps
       DEF LexTopEnd, In, TopStates, Backs, Fail
  <1>3. CASE LexTableStart
    BY <1>3, GoKeeps, CallKeeps, PopKeeps
       DEF LexTableStart, TableNameThen, In, TopStates, Backs, Fail
  <1>4. CASE LexTableEnd
    BY <1>4, GoKeeps, CallKeeps, PopKeeps
       DEF LexTableEnd, In, TopStates, Backs, Fail
  <1>5. CASE LexArrayTableEnd
    BY <1>5, GoKeeps, CallKeeps, PopKeeps
       DEF LexArrayTableEnd, In, TopStates, Backs, Fail
  <1>6. CASE LexTableNameStart
    BY <1>6, GoKeeps, CallKeeps, PopKeeps
       DEF LexTableNameStart, In, TopStates, Backs, Fail
  <1>7. CASE LexBareTableName
    BY <1>7, GoKeeps, CallKeeps, PopKeeps
       DEF LexBareTableName, In, TopStates, Backs, Fail
  <1>8. CASE LexTableNameEnd
    BY <1>8, GoKeeps, CallKeeps, PopKeeps
       DEF LexTableNameEnd, In, TopStates, Backs, Fail
  <1>9. CASE LexKeyStart
    BY <1>9, GoKeeps, CallKeeps, PopKeeps
       DEF LexKeyStart, In, TopStates, Backs, Fail
  <1>10. CASE LexBareKey
    BY <1>10, GoKeeps, CallKeeps, PopKeeps
       DEF LexBareKey, In, TopStates, Backs, Fail
  <1>11. CASE LexKeyEnd
    BY <1>11, GoKeeps, CallKeeps, PopKeeps
       DEF LexKeyEnd, In, TopStates, Backs, Fail
  <1> QED
    BY <1>1, <1>2, <1>3, <1>4, <1>5, <1>6, <1>7, <1>8, <1>9, <1>10, <1>11
       DEF LexTopLevel

LEMMA LexNestedKeeps ==
  ASSUME LexInv, LexNested
  PROVE  LexInv'
  <1>1. CASE LexValue
    BY <1>1, GoKeeps, CallKeeps, PopKeeps
       DEF LexValue, OpenString, In, TopStates, Backs, Fail
  <1>2. CASE LexArrayValue
    BY <1>2, GoKeeps, CallKeeps, PopKeeps
       DEF LexArrayValue, In, TopStates, Backs, Fail
  <1>3. CASE LexArrayValueEnd
    BY <1>3, GoKeeps, CallKeeps, PopKeeps
       DEF LexArrayValueEnd, In, TopStates, Backs, Fail
  <1>4. CASE LexInlineTableValue
    BY <1>4, GoKeeps, CallKeeps, PopKeeps
       DEF LexInlineTableValue, KeyThenTableEnd, In, TopStates, Backs,
           Fail
  <1>5. CASE LexInlineTableValueEnd
    BY <1>5, GoKeeps, CallKeeps, PopKeeps
       DEF LexInlineTableValueEnd, In, TopStates, Backs, Fail
  <1> QED
    BY <1>1, <1>2, <1>3, <1>4, <1>5 DEF LexNested

LEMMA LexTextKeeps ==
  ASSUME LexInv, LexText
  PROVE  LexInv'
  <1>1. CASE LexString
    BY <1>1, GoKeeps, CallKeeps, PopKeeps
       DEF LexString, In, TopStates, Backs, Fail
  <1>2. CASE LexRawString
    BY <1>2, GoKeeps, CallKeeps, PopKeeps
       DEF LexRawString, In, TopStates, Backs, Fail
  <1>3. CASE LexMultilineString
    BY <1>3, GoKeeps, CallKeeps, PopKeeps
       DEF LexMultilineString, CloseString, In, TopStates, Backs, Fail
  <1>4. CASE LexMultilineRawString
    BY <1>4, GoKeeps, CallKeeps, PopKeeps
       DEF LexMultilineRawString, CloseString, In, TopStates, Backs,
           Fail
  <1>5. CASE LexMultilineStringEscape
    BY <1>5, GoKeeps, CallKeeps, PopKeeps
       DEF LexMultilineStringEscape, In, TopStates, Backs, Fail
  <1>6. CASE LexStringEscape
    BY <1>6, GoKeeps, CallKeeps, PopKeeps
       DEF LexStringEscape, In, TopStates, Backs, Fail
  <1>7. CASE LexUnicodeEscape
    BY <1>7, GoKeeps, CallKeeps, PopKeeps
       DEF LexUnicodeEscape, In, TopStates, Backs, Fail
  <1>8. CASE LexCommentStart
    BY <1>8, GoKeeps, CallKeeps, PopKeeps
       DEF LexCommentStart, In, TopStates, Backs, Fail
  <1>9. CASE LexComment
    BY <1>9, GoKeeps, CallKeeps, PopKeeps
       DEF LexComment, In, TopStates, Backs, Fail
  <1> QED
    BY <1>1, <1>2, <1>3, <1>4, <1>5, <1>6, <1>7, <1>8, <1>9 DEF LexText

LEMMA LexScalarKeeps ==
  ASSUME LexInv, LexScalar
  PROVE  LexInv'
  <1>1. CASE LexNumberOrDateStart
    BY <1>1, GoKeeps, CallKeeps, PopKeeps
       DEF LexNumberOrDateStart, In, TopStates, Backs, Fail
  <1>2. CASE LexNumberOrDate
    BY <1>2, GoKeeps, CallKeeps, PopKeeps
       DEF LexNumberOrDate, In, TopStates, Backs, Fail
  <1>3. CASE LexDatetime
    BY <1>3, GoKeeps, CallKeeps, PopKeeps
       DEF LexDatetime, In, TopStates, Backs, Fail
  <1>4. CASE LexNumberStart
    BY <1>4, GoKeeps, CallKeeps, PopKeeps
       DEF LexNumberStart, In, TopStates, Backs, Fail
  <1>5. CASE LexNumber
    BY <1>5, GoKeeps, CallKeeps, PopKeeps
       DEF LexNumber, In, TopStates, Backs, Fail
  <1>6. CASE LexFloat
    BY <1>6, GoKeeps, CallKeeps, PopKeeps
       DEF LexFloat, In, TopStates, Backs, Fail
  <1>7. CASE LexBool
    BY <1>7, GoKeeps, CallKeeps, PopKeeps
       DEF LexBool, In, TopStates, Backs, Fail
  <1> QED
    BY <1>1, <1>2, <1>3, <1>4, <1>5, <1>6, <1>7 DEF LexScalar

LEMMA LexKeeps ==
  ASSUME LexInv, Lex
  PROVE  LexInv'
  BY LexTopLevelKeeps, LexNestedKeeps, LexTextKeeps, LexScalarKeeps DEF Lex

(* The parser takes items and leaves the lexer alone. *)
LEMMA ReceivesKeeps ==
  ASSUME LexInv, NEW types, Receives(types)
  PROVE  LexInv'
  <1>1. /\ items # <<>> /\ items' = Tail(items)
        /\ UNCHANGED <<state, stack>>
    BY DEF Receives
  <1>2. PICK type : items = <<type>>
    BY <1>1 DEF LexInv, Sound
  <1>3. Tail(<<type>>) = <<>>
    OBVIOUS
  <1>4. items' = <<>>
    BY <1>1, <1>2, <1>3
  <1> QED
    BY <1>1, <1>4 DEF LexInv, Sound

LEMMA ParseReceives ==
  ASSUME Parse
  PROVE  \E types : Receives(types)
  <1>1. CASE LexerError
    BY <1>1 DEF LexerError
  <1>2. CASE TopLevel
    BY <1>2 DEF TopLevel
  <1>3. CASE CommentText
    BY <1>3 DEF CommentText
  <1>4. CASE TableName
    BY <1>4 DEF TableName, BadEscape
  <1>5. CASE KeyName
    BY <1>5 DEF KeyName, BadEscape
  <1>6. CASE Value
    BY <1>6 DEF Value, BadEscape, Complete, SetValue
  <1>7. CASE ArrayValue
    BY <1>7 DEF ArrayValue, BadEscape, ArrayComment, Complete, SetValue
  <1>8. CASE InlineTable
    BY <1>8 DEF InlineTable, Complete, SetValue
  <1> QED
    BY <1>1, <1>2, <1>3, <1>4, <1>5, <1>6, <1>7, <1>8 DEF Parse

(* The invariant holds of every text. *)
THEOREM LexInvariant == Spec => []LexInv
  <1>1. Init => LexInv
    BY DEF Init, LexInit, LexInv, TopStates, Sound
  <1>2. LexInv /\ [Next]_vars => LexInv'
    <2> SUFFICES ASSUME LexInv, [Next]_vars PROVE LexInv'
      OBVIOUS
    <2>1. CASE RunLexer
      BY <2>1, LexKeeps DEF RunLexer
    <2>2. CASE Parse
      BY <2>2, ParseReceives, ReceivesKeeps
    <2>3. CASE UNCHANGED vars
      BY <2>3 DEF vars, lexVars, LexInv
    <2> QED
      BY <2>1, <2>2, <2>3 DEF Next
  <1> QED
    BY <1>1, <1>2, PTL DEF Spec

(* No text, however deep it nests, makes a state function pop an empty     *)
(* stack (pop, lex.go:115): the bug the lexer would report of itself is    *)
(* never sent.                                                             *)
THEOREM NothingPopsEmpty == Spec => []NoEmptyPop
  <1>1. LexInv => NoEmptyPop
    BY DEF LexInv, Sound, NoEmptyPop
  <1> QED
    BY <1>1, LexInvariant, PTL

-----------------------------------------------------------------------------
(* Only a rune that may be the end ends the text. *)
LEMMA TakeBeforeEnd ==
  ASSUME NEW runes, Eof \notin runes, Take(runes)
  PROVE  StopsAtEOF'
  BY DEF Take, StopsAtEOF

(* What is backed up over is not read yet. *)
LEMMA PeekBeforeEnd ==
  ASSUME StopsAtEOF, state # "nil"
  PROVE  /\ \A runes : Peek(runes) => StopsAtEOF'
         /\ UNCHANGED atEOF => StopsAtEOF'
  BY DEF Peek, StopsAtEOF

(* After an error or the item EOF no other function runs. *)
LEMMA StopIsLast ==
  /\ Fail => StopsAtEOF'
  /\ \A type : Emit(type, "nil") => StopsAtEOF'
  BY DEF Fail, Emit, Do, StopsAtEOF

LEMMA LexTopLevelStops ==
  ASSUME StopsAtEOF, LexTopLevel
  PROVE  StopsAtEOF'
  <1>1. CASE LexTop
    BY <1>1, TakeBeforeEnd, PeekBeforeEnd, StopIsLast
       DEF LexTop, In, Eof, Nul, Ends, Space, NL
  <1>2. CASE LexTopEnd
    BY <1>2, TakeBeforeEnd, PeekBeforeEnd, StopIsLast
       DEF LexTopEnd, In, Eof, Ends, Space, NL, Nul
  <1>3. CASE LexTableStart
    BY <1>3, TakeBeforeEnd, PeekBeforeEnd, StopIsLast
       DEF LexTableStart, In, Eof
  <1>4. CASE LexTableEnd
    BY <1>4, TakeBeforeEnd, PeekBeforeEnd, StopIsLast
       DEF LexTableEnd, In, Eof
  <1>5. CASE LexArrayTableEnd
    BY <1>5, TakeBeforeEnd, PeekBeforeEnd, StopIsLast
       DEF LexArrayTableEnd, In, Eof
  <1>6. CASE LexTableNameStart
    BY <1>6, TakeBeforeEnd, PeekBeforeEnd, StopIsLast
       DEF LexTableNameStart, In, Eof, Ends, Space, StringQuotes, Nul
  <1>7. CASE LexBareTableName
    BY <1>7, TakeBeforeEnd, PeekBeforeEnd, StopIsLast
       DEF LexBareTableName, In, Eof, BareKeyChar, Letter, Digit
  <1>8. CASE LexTableNameEnd
    BY <1>8, TakeBeforeEnd, PeekBeforeEnd, StopIsLast
       DEF LexTableNameEnd, In, Eof, Space
  <1>9. CASE LexKeyStart
    BY <1>9, TakeBeforeEnd, PeekBeforeEnd, StopIsLast
       DEF LexKeyStart, In, Eof, Space, NL, StringQuotes
  <1>10. CASE LexBareKey
    BY <1>10, TakeBeforeEnd, PeekBeforeEnd, StopIsLast
       DEF LexBareKey, In, Eof, Space, BareKeyChar, Letter, Digit
  <1>11. CASE LexKeyEnd
    BY <1>11, TakeBeforeEnd, PeekBeforeEnd, StopIsLast
       DEF LexKeyEnd, In, Eof, Space
  <1> QED
    BY <1>1, <1>2, <1>3, <1>4, <1>5, <1>6, <1>7, <1>8, <1>9, <1>10, <1>11
       DEF LexTopLevel

LEMMA LexNestedStops ==
  ASSUME StopsAtEOF, LexNested
  PROVE  StopsAtEOF'
  <1>1. CASE LexValue
    BY <1>1, TakeBeforeEnd, PeekBeforeEnd, StopIsLast
       DEF LexValue, OpenString, In, Eof, Space, Digit, Letter,
           StringQuotes
  <1>2. CASE LexArrayValue
    BY <1>2, TakeBeforeEnd, PeekBeforeEnd, StopIsLast
       DEF LexArrayValue, In, Eof, Space, NL
  <1>3. CASE LexArrayValueEnd
    BY <1>3, TakeBeforeEnd, PeekBeforeEnd, StopIsLast
       DEF LexArrayValueEnd, In, Eof, Space, NL
  <1>4. CASE LexInlineTableValue
    BY <1>4, TakeBeforeEnd, PeekBeforeEnd, StopIsLast
       DEF LexInlineTableValue, In, Eof, Space, NL
  <1>5. CASE LexInlineTableValueEnd
    BY <1>5, TakeBeforeEnd, PeekBeforeEnd, StopIsLast
       DEF LexInlineTableValueEnd, In, Eof, Ends, Space, NL, Nul
  <1> QED
    BY <1>1, <1>2, <1>3, <1>4, <1>5 DEF LexNested

LEMMA LexTextStops ==
  ASSUME StopsAtEOF, LexText
  PROVE  StopsAtEOF'
  <1>1. CASE LexString
    BY <1>1, TakeBeforeEnd, PeekBeforeEnd, StopIsLast
       DEF LexString, In, Eof, Ends, NL, Nul
  <1>2. CASE LexRawString
    BY <1>2, TakeBeforeEnd, PeekBeforeEnd, StopIsLast
       DEF LexRawString, In, Eof, Ends, NL, Nul
  <1>3. CASE LexMultilineString
    BY <1>3, TakeBeforeEnd, PeekBeforeEnd, StopIsLast
       DEF LexMultilineString, CloseString, In, Eof, Ends, Nul
  <1>4. CASE LexMultilineRawString
    BY <1>4, TakeBeforeEnd, PeekBeforeEnd, StopIsLast
       DEF LexMultilineRawString, CloseString, In, Eof, Ends, Nul
  <1>5. CASE LexMultilineStringEscape
    BY <1>5, TakeBeforeEnd, PeekBeforeEnd, StopIsLast
       DEF LexMultilineStringEscape, In, Eof, NL
  <1>6. CASE LexStringEscape
    BY <1>6, TakeBeforeEnd, PeekBeforeEnd, StopIsLast
       DEF LexStringEscape, In, Eof, Escapes
  <1>7. CASE LexUnicodeEscape
    BY <1>7, TakeBeforeEnd, PeekBeforeEnd, StopIsLast
       DEF LexUnicodeEscape, In, Eof, Hexadecimal
  <1>8. CASE LexCommentStart
    BY <1>8, TakeBeforeEnd, PeekBeforeEnd, StopIsLast
       DEF LexCommentStart, In, Eof
  <1>9. CASE LexComment
    BY <1>9, TakeBeforeEnd, PeekBeforeEnd, StopIsLast
       DEF LexComment, In, Eof, EndOfComment, NL, Ends, Nul
  <1> QED
    BY <1>1, <1>2, <1>3, <1>4, <1>5, <1>6, <1>7, <1>8, <1>9 DEF LexText

LEMMA LexScalarStops ==
  ASSUME StopsAtEOF, LexScalar
  PROVE  StopsAtEOF'
  <1>1. CASE LexNumberOrDateStart
    BY <1>1, TakeBeforeEnd, PeekBeforeEnd, StopIsLast
       DEF LexNumberOrDateStart, In, Eof, Digit
  <1>2. CASE LexNumberOrDate
    BY <1>2, TakeBeforeEnd, PeekBeforeEnd, StopIsLast
       DEF LexNumberOrDate, In, Eof, Digit
  <1>3. CASE LexDatetime
    BY <1>3, TakeBeforeEnd, PeekBeforeEnd, StopIsLast
       DEF LexDatetime, In, Eof, Digit
  <1>4. CASE LexNumberStart
    BY <1>4, TakeBeforeEnd, PeekBeforeEnd, StopIsLast
       DEF LexNumberStart, In, Eof, Digit
  <1>5. CASE LexNumber
    BY <1>5, TakeBeforeEnd, PeekBeforeEnd, StopIsLast
       DEF LexNumber, In, Eof, Digit
  <1>6. CASE LexFloat
    BY <1>6, TakeBeforeEnd, PeekBeforeEnd, StopIsLast
       DEF LexFloat, In, Eof, Digit
  <1>7. CASE LexBool
    BY <1>7, TakeBeforeEnd, PeekBeforeEnd, StopIsLast
       DEF LexBool, In, Eof, Letter
  <1> QED
    BY <1>1, <1>2, <1>3, <1>4, <1>5, <1>6, <1>7 DEF LexScalar

LEMMA LexStops ==
  ASSUME StopsAtEOF, Lex
  PROVE  StopsAtEOF'
  BY LexTopLevelStops, LexNestedStops, LexTextStops, LexScalarStops DEF Lex

(* No text makes the lexer ask for a rune after the end (next, lex.go:140): *)
(* the function that reads the end is the last to run.                     *)
THEOREM NothingReadsPastTheEnd == Spec => []StopsAtEOF
  <1>1. Init => StopsAtEOF
    BY DEF Init, LexInit, StopsAtEOF
  <1>2. StopsAtEOF /\ [Next]_vars => StopsAtEOF'
    <2> SUFFICES ASSUME StopsAtEOF, [Next]_vars PROVE StopsAtEOF'
      OBVIOUS
    <2>1. CASE RunLexer
      BY <2>1, LexStops DEF RunLexer
    <2>2. CASE Parse
      BY <2>2, ParseReceives DEF Receives, StopsAtEOF
    <2>3. CASE UNCHANGED vars
      BY <2>3 DEF vars, lexVars, StopsAtEOF
    <2> QED
      BY <2>1, <2>2, <2>3 DEF Next
  <1> QED
    BY <1>1, <1>2, PTL DEF Spec
-----------------------------------------------------------------------------
(* The types of the variables.                                             *)
(* The parts of TypeOK that the lexer may disturb. *)
CallsTyped ==
  /\ state \in States /\ stack \in Seq(States) /\ Len(stack) <= MaxDepth
  /\ items \in Seq(ItemTypes)
RunesTyped == ahead \in Seq(Runes) /\ Len(ahead) <= 2 /\ atEOF \in BOOLEAN

-----------------------------------------------------------------------------
(* What a state function sends is at most one item of a known type. *)
LEMMA DoTyped ==
  ASSUME CallsTyped, items = <<>>, NEW next \in States,
         NEW below, below \in Seq(States), Len(below) <= MaxDepth,
         NEW sent \in Seq(ItemTypes), Do(next, below, sent)
  PROVE  CallsTyped'
  <1>1. items' = sent
    BY DEF Do
  <1> QED
    BY <1>1 DEF Do, CallsTyped

LEMMA GoTyped ==
  ASSUME CallsTyped, items = <<>>, NEW next \in States
  PROVE  /\ Go(next) => CallsTyped'
         /\ \A type \in ItemTypes : Emit(type, next) => CallsTyped'
  <1>1. <<>> \in Seq(ItemTypes) /\ \A type \in ItemTypes : <<type>> \in Seq(ItemTypes)
    OBVIOUS
  <1> QED
    BY <1>1, DoTyped DEF Go, Emit, CallsTyped

LEMMA FailTyped ==
  ASSUME CallsTyped, items = <<>>, Fail
  PROVE  CallsTyped'
  BY GoTyped DEF Fail, States, ItemTypes

(* Nothing is pushed on a stack that is full. *)
LEMMA CallTyped ==
  ASSUME CallsTyped, items = <<>>, NEW next \in States, NEW back \in States
  PROVE  /\ Call(next, back) => CallsTyped'
         /\ \A type \in ItemTypes :
              /\ Len(stack) < MaxDepth
              /\ Do(next, Append(stack, back), <<type>>)
              => CallsTyped'
  <1>1. ASSUME Len(stack) < MaxDepth
        PROVE  /\ Append(stack, back) \in Seq(States)
               /\ Len(Append(stack, back)) <= MaxDepth
    BY <1>1, DepthAssumption DEF CallsTyped
  <1>2. <<>> \in Seq(ItemTypes) /\ \A type \in ItemTypes : <<type>> \in Seq(ItemTypes)
    OBVIOUS
  <1> QED
    BY <1>1, <1>2, DoTyped DEF Call, Push

(* What is popped was pushed. *)
LEMMA ReturnTyped ==
  ASSUME CallsTyped, items = <<>>
  PROVE  /\ Return(<<>>) => CallsTyped'
         /\ \A type \in ItemTypes : Return(<<type>>) => CallsTyped'
  <1>1. ASSUME NEW sent \in Seq(ItemTypes), Return(sent), stack = <<>>
        PROVE  CallsTyped'
    <2>1. "nil" \in States /\ "NoStates" \in ItemTypes
      BY DEF States, ItemTypes
    <2>2. sent \o <<"NoStates">> \in Seq(ItemTypes)
      BY <2>1
    <2>3. Do("nil", stack, sent \o <<"NoStates">>)
      BY <1>1 DEF Return
    <2> QED
      BY <2>1, <2>2, <2>3, DoTyped DEF CallsTyped
  <1>2. ASSUME NEW sent \in Seq(ItemTypes), Return(sent), stack # <<>>
        PROVE  CallsTyped'
    <2> DEFINE n == Len(stack)
               below == SubSeq(stack, 1, n - 1)
    <2>1. stack \in Seq(States) /\ n \in Nat /\ n >= 1 /\ n <= MaxDepth
      BY <1>2 DEF CallsTyped
    <2>2. stack[n] \in States /\ \A i \in 1 .. n - 1 : stack[i] \in States
      BY <2>1
    <2>3. below \in Seq(States) /\ Len(below) = IF 1 <= n - 1 THEN n - 1 - 1 + 1 ELSE 0
      <3>1. n - 1 \in Int /\ 1 \in Int
        BY <2>1
      <3> HIDE DEF n
      <3> QED
        BY <2>2, <3>1, SubSeqProperties
    <2>4. Len(below) <= MaxDepth
      <3> HIDE DEF n, below
      <3> QED
        BY <2>1, <2>3, DepthAssumption
    <2>5. Do(stack[n], below, sent)
      BY <1>2 DEF Return
    <2> HIDE DEF n, below
    <2> QED
      BY <1>2, <2>2, <2>3, <2>4, <2>5, DoTyped
  <1>3. <<>> \in Seq(ItemTypes) /\ \A type \in ItemTypes : <<type>> \in Seq(ItemTypes)
    OBVIOUS
  <1> QED
    BY <1>1, <1>2, <1>3
-----------------------------------------------------------------------------
(* What is left of the runes backed up over. *)
LEMMA RestTyped ==
  ASSUME RunesTyped
  PROVE  Rest \in Seq(Runes) /\ Len(Rest) <= 1
  <1>1. CASE ahead = <<>>
    BY <1>1 DEF Rest
  <1>2. CASE ahead # <<>>
    <2>1. ahead \in Seq(Runes) /\ Len(ahead) \in Nat /\ Len(ahead) <= 2
      BY DEF RunesTyped
    <2>2. Tail(ahead) \in Seq(Runes) /\ Len(Tail(ahead)) = Len(ahead) - 1
      BY <1>2, <2>1, HeadTailProperties
    <2> QED
      BY <1>2, <2>1, <2>2 DEF Rest
  <1> QED
    BY <1>1, <1>2

LEMMA TakeTyped ==
  ASSUME RunesTyped, NEW runes, Take(runes)
  PROVE  RunesTyped'
  <1>1. ahead' = Rest /\ atEOF' \in BOOLEAN
    BY DEF Take
  <1> QED
    BY <1>1, RestTyped DEF RunesTyped

LEMMA PeekTyped ==
  ASSUME RunesTyped, NEW runes, runes \subseteq Runes, Peek(runes)
  PROVE  RunesTyped'
  <1>1. PICK r \in runes : ahead' = <<r>> \o Rest /\ atEOF' = atEOF
    BY DEF Peek
  <1>2. <<r>> \in Seq(Runes) /\ Len(<<r>>) = 1
    OBVIOUS
  <1>3. <<r>> \o Rest \in Seq(Runes) /\ Len(<<r>> \o Rest) = 1 + Len(Rest)
    BY <1>2, RestTyped, ConcatProperties
  <1>4. Len(Rest) \in Nat
    BY RestTyped
  <1> QED
    BY <1>1, <1>3, <1>4, RestTyped DEF RunesTyped

LEMMA BackedUpTyped ==
  ASSUME RunesTyped, NEW quote \in Runes, NEW r \in Runes,
         ahead' = <<>> \/ ahead' = BackedUp(quote, r) \/ ahead' = <<r>>,
         UNCHANGED atEOF
  PROVE  RunesTyped'
  <1>1. <<>> \in Seq(Runes) /\ Len(<<>>) = 0
    OBVIOUS
  <1>2. <<r>> \in Seq(Runes) /\ Len(<<r>>) = 1
    OBVIOUS
  <1>3. <<quote, r>> \in Seq(Runes) /\ Len(<<quote, r>>) = 2
    OBVIOUS
  <1>4. \E backed \in Seq(Runes) : Len(backed) <= 2 /\ ahead' = backed
    <2>1. 0 <= 2 /\ 1 <= 2 /\ 2 <= 2
      OBVIOUS
    <2>2. CASE ahead' = <<>>
      BY <1>1, <2>1, <2>2
    <2>3. CASE ahead' = <<r>>
      BY <1>2, <2>1, <2>3
    <2>4. CASE ahead' = <<quote, r>>
      BY <1>3, <2>1, <2>4
    <2> QED
      BY <2>2, <2>3, <2>4 DEF BackedUp
  <1> QED
    BY <1>4 DEF RunesTyped

LEMMA QuotesTyped ==
  ASSUME RunesTyped, NEW quote \in Runes, NEW string, NEW other
  PROVE  /\ OpenString(quote, string, other) => RunesTyped'
         /\ CloseString(quote, other, string) => RunesTyped'
  <1>1. \A r \in Runes \ {quote} : r \in Runes
    OBVIOUS
  <1> QED
    BY <1>1, BackedUpTyped DEF OpenString, CloseString
-----------------------------------------------------------------------------
(* Every state function keeps the types. *)
LEMMA LexTopLevelTyped ==
  ASSUME CallsTyped, RunesTyped, LexTopLevel
  PROVE  CallsTyped' /\ RunesTyped'
  <1>1. CASE LexTop
    <2>1. {"lexTop", "lexCommentStart", "lexTableStart", "nil",
           "lexKeyStart", "lexTopEnd"} \subseteq States
      BY DEF States
    <2>2. {"EOF"} \subseteq ItemTypes
      BY DEF ItemTypes, Primitives, StringItems
    <2>3. CallsTyped'
      BY <1>1, <2>1, <2>2, GoTyped, FailTyped, CallTyped
         DEF LexTop, KeyThenEnd, In
    <2>4. RunesTyped'
      BY <1>1, TakeTyped, PeekTyped
         DEF LexTop, KeyThenEnd, In, Runes, Ends, NL, Space
    <2> QED
      BY <2>3, <2>4
  <1>2. CASE LexTopEnd
    <2>1. {"lexTopEnd", "lexCommentStart", "lexTop", "nil"} \subseteq States
      BY DEF States
    <2>2. {"EOF"} \subseteq ItemTypes
      BY DEF ItemTypes, Primitives, StringItems
    <2>3. CallsTyped'
      BY <1>2, <2>1, <2>2, GoTyped, FailTyped, CallTyped
         DEF LexTopEnd, In
    <2>4. RunesTyped'
      BY <1>2, TakeTyped
         DEF LexTopEnd, In
    <2> QED
      BY <2>3, <2>4
  <1>3. CASE LexTableStart
    <2>1. {"lexArrayTableEnd", "lexTableEnd", "lexTableNameStart"} \subseteq States
      BY DEF States
    <2>2. {"ArrayTableStart", "TableStart"} \subseteq ItemTypes
      BY DEF ItemTypes, Primitives, StringItems
    <2>3. CallsTyped'
      BY <1>3, <2>1, <2>2, CallTyped
         DEF LexTableStart, TableNameThen, In
    <2>4. RunesTyped'
      BY <1>3, TakeTyped, PeekTyped
         DEF LexTableStart, TableNameThen, In
    <2> QED
      BY <2>3, <2>4
  <1>4. CASE LexTableEnd
    <2>1. CallsTyped'
      BY <1>4, GoTyped
         DEF LexTableEnd, In, States, ItemTypes, Primitives, StringItems
    <2>2. RunesTyped'
      BY <1>4
         DEF LexTableEnd, In, RunesTyped
    <2> QED
      BY <2>1, <2>2
  <1>5. CASE LexArrayTableEnd
    <2>1. CallsTyped'
      BY <1>5, GoTyped, FailTyped
         DEF LexArrayTableEnd, In, States, ItemTypes, Primitives, StringItems
    <2>2. RunesTyped'
      BY <1>5, TakeTyped
         DEF LexArrayTableEnd, In
    <2> QED
      BY <2>1, <2>2
  <1>6. CASE LexTableNameStart
    <2>1. {"lexTableNameStart", "lexValue", "lexTableNameEnd",
           "lexBareTableName"} \subseteq States
      BY DEF States
    <2>2. CallsTyped'
      BY <1>6, <2>1, GoTyped, FailTyped, CallTyped
         DEF LexTableNameStart, In
    <2>3. RunesTyped'
      BY <1>6, TakeTyped, PeekTyped
         DEF LexTableNameStart, In, Runes, Ends, Space, StringQuotes
    <2> QED
      BY <2>2, <2>3
  <1>7. CASE LexBareTableName
    <2>1. CallsTyped'
      BY <1>7, GoTyped
         DEF LexBareTableName, In, States, ItemTypes, Primitives, StringItems
    <2>2. RunesTyped'
      BY <1>7, TakeTyped, PeekTyped
         DEF LexBareTableName, In, Runes, BareKeyChar
    <2> QED
      BY <2>1, <2>2
  <1>8. CASE LexTableNameEnd
    <2>1. CallsTyped'
      BY <1>8, GoTyped, FailTyped, ReturnTyped
         DEF LexTableNameEnd, In, States
    <2>2. RunesTyped'
      BY <1>8, TakeTyped
         DEF LexTableNameEnd, In
    <2> QED
      BY <2>1, <2>2
  <1>9. CASE LexKeyStart
    <2>1. {"lexKeyStart", "lexValue", "lexKeyEnd", "lexBareKey"} \subseteq States
      BY DEF States
    <2>2. {"KeyStart"} \subseteq ItemTypes
      BY DEF ItemTypes, Primitives, StringItems
    <2>3. CallsTyped'
      BY <1>9, <2>1, <2>2, GoTyped, FailTyped, CallTyped
         DEF LexKeyStart, In
    <2>4. RunesTyped'
      BY <1>9, TakeTyped, PeekTyped
         DEF LexKeyStart, In, Runes, NL, Space, StringQuotes
    <2> QED
      BY <2>3, <2>4
  <1>10. CASE LexBareKey
    <2>1. CallsTyped'
      BY <1>10, GoTyped, FailTyped
         DEF LexBareKey, In, States, ItemTypes, Primitives, StringItems
    <2>2. RunesTyped'
      BY <1>10, TakeTyped, PeekTyped
         DEF LexBareKey, In, Runes, Space
    <2> QED
      BY <2>1, <2>2
  <1>11. CASE LexKeyEnd
    <2>1. CallsTyped'
      BY <1>11, GoTyped, FailTyped
         DEF LexKeyEnd, In, States
    <2>2. RunesTyped'
      BY <1>11, TakeTyped
         DEF LexKeyEnd, In
    <2> QED
      BY <2>1, <2>2
  <1> QED
    BY <1>1, <1>2, <1>3, <1>4, <1>5, <1>6, <1>7, <1>8, <1>9, <1>10, <1>11 DEF LexTopLevel

LEMMA LexNestedTyped ==
  ASSUME CallsTyped, RunesTyped, LexNested
  PROVE  CallsTyped' /\ RunesTyped'
  <1>1. CASE LexValue
    <2>1. CallsTyped'
      BY <1>1, GoTyped, FailTyped
         DEF LexValue, In, OpenString, States, ItemTypes, Primitives, StringItems
    <2>2. Digit \subseteq Runes /\ Letter \subseteq Runes
      BY DEF Runes, BareKeyChar
    <2>3. {"quote", "apostrophe"} \subseteq Runes
      BY DEF Runes, StringQuotes
    <2>4. RunesTyped'
      BY <1>1, <2>2, <2>3, TakeTyped, PeekTyped, QuotesTyped
         DEF LexValue, In
    <2> QED
      BY <2>1, <2>4
  <1>2. CASE LexArrayValue
    <2>1. {"lexArrayValue", "lexCommentStart", "lexValue",
           "lexArrayValueEnd"} \subseteq States
      BY DEF States
    <2>2. {"ArrayEnd"} \subseteq ItemTypes
      BY DEF ItemTypes, Primitives, StringItems
    <2>3. CallsTyped'
      BY <1>2, <2>1, <2>2, GoTyped, FailTyped, CallTyped, ReturnTyped
         DEF LexArrayValue, In
    <2>4. RunesTyped'
      BY <1>2, TakeTyped, PeekTyped
         DEF LexArrayValue, In, Runes, NL, Space
    <2> QED
      BY <2>3, <2>4
  <1>3. CASE LexArrayValueEnd
    <2>1. {"lexArrayValueEnd", "lexCommentStart", "lexArrayValue"} \subseteq States
      BY DEF States
    <2>2. {"ArrayEnd"} \subseteq ItemTypes
      BY DEF ItemTypes, Primitives, StringItems
    <2>3. CallsTyped'
      BY <1>3, <2>1, <2>2, GoTyped, FailTyped, CallTyped, ReturnTyped
         DEF LexArrayValueEnd, In
    <2>4. RunesTyped'
      BY <1>3, TakeTyped
         DEF LexArrayValueEnd, In
    <2> QED
      BY <2>3, <2>4
  <1>4. CASE LexInlineTableValue
    <2>1. {"lexInlineTableValue", "lexCommentStart", "lexKeyStart",
           "lexInlineTableValueEnd"} \subseteq States
      BY DEF States
    <2>2. {"InlineTableEnd"} \subseteq ItemTypes
      BY DEF ItemTypes, Primitives, StringItems
    <2>3. CallsTyped'
      BY <1>4, <2>1, <2>2, GoTyped, FailTyped, CallTyped, ReturnTyped
         DEF LexInlineTableValue, KeyThenTableEnd, In
    <2>4. RunesTyped'
      BY <1>4, TakeTyped, PeekTyped
         DEF LexInlineTableValue, KeyThenTableEnd, In, Runes, NL, Space
    <2> QED
      BY <2>3, <2>4
  <1>5. CASE LexInlineTableValueEnd
    <2>1. {"lexInlineTableValueEnd", "lexCommentStart",
           "lexInlineTableValue"} \subseteq States
      BY DEF States
    <2>2. {"InlineTableEnd"} \subseteq ItemTypes
      BY DEF ItemTypes, Primitives, StringItems
    <2>3. CallsTyped'
      BY <1>5, <2>1, <2>2, GoTyped, FailTyped, CallTyped, ReturnTyped
         DEF LexInlineTableValueEnd, In
    <2>4. RunesTyped'
      BY <1>5, TakeTyped
         DEF LexInlineTableValueEnd, In
    <2> QED
      BY <2>3, <2>4
  <1> QED
    BY <1>1, <1>2, <1>3, <1>4, <1>5 DEF LexNested

LEMMA LexTextTyped ==
  ASSUME CallsTyped, RunesTyped, LexText
  PROVE  CallsTyped' /\ RunesTyped'
  <1>1. CASE LexString
    <2>1. {"lexString", "lexStringEscape"} \subseteq States
      BY DEF States
    <2>2. {"String"} \subseteq ItemTypes
      BY DEF ItemTypes, Primitives, StringItems
    <2>3. CallsTyped'
      BY <1>1, <2>1, <2>2, GoTyped, FailTyped, CallTyped, ReturnTyped
         DEF LexString, In
    <2>4. RunesTyped'
      BY <1>1, TakeTyped
         DEF LexString, In
    <2> QED
      BY <2>3, <2>4
  <1>2. CASE LexRawString
    <2>1. CallsTyped'
      BY <1>2, GoTyped, FailTyped, ReturnTyped
         DEF LexRawString, In, States, ItemTypes, Primitives, StringItems
    <2>2. RunesTyped'
      BY <1>2, TakeTyped
         DEF LexRawString, In
    <2> QED
      BY <2>1, <2>2
  <1>3. CASE LexMultilineString
    <2>1. CallsTyped'
      BY <1>3, GoTyped, FailTyped, ReturnTyped
         DEF LexMultilineString, In, CloseString, States, ItemTypes, Primitives, StringItems
    <2>2. RunesTyped'
      BY <1>3, TakeTyped, QuotesTyped
         DEF LexMultilineString, In, Runes, Escapes, StringQuotes
    <2> QED
      BY <2>1, <2>2
  <1>4. CASE LexMultilineRawString
    <2>1. CallsTyped'
      BY <1>4, GoTyped, FailTyped, ReturnTyped
         DEF LexMultilineRawString, In, CloseString, States, ItemTypes, Primitives, StringItems
    <2>2. RunesTyped'
      BY <1>4, TakeTyped, QuotesTyped
         DEF LexMultilineRawString, In, Runes, Escapes, StringQuotes
    <2> QED
      BY <2>1, <2>2
  <1>5. CASE LexMultilineStringEscape
    <2>1. {"lexMultilineStringEscape", "lexMultilineString",
           "lexStringEscape"} \subseteq States
      BY DEF States
    <2>2. CallsTyped'
      BY <1>5, <2>1, GoTyped, CallTyped
         DEF LexMultilineStringEscape, In
    <2>3. RunesTyped'
      BY <1>5, TakeTyped, PeekTyped
         DEF LexMultilineStringEscape, In, Runes, NL
    <2> QED
      BY <2>2, <2>3
  <1>6. CASE LexStringEscape
    <2>1. CallsTyped'
      BY <1>6, GoTyped, FailTyped, ReturnTyped
         DEF LexStringEscape, In, States
    <2>2. RunesTyped'
      BY <1>6, TakeTyped
         DEF LexStringEscape, In
    <2> QED
      BY <2>1, <2>2
  <1>7. CASE LexUnicodeEscape
    <2>1. CallsTyped'
      BY <1>7, FailTyped, ReturnTyped
         DEF LexUnicodeEscape, In, States
    <2>2. RunesTyped'
      BY <1>7, TakeTyped
         DEF LexUnicodeEscape, In
    <2> QED
      BY <2>1, <2>2
  <1>8. CASE LexCommentStart
    <2>1. CallsTyped'
      BY <1>8, GoTyped
         DEF LexCommentStart, In, States, ItemTypes, Primitives, StringItems
    <2>2. RunesTyped'
      BY <1>8
         DEF LexCommentStart, In, RunesTyped
    <2> QED
      BY <2>1, <2>2
  <1>9. CASE LexComment
    <2>1. CallsTyped'
      BY <1>9, GoTyped, ReturnTyped
         DEF LexComment, In, States, ItemTypes, Primitives, StringItems
    <2>2. RunesTyped'
      BY <1>9, TakeTyped, PeekTyped
         DEF LexComment, In, Runes, EndOfComment
    <2> QED
      BY <2>1, <2>2
  <1> QED
    BY <1>1, <1>2, <1>3, <1>4, <1>5, <1>6, <1>7, <1>8, <1>9 DEF LexText

LEMMA LexScalarTyped ==
  ASSUME CallsTyped, RunesTyped, LexScalar
  PROVE  CallsTyped' /\ RunesTyped'
  <1>1. CASE LexNumberOrDateStart
    <2>1. CallsTyped'
      BY <1>1, GoTyped, FailTyped
         DEF LexNumberOrDateStart, In, States
    <2>2. RunesTyped'
      BY <1>1, TakeTyped
         DEF LexNumberOrDateStart, In
    <2> QED
      BY <2>1, <2>2
  <1>2. CASE LexNumberOrDate
    <2>1. CallsTyped'
      BY <1>2, GoTyped, ReturnTyped
         DEF LexNumberOrDate, In, States, ItemTypes, Primitives, StringItems
    <2>2. RunesTyped'
      BY <1>2, TakeTyped, PeekTyped
         DEF LexNumberOrDate, In, Runes, Digit
    <2> QED
      BY <2>1, <2>2
  <1>3. CASE LexDatetime
    <2>1. CallsTyped'
      BY <1>3, GoTyped, ReturnTyped
         DEF LexDatetime, In, States, ItemTypes, Primitives, StringItems
    <2>2. RunesTyped'
      BY <1>3, TakeTyped, PeekTyped
         DEF LexDatetime, In
    <2> QED
      BY <2>1, <2>2
  <1>4. CASE LexNumberStart
    <2>1. CallsTyped'
      BY <1>4, GoTyped, FailTyped
         DEF LexNumberStart, In, States
    <2>2. RunesTyped'
      BY <1>4, TakeTyped
         DEF LexNumberStart, In
    <2> QED
      BY <2>1, <2>2
  <1>5. CASE LexNumber
    <2>1. CallsTyped'
      BY <1>5, GoTyped, ReturnTyped
         DEF LexNumber, In, States, ItemTypes, Primitives, StringItems
    <2>2. RunesTyped'
      BY <1>5, TakeTyped, PeekTyped
         DEF LexNumber, In, Runes, Digit
    <2> QED
      BY <2>1, <2>2
  <1>6. CASE LexFloat
    <2>1. CallsTyped'
      BY <1>6, GoTyped, ReturnTyped
         DEF LexFloat, In, States, ItemTypes, Primitives, StringItems
    <2>2. RunesTyped'
      BY <1>6, TakeTyped, PeekTyped
         DEF LexFloat, In
    <2> QED
      BY <2>1, <2>2
  <1>7. CASE LexBool
    <2>1. CallsTyped'
      BY <1>7, FailTyped, ReturnTyped
         DEF LexBool, In, States, ItemTypes, Primitives, StringItems
    <2>2. RunesTyped'
      BY <1>7
         DEF LexBool, In, RunesTyped
    <2> QED
      BY <2>1, <2>2
  <1> QED
    BY <1>1, <1>2, <1>3, <1>4, <1>5, <1>6, <1>7 DEF LexScalar

(* The lexer leaves the parser's calls alone. *)
LEMMA LexTyped ==
  ASSUME TypeOK, RunLexer
  PROVE  TypeOK'
  <1>1. CallsTyped /\ RunesTyped
    BY DEF TypeOK, CallsTyped, RunesTyped
  <1>2. CallsTyped' /\ RunesTyped'
    BY <1>1, LexTopLevelTyped, LexNestedTyped, LexTextTyped, LexScalarTyped
       DEF RunLexer, Lex
  <1>3. UNCHANGED <<frames, outcome>>
    BY DEF RunLexer
  <1> QED
    BY <1>2, <1>3 DEF TypeOK, CallsTyped, RunesTyped

(* What the parser has called when it enters a call, leaves one, or goes   *)
(* from one to the next.                                                   *)
LEMMA EnterFacts ==
  ASSUME NEW f \in Seq(Frames), NEW x \in Frames
  PROVE  /\ Append(f, x) \in Seq(Frames) /\ Append(f, x) # <<>>
         /\ Len(Append(f, x)) = Len(f) + 1
         /\ \A i \in 1 .. Len(f) : Append(f, x)[i] = f[i]
         /\ Append(f, x)[Len(f) + 1] = x
  BY AppendProperties

LEMMA LeaveFacts ==
  ASSUME NEW S, NEW f \in Seq(S), f # <<>>
  PROVE  /\ SubSeq(f, 1, Len(f) - 1) \in Seq(S)
         /\ Len(SubSeq(f, 1, Len(f) - 1)) = Len(f) - 1
         /\ \A i \in 1 .. Len(f) - 1 : SubSeq(f, 1, Len(f) - 1)[i] = f[i]
  <1> DEFINE n == Len(f)
             g == SubSeq(f, 1, n - 1)
  <1>1. n \in Nat /\ n >= 1 /\ 1 \in Int /\ n - 1 \in Int
    OBVIOUS
  <1>2. \A i \in 1 .. n - 1 : f[i] \in S
    OBVIOUS
  <1>3. /\ g \in Seq(S) /\ Len(g) = IF 1 <= n - 1 THEN n - 1 - 1 + 1 ELSE 0
        /\ \A i \in 1 .. n - 1 - 1 + 1 : g[i] = f[1 + i - 1]
    <2> HIDE DEF n
    <2> QED
      BY <1>1, <1>2, SubSeqProperties
  <1> HIDE DEF n, g
  <1>4. g \in Seq(S) /\ Len(g) = n - 1 /\ \A i \in 1 .. n - 1 : g[i] = f[i]
    BY <1>1, <1>3
  <1> QED
    BY <1>4 DEF n, g

LEMMA BecomeFacts ==
  ASSUME NEW f \in Seq(Frames), f # <<>>, NEW x \in Frames
  PROVE  LET g == Append(SubSeq(f, 1, Len(f) - 1), x)
         IN  /\ g \in Seq(Frames) /\ g # <<>> /\ Len(g) = Len(f)
             /\ \A i \in 1 .. Len(f) - 1 : g[i] = f[i]
             /\ g[Len(f)] = x
  <1> DEFINE h == SubSeq(f, 1, Len(f) - 1)
  <1>1. h \in Seq(Frames) /\ Len(h) = Len(f) - 1 /\ Len(f) \in Nat
        /\ \A i \in 1 .. Len(f) - 1 : h[i] = f[i]
    BY LeaveFacts
  <1> HIDE DEF h
  <1>2. /\ Append(h, x) \in Seq(Frames) /\ Append(h, x) # <<>>
        /\ Len(Append(h, x)) = Len(h) + 1
        /\ \A i \in 1 .. Len(h) : Append(h, x)[i] = h[i]
        /\ Append(h, x)[Len(h) + 1] = x
    BY <1>1, EnterFacts
  <1>3. Len(h) + 1 = Len(f)
    BY <1>1
  <1>4. \A i \in 1 .. Len(f) - 1 : Append(h, x)[i] = f[i]
    BY <1>1, <1>2
  <1>5. Append(h, x)[Len(f)] = x /\ Len(Append(h, x)) = Len(f)
    BY <1>2, <1>3
  <1> QED
    BY <1>2, <1>4, <1>5 DEF h

(* Whatever item it takes, the parser is in calls it knows, or at an end   *)
(* it knows.                                                               *)
CallsKnown == frames \in Seq(Frames) /\ outcome \in Outcomes \cup {"parsing"}

LEMMA StepKnown ==
  ASSUME CallsKnown
  PROVE  /\ \A x \in Frames : Enter(x) => CallsKnown'
         /\ \A x \in Frames : Inner # "top" /\ Become(x) => CallsKnown'
         /\ Inner # "top" /\ Leave => CallsKnown'
         /\ Stay => CallsKnown'
         /\ \A how \in Outcomes : Stop(how) => CallsKnown'
  <1>1. \A x \in Frames : Enter(x) => CallsKnown'
    BY EnterFacts DEF CallsKnown, Enter
  <1>2. ASSUME Inner # "top"
        PROVE  frames # <<>>
    BY <1>2 DEF Inner
  <1>3. \A x \in Frames : Inner # "top" /\ Become(x) => CallsKnown'
    BY <1>2, BecomeFacts DEF CallsKnown, Become, Outer
  <1>4. Inner # "top" /\ Leave => CallsKnown'
    BY <1>2, LeaveFacts DEF CallsKnown, Leave, Outer
  <1>5. Stay => CallsKnown'
    BY DEF CallsKnown, Stay
  <1>6. \A how \in Outcomes : Stop(how) => CallsKnown'
    BY DEF CallsKnown, Stop
  <1> QED
    BY <1>1, <1>3, <1>4, <1>5, <1>6

LEMMA ParseKnown ==
  ASSUME CallsKnown, Parse
  PROVE  CallsKnown'
  <1>0. /\ Outcomes = {"accepted", "refused", "bad escape", "no context", "bug",
                        "crash"}
        /\ Frames = {"comment", "tableStart", "table", "arrayTableStart",
                     "arrayTable", "key", "value", "array", "inline"}
    BY DEF Outcomes, Frames
  <1>1. CASE LexerError
    BY <1>0, <1>1, StepKnown DEF LexerError
  <1>2. CASE TopLevel
    BY <1>0, <1>2, StepKnown DEF TopLevel
  <1>3. CASE CommentText
    BY <1>0, <1>3, StepKnown DEF CommentText
  <1>4. CASE TableName
    BY <1>0, <1>4, StepKnown DEF TableName, BadEscape
  <1>5. CASE KeyName
    BY <1>0, <1>5, StepKnown DEF KeyName, BadEscape
  <1>6. CASE Value
    BY <1>0, <1>6, StepKnown DEF Value, BadEscape, Complete, SetValue
  <1>7. CASE ArrayValue
    BY <1>0, <1>7, StepKnown DEF ArrayValue, BadEscape, ArrayComment, Complete, SetValue
  <1>8. CASE InlineTable
    BY <1>0, <1>8, StepKnown DEF InlineTable, Complete, SetValue
  <1> QED
    BY <1>1, <1>2, <1>3, <1>4, <1>5, <1>6, <1>7, <1>8 DEF Parse

(* For every text, every variable keeps its kind, and the lexer never      *)
(* backs up over more than two runes, which is all backup remembers        *)
(* (lex.go:166).                                                           *)
THEOREM TypeCorrect == Spec => []TypeOK
  <1>1. Init => TypeOK
    <2>1. Len(<<>>) = 0 /\ 0 <= 2
      OBVIOUS
    <2>2. 0 <= MaxDepth
      BY DepthAssumption
    <2>3. "lexTop" \in States
      BY DEF States
    <2>4. \A S : <<>> \in Seq(S)
      OBVIOUS
    <2>5. Init => atEOF \in BOOLEAN
      BY DEF Init, LexInit
    <2>6. Init => Len(stack) <= MaxDepth /\ Len(ahead) <= 2
      BY <2>1, <2>2 DEF Init, LexInit
    <2> QED
      BY <2>3, <2>4, <2>5, <2>6, Zenon DEF Init, LexInit, TypeOK
  <1>2. TypeOK /\ [Next]_vars => TypeOK'
    <2> SUFFICES ASSUME TypeOK, [Next]_vars PROVE TypeOK'
      OBVIOUS
    <2>1. CASE RunLexer
      BY <2>1, LexTyped
    <2>2. CASE Parse
      <3>1. CallsKnown /\ CallsKnown'
        BY <2>2, ParseKnown DEF CallsKnown, TypeOK
      <3>2. PICK types : Receives(types)
        BY <2>2, ParseReceives
      <3>3. items' \in Seq(ItemTypes)
        <4>1. items \in Seq(ItemTypes) /\ items # <<>> /\ items' = Tail(items)
          BY <3>2 DEF Receives, TypeOK
        <4> QED
          BY <4>1, HeadTailProperties
      <3>4. UNCHANGED <<state, stack, ahead, atEOF>>
        BY <3>2 DEF Receives
      <3> QED
        BY <3>1, <3>3, <3>4 DEF CallsKnown, TypeOK
    <2>3. CASE UNCHANGED vars
      BY <2>3 DEF vars, lexVars, TypeOK
    <2> QED
      BY <2>1, <2>2, <2>3 DEF Next
  <1> QED
    BY <1>1, <1>2, PTL DEF Spec
=============================================================================
